----------------------------- MODULE MCProvision -----------------------------
(***************************************************************************)
(* Provision on a small instance: a bundle whose items share a name, a     *)
(* single environment whose name is what the bundle's second may become,   *)
(* and a declared bundle that meets both.                                  *)
(***************************************************************************)
EXTENDS Provision

CONSTANTS web, api, h1, h2

Env(name, hooks, auto) == [name |-> name, hooks |-> hooks, auto |-> auto]

Pair == <<Env(<<web>>, <<h1, h1, h2>>, TRUE), Env(<<web>>, <<>>, FALSE)>>
Single == <<Env(<<web, 2>>, <<>>, TRUE)>>
Nameless == <<Env(NoName, <<h1>>, FALSE)>>

MCBundles == {Pair, Single, Nameless}

MCDeclared == <<Env(<<web>>, <<h1, h2>>, TRUE), Env(NoName, <<>>, FALSE),
                Env(<<api>>, <<>>, TRUE)>>

(* apiUpdateEnv does not refuse an empty name.                             *)
MCNewNames == {<<api>>, NoName}
=============================================================================
