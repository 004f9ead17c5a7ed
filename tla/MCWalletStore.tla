--------------------------- MODULE MCWalletStore ----------------------------
(* WalletStore for model checking: who has which environment. *)
EXTENDS WalletStore

CONSTANTS mcp, cli, other, hatch, a, w, s1

With(pass, net, cm_id, words) == [pass |-> pass, net |-> net, cm_id |-> cm_id, words |-> words]

\* A session and a shell with the passphrase, a shell without it on a test
\* network whose CM_ID matches two identities, a shell with CM_MNEMONIC.
MCEnv == [p \in {mcp, cli, other, hatch} |->
            CASE p = other -> With(None, "signet", {<<s1, 1>>, <<w, 1>>}, None)
              [] p = hatch -> With(None, "signet", None, w)
              [] OTHER -> With(a, "mainnet", None, None)]

\* One machine used on two test networks.
TestNets == [p \in {mcp, cli, other, hatch} |->
               With(a, IF p = cli THEN "signet" ELSE "testnet", None, None)]
=============================================================================
