----------------------------- MODULE WalletStore ----------------------------
(***************************************************************************)
(* The store of identities and who works with which one:                   *)
(* src/src/storage.rs (directories, seed files, the `default' marker, the  *)
(* lock of a wallet), `cm setup' and `cm serve' (src/src/main.rs), the     *)
(* session of the MCP server with cm_setup, cm_serve and cm_paywall        *)
(* (src/src/mcp.rs), and the card a wallet has on the DHT                  *)
(* (src/src/discover.rs).                                                  *)
(*                                                                         *)
(* A seed is its twelve words.  The identity of a wallet, which names its  *)
(* directory, is the seed with the coin type of the network                *)
(* (Wallet::id_hex).  Every file access of a setup is a step; a load reads *)
(* the store in one step.                                                  *)
(***************************************************************************)
EXTENDS Integers, FiniteSets

CONSTANTS
    Seed,           \* the seeds that can be generated
    Words,          \* the seeds somebody may have in CM_MNEMONIC
    Passphrase,
    Session,        \* the MCP servers
    Command,        \* the shells that run `cm' commands
    None,           \* an unset variable, a missing file, nobody
    Empty,          \* a `default' file that was created and not written
    Spawned,        \* a daemon that has not loaded its wallet yet
    Env,            \* Env[p]: the environment, [pass, net, cm_id, words]
    ParallelSetups, \* may two setups run at the same time?
    MaxCrashes      \* bound on processes that die

Proc == Session \cup Command
Net == {"mainnet", "testnet", "signet"}

\* Wallet::coin_type, Wallet::id_hex
coin_type(net) == IF net = "mainnet" THEN 0 ELSE 1
id_hex(seed, net) == <<seed, coin_type(net)>>
Id == (Seed \cup Words) \X {0, 1}

ASSUME ConstAssumption ==
    /\ Session \cap Command = {} /\ Seed \cap Words = {}
    /\ {None, Empty, Spawned} \cap (Seed \cup Words \cup Passphrase \cup Proc \cup Id) = {}
    /\ None # Empty /\ None # Spawned /\ Empty # Spawned
    /\ \A p \in Proc :
        /\ Env[p].pass \in Passphrase \cup {None}
        /\ Env[p].net \in Net
        /\ Env[p].cm_id = None \/ Env[p].cm_id \subseteq Id  \* the identities CM_ID matches
        /\ Env[p].words \in Words \cup {None}
    /\ ParallelSetups \in BOOLEAN
    /\ MaxCrashes \in Nat

VARIABLES
    dirs,     \* the identity directories
    seedfile, \* what an identity's seed.enc or mnemonic holds: [kind, pass]
    marker,   \* the `default' file: None, Empty or an identity
    pc,
    made,     \* the seed a setup has generated
    wallet,   \* the wallet of an MCP session, loaded at most once
    SERVING,  \* the flag of cm_serve in each session
    daemon,   \* serve::run of each process: None, Spawned or the wallet's identity
    PAYWALL,  \* the flag of cm_paywall in each session
    listener, \* the process that has bound the paywall's port
    lock,     \* the holder of each directory's lock
    card,     \* the card on the DHT: "none", "bare" or "ep"
    reports,  \* <<process, words shown, seed of the address shown>> of the setups
    loads,    \* the identities load_wallet gave to each process
    crashes

store == <<dirs, seedfile, marker>>
serving == <<SERVING, daemon, PAYWALL, listener, lock>>
vars == <<dirs, seedfile, marker, pc, made, wallet, SERVING, daemon, PAYWALL,
          listener, lock, card, reports, loads, crashes>>

SetupStep == {"dir", "seed", "sealing", "marker", "marking", "load"}

NoFile == [kind |-> "none", pass |-> None]

TypeOK ==
    /\ dirs \subseteq Id
    /\ seedfile \in [Id -> [kind : {"none", "torn", "plain", "sealed"}, pass : Passphrase \cup {None}]]
    /\ marker \in {None, Empty} \cup Id
    /\ pc \in [Proc -> {"off", "ready", "serve_call"} \cup SetupStep]
    /\ made \in [Proc -> Seed \cup {None}]
    /\ wallet \in [Session -> Id \cup {None}]
    /\ SERVING \in [Session -> BOOLEAN]
    /\ daemon \in [Proc -> {None, Spawned} \cup Id]
    /\ PAYWALL \in [Session -> BOOLEAN]
    /\ listener \in Session \cup {None}
    /\ lock \in [Id -> Proc \cup {None}]
    /\ card \in [Id -> {"none", "bare", "ep"}]
    /\ reports \subseteq Proc \X Seed \X (Seed \cup Words)
    /\ loads \in [Proc -> SUBSET Id]
    /\ crashes \in 0..MaxCrashes

Init ==
    /\ dirs = {}
    /\ seedfile = [i \in Id |-> NoFile]
    /\ marker = None
    /\ pc = [p \in Proc |-> "off"]
    /\ made = [p \in Proc |-> None]
    /\ wallet = [p \in Session |-> None]
    /\ SERVING = [p \in Session |-> FALSE]
    /\ daemon = [p \in Proc |-> None]
    /\ PAYWALL = [p \in Session |-> FALSE]
    /\ listener = None
    /\ lock = [i \in Id |-> None]
    /\ card = [i \in Id |-> "none"]
    /\ reports = {}
    /\ loads = [p \in Proc |-> {}]
    /\ crashes = 0

-----------------------------------------------------------------------------
(* storage::load_wallet.  A result is a set with one element, or empty: an *)
(* error.                                                                  *)

Sole(S) == IF Cardinality(S) = 1 THEN S ELSE {}

\* storage::pick_identity: what CM_ID matches, else the marker if there is such a
\* directory, else the only directory.
pick_identity(ids, cm_id, default) ==
    IF cm_id # None THEN Sole(ids \cap cm_id)
    ELSE IF default \in ids THEN {default}
    ELSE Sole(ids)

\* storage::load_encrypted fails on a torn file and on the wrong passphrase; a
\* plaintext seed is refused on mainnet.
Unlocks(file, env) ==
    \/ file.kind = "sealed" /\ env.pass = file.pass
    \/ file.kind = "plain" /\ env.net # "mainnet"

\* CM_MNEMONIC, else a picked identity that unlocks and that is the one of this
\* network.
load_wallet(p) ==
    IF Env[p].words # None THEN {id_hex(Env[p].words, Env[p].net)}
    ELSE {i \in pick_identity(dirs, Env[p].cm_id, marker) :
             Unlocks(seedfile[i], Env[p]) /\ id_hex(i[1], Env[p].net) = i}

Goto(p, step) == pc' = [pc EXCEPT ![p] = step]
Loaded(p) == loads' = [loads EXCEPT ![p] = @ \cup load_wallet(p)]

\* Where a process is when it has nothing to do.
Home(p) == IF p \in Session THEN "ready" ELSE "off"

\* Opening a wallet's ledger makes its directory.
open_ledger(ids) == dirs' = dirs \cup ids

-----------------------------------------------------------------------------
(* mcp::run and the tools that need the wallet.                            *)

\* The server starts, with a wallet or without one.
run(p) ==
    /\ p \in Session /\ pc[p] = "off"
    /\ Goto(p, "ready")
    /\ wallet' = [wallet EXCEPT ![p] = IF load_wallet(p) = {} THEN None
                                       ELSE CHOOSE i \in load_wallet(p) : TRUE]
    /\ Loaded(p)
    /\ open_ledger(load_wallet(p))
    /\ UNCHANGED <<seedfile, marker, made, serving, card, reports, crashes>>

\* mcp::tools_call without a wallet: the unlock is tried again and kept.
tools_call(p) ==
    /\ p \in Session /\ pc[p] = "ready"
    /\ wallet[p] = None
    /\ \E i \in load_wallet(p) : wallet' = [wallet EXCEPT ![p] = i]
    /\ Loaded(p)
    /\ open_ledger(load_wallet(p))
    /\ UNCHANGED <<seedfile, marker, pc, made, serving, card, reports, crashes>>

\* A command that loads the wallet and opens its ledger (`cm balance', `cm send').
cli_command(p) ==
    /\ p \in Command /\ pc[p] = "off" /\ daemon[p] = None
    /\ load_wallet(p) # {}
    /\ Loaded(p)
    /\ open_ledger(load_wallet(p))
    /\ UNCHANGED <<seedfile, marker, pc, made, wallet, serving, card, reports, crashes>>

-----------------------------------------------------------------------------
(* `cm setup' and cm_setup.                                                *)

InSetup(p) == pc[p] \in SetupStep

\* Wallet::generate: a seed nobody has.
generate(p) ==
    \E s \in Seed : /\ \A q \in Proc : made[q] # s
                    /\ \A i \in dirs : i[1] # s
                    /\ made' = [made EXCEPT ![p] = s]

\* Mutant: a wallet is made whenever none can be loaded.
setup_report_unloadable(p) ==
    /\ pc[p] = Home(p)
    /\ p \in Command => daemon[p] = None
    /\ ParallelSetups \/ \A q \in Proc : ~InSetup(q)
    /\ \/ load_wallet(p) # {} /\ Goto(p, "load") /\ UNCHANGED made
       \/ /\ load_wallet(p) = {}
          /\ Env[p].net = "mainnet" => Env[p].pass # None
          /\ generate(p)
          /\ Goto(p, "dir")
    /\ UNCHANGED <<store, wallet, serving, card, reports, loads, crashes>>

\* A wallet is made if there is no directory; on mainnet only with a passphrase
\* to seal it.
setup_report(p) ==
    /\ pc[p] = Home(p)
    /\ p \in Command => daemon[p] = None
    /\ ParallelSetups \/ \A q \in Proc : ~InSetup(q)
    /\ \/ dirs # {} /\ Goto(p, "load") /\ UNCHANGED made
       \/ /\ dirs = {}
          /\ Env[p].net = "mainnet" => Env[p].pass # None
          /\ generate(p)
          /\ Goto(p, "dir")
    /\ UNCHANGED <<store, wallet, serving, card, reports, loads, crashes>>

\* storage::save_new_wallet: the directory, the seed file (created, then
\* written), the marker unless the file exists (created, then written).
MadeId(p) == id_hex(made[p], Env[p].net)

create_dir_all(p) ==
    /\ pc[p] = "dir"
    /\ dirs' = dirs \cup {MadeId(p)}
    /\ Goto(p, "seed")
    /\ UNCHANGED <<seedfile, marker, made, wallet, serving, card, reports, loads, crashes>>

create_seed(p) ==
    /\ pc[p] = "seed"
    /\ seedfile' = [seedfile EXCEPT ![MadeId(p)] = [kind |-> "torn", pass |-> None]]
    /\ Goto(p, "sealing")
    /\ UNCHANGED <<dirs, marker, made, wallet, serving, card, reports, loads, crashes>>

write_seed(p) ==
    /\ pc[p] = "sealing"
    /\ seedfile' = [seedfile EXCEPT ![MadeId(p)] =
           [kind |-> IF Env[p].pass = None THEN "plain" ELSE "sealed", pass |-> Env[p].pass]]
    /\ Goto(p, "marker")
    /\ UNCHANGED <<dirs, marker, made, wallet, serving, card, reports, loads, crashes>>

create_marker(p) ==
    /\ pc[p] = "marker"
    /\ marker' = IF marker = None THEN Empty ELSE marker
    /\ Goto(p, IF marker = None THEN "marking" ELSE "load")
    /\ UNCHANGED <<dirs, seedfile, made, wallet, serving, card, reports, loads, crashes>>

\* Mutant: the marker is given the words, not the identity.
write_marker_words(p) ==
    /\ pc[p] = "marking"
    /\ marker' = made[p]
    /\ Goto(p, "load")
    /\ UNCHANGED <<dirs, seedfile, made, wallet, serving, card, reports, loads, crashes>>

write_marker(p) ==
    /\ pc[p] = "marking"
    /\ marker' = MadeId(p)
    /\ Goto(p, "load")
    /\ UNCHANGED <<dirs, seedfile, made, wallet, serving, card, reports, loads, crashes>>

\* discover::publish of a card with or without endpoints: a later card
\* supersedes the earlier one.
publish(ids, kind) == card' = [i \in Id |-> IF i \in ids THEN kind ELSE card[i]]

\* The wallet is loaded and reported, next to the words of a new one; cm_setup
\* puts a card without endpoint on the DHT, if it can.
report(p) ==
    /\ pc[p] = "load"
    /\ reports' = reports \cup (IF made[p] = None THEN {} ELSE {<<p, made[p], i[1]>> : i \in load_wallet(p)})
    /\ \/ UNCHANGED card
       \/ p \in Session /\ publish(load_wallet(p), "bare")
    /\ Loaded(p)
    /\ made' = [made EXCEPT ![p] = None]
    /\ Goto(p, Home(p))
    /\ UNCHANGED <<store, wallet, serving, crashes>>

-----------------------------------------------------------------------------
(* The daemon: cm_serve and `cm serve'.                                    *)

\* mcp::call_serve: the flag first, then the wallet, then the thread.
call_serve(p) ==
    /\ p \in Session /\ pc[p] = "ready"
    /\ ~SERVING[p]
    /\ SERVING' = [SERVING EXCEPT ![p] = TRUE]
    /\ Goto(p, "serve_call")
    /\ UNCHANGED <<store, made, wallet, daemon, PAYWALL, listener, lock, card, reports, loads, crashes>>

preflight(p) ==
    /\ pc[p] = "serve_call"
    /\ IF load_wallet(p) = {} THEN SERVING' = [SERVING EXCEPT ![p] = FALSE] /\ UNCHANGED daemon
       ELSE daemon' = [daemon EXCEPT ![p] = Spawned] /\ UNCHANGED SERVING
    /\ Loaded(p)
    /\ Goto(p, "ready")
    /\ UNCHANGED <<store, made, wallet, PAYWALL, listener, lock, card, reports, crashes>>

cli_serve(p) ==
    /\ p \in Command /\ pc[p] = "off" /\ daemon[p] = None
    /\ daemon' = [daemon EXCEPT ![p] = Spawned]
    /\ UNCHANGED <<store, pc, made, wallet, SERVING, PAYWALL, listener, lock, card, reports, loads, crashes>>

\* Mutant: the daemon starts whoever else serves the wallet.
lock_dir_shared(p) ==
    /\ daemon[p] = Spawned
    /\ \E i \in load_wallet(p) :
        /\ lock' = [lock EXCEPT ![i] = p]
        /\ daemon' = [daemon EXCEPT ![p] = i]
    /\ Loaded(p)
    /\ open_ledger(load_wallet(p))
    /\ UNCHANGED <<seedfile, marker, pc, made, wallet, SERVING, PAYWALL, listener, card, reports, crashes>>

\* serve::run: the wallet is loaded (again), its directory is locked.
lock_dir(p) ==
    /\ daemon[p] = Spawned
    /\ \E i \in load_wallet(p) :
        /\ lock[i] = None
        /\ lock' = [lock EXCEPT ![i] = p]
        /\ daemon' = [daemon EXCEPT ![p] = i]
    /\ Loaded(p)
    /\ open_ledger(load_wallet(p))
    /\ UNCHANGED <<seedfile, marker, pc, made, wallet, SERVING, PAYWALL, listener, card, reports, crashes>>

\* serve::republish: cm_serve always has an endpoint, `cm serve' perhaps.
republish(p) ==
    /\ daemon[p] \in Id
    /\ \/ publish({daemon[p]}, "ep")
       \/ p \in Command /\ publish({daemon[p]}, "bare")
    /\ UNCHANGED <<store, pc, made, wallet, serving, reports, loads, crashes>>

\* `cm publish', with endpoints or none.
cli_publish(p) ==
    /\ p \in Command /\ pc[p] = "off" /\ daemon[p] = None
    /\ load_wallet(p) # {}
    /\ \E kind \in {"bare", "ep"} : publish(load_wallet(p), kind)
    /\ Loaded(p)
    /\ UNCHANGED <<store, pc, made, wallet, serving, reports, crashes>>

Unlocked(p) == [i \in Id |-> IF lock[i] = p THEN None ELSE lock[i]]

\* The daemon ends with an error: no wallet, the lock is taken, the address is
\* taken.  The lock goes, then the flag.
daemon_exits(p) ==
    /\ daemon[p] # None
    /\ daemon' = [daemon EXCEPT ![p] = None]
    /\ lock' = Unlocked(p)
    /\ SERVING' = IF p \in Session THEN [SERVING EXCEPT ![p] = FALSE] ELSE SERVING
    /\ UNCHANGED <<store, pc, made, wallet, PAYWALL, listener, card, reports, loads, crashes>>

-----------------------------------------------------------------------------
(* mcp::call_paywall: flag, wallet and listener, then the thread.          *)

call_paywall(p) ==
    /\ p \in Session /\ pc[p] = "ready"
    /\ ~PAYWALL[p]
    /\ load_wallet(p) # {} /\ listener = None
    /\ PAYWALL' = [PAYWALL EXCEPT ![p] = TRUE]
    /\ listener' = p
    /\ Loaded(p)
    /\ UNCHANGED <<store, pc, made, wallet, SERVING, daemon, lock, card, reports, crashes>>

\* The thread cannot load the wallet, or its listener fails.
paywall_exits(p) ==
    /\ p \in Session /\ PAYWALL[p]
    /\ PAYWALL' = [PAYWALL EXCEPT ![p] = FALSE]
    /\ listener' = None
    /\ UNCHANGED <<store, pc, made, wallet, SERVING, daemon, lock, card, reports, loads, crashes>>

-----------------------------------------------------------------------------
Ended(p) ==
    /\ Goto(p, "off")
    /\ made' = [made EXCEPT ![p] = None]
    /\ wallet' = [q \in Session |-> IF q = p THEN None ELSE wallet[q]]
    /\ SERVING' = [q \in Session |-> IF q = p THEN FALSE ELSE SERVING[q]]
    /\ PAYWALL' = [q \in Session |-> IF q = p THEN FALSE ELSE PAYWALL[q]]
    /\ daemon' = [daemon EXCEPT ![p] = None]
    /\ listener' = IF listener = p THEN None ELSE listener
    /\ lock' = Unlocked(p)
    /\ UNCHANGED <<store, card, reports, loads>>

\* The client closes stdin: the server ends, and its threads with it.
stdin_closed(p) ==
    /\ p \in Session /\ pc[p] = "ready"
    /\ Ended(p)
    /\ UNCHANGED crashes

Crash(p) ==
    /\ pc[p] # "off" \/ daemon[p] # None
    /\ crashes < MaxCrashes
    /\ crashes' = crashes + 1
    /\ Ended(p)

SetupNext(p) ==
    \/ setup_report(p) \/ create_dir_all(p) \/ create_seed(p) \/ write_seed(p)
    \/ create_marker(p) \/ write_marker(p) \/ report(p)

ServeNext(p) ==
    \/ call_serve(p) \/ preflight(p) \/ cli_serve(p) \/ lock_dir(p) \/ republish(p) \/ cli_publish(p)
    \/ daemon_exits(p) \/ call_paywall(p) \/ paywall_exits(p)

Next == \E p \in Proc :
    run(p) \/ tools_call(p) \/ cli_command(p) \/ SetupNext(p) \/ ServeNext(p) \/ stdin_closed(p) \/ Crash(p)

Spec == Init /\ [][Next]_vars

-----------------------------------------------------------------------------
(* Properties.                                                             *)

\* Two daemons never work on one wallet (serve.rs:62-65, storage.rs:100-104),
\* whoever started them, on whatever network of the coin type; and a session's
\* flag is set just while a cm_serve call is under way or its thread lives, so
\* that a second call is refused and a retry after a failure is not
\* (mcp.rs:532-533, mcp.rs:569-570).  The same holds for the paywall's flag and
\* its listener.
DaemonsApart ==
    /\ \A p, q \in Proc : daemon[p] = daemon[q] /\ daemon[p] \in Id => p = q
    /\ \A p \in Session : SERVING[p] <=> pc[p] = "serve_call" \/ daemon[p] # None
    /\ \A p \in Session : PAYWALL[p] <=> listener = p

\* The words a setup shows are those of the address it shows ("the only
\* recovery", mcp.rs:462), for every setup.
BackupIsRight == \A r \in reports : r[2] = r[3]

\* Processes with the same environment, at whatever time they load the wallet,
\* get the same identity or an error ("never a silent guess",
\* storage.rs:135-138).
IdentityStable ==
    \A p, q \in Proc : Env[p] = Env[q] => Cardinality(loads[p] \cup loads[q]) <= 1

\* What a setup without CM_MNEMONIC hands out and what later loads find is one
\* wallet, in spite of crashes between the steps of save_new_wallet
\* (storage.rs:198-226).
OneIdentity ==
    /\ \A r \in reports : Env[r[1]].words = None => r[2] = r[3]
    /\ IdentityStable

\* "recreate it with `cm setup`" (storage.rs:310): a directory without a seed
\* does not keep setup from making a wallet.
NotWedged ==
    (\A p \in Proc : ~InSetup(p)) /\ dirs # {} => \E i \in dirs : seedfile[i].kind \in {"plain", "sealed"}

\* An identity directory belongs to one network (storage.rs:322-334, "this wallet
\* belongs to a different network").
NetworksApart ==
    \A p, q \in Proc : Env[p].net # Env[q].net => loads[p] \cap loads[q] = {}

\* cm_setup "is safe to call anytime, and if a wallet already exists it just
\* reports it" (mcp.rs:177): a card with an endpoint keeps it while the daemon
\* that published it lives.
CardKeepsEndpoint ==
    [][\A p \in Proc : daemon[p] \in Id /\ card[daemon[p]] = "ep" /\ daemon'[p] = daemon[p]
            => card'[daemon[p]] = "ep"]_vars
=============================================================================
