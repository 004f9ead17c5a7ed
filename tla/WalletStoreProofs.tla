-------------------------- MODULE WalletStoreProofs -------------------------
(***************************************************************************)
(* Proofs about WalletStore, for any sessions and shells with any          *)
(* environments, any seeds and any number of crashes; and about Paywall,   *)
(* the other daemon of a wallet.                                           *)
(***************************************************************************)
EXTENDS WalletStore, Paywall, FiniteSetTheorems, TLAPS

-----------------------------------------------------------------------------
(* Types.                                                                  *)

\* The steps of a setup that write the files of the seed it has generated.
Saving == {"dir", "seed", "sealing", "marker", "marking"}

TypeInv ==
    /\ TypeOK
    /\ \A p \in Proc : pc[p] \in Saving => made[p] \in Seed

\* Identities are pairs of a seed and a coin type.
LEMMA IdFacts ==
    /\ \A i \in Id : i[1] \in Seed \cup Words
    /\ \A s \in Seed \cup Words : \A net : id_hex(s, net) \in Id /\ id_hex(s, net)[1] = s
BY DEF Id, id_hex, coin_type

\* What a load gives, if anything: the identity of CM_MNEMONIC, or else that of
\* a directory whose seed file was written.
LEMMA LoadFacts ==
    ASSUME TypeOK, NEW p \in Proc
    PROVE  /\ load_wallet(p) \subseteq Id
           /\ Env[p].words # None =>
                load_wallet(p) = {id_hex(Env[p].words, Env[p].net)}
           /\ Env[p].words = None =>
                \A i \in load_wallet(p) : /\ i \in dirs
                                          /\ seedfile[i].kind \in {"plain", "sealed"}
<1>1. Env[p].words \in Words \cup {None}
  BY ConstAssumption
<1>2. CASE Env[p].words # None
  <2>1. load_wallet(p) = {id_hex(Env[p].words, Env[p].net)}
    BY <1>2 DEF load_wallet
  <2>2. id_hex(Env[p].words, Env[p].net) \in Id
    BY <1>1, <1>2, IdFacts
  <2> QED
    BY <1>2, <2>1, <2>2
<1>3. CASE Env[p].words = None
  <2>1. \A S : Sole(S) \subseteq S
    BY DEF Sole
  <2>2. pick_identity(dirs, Env[p].cm_id, marker) \subseteq dirs
    BY <2>1 DEF pick_identity
  <2>3. \A i \in load_wallet(p) : /\ i \in pick_identity(dirs, Env[p].cm_id, marker)
                                  /\ Unlocks(seedfile[i], Env[p])
    BY <1>3 DEF load_wallet
  <2>4. \A i \in load_wallet(p) : i \in dirs /\ seedfile[i].kind \in {"plain", "sealed"}
    BY <2>2, <2>3 DEF Unlocks
  <2> QED
    BY <1>3, <2>4 DEF TypeOK
<1> QED
  BY <1>2, <1>3

LEMMA TypeInit == Init => TypeInv
BY ConstAssumption DEF Init, TypeInv, TypeOK, NoFile, Saving

LEMMA TypeStep ==
    ASSUME TypeInv, [Next]_vars
    PROVE  TypeInv'
<1> USE ConstAssumption
<1>0. TypeOK /\ \A p \in Proc : pc[p] \in Saving => made[p] \in Seed
  BY DEF TypeInv
<1>m. ASSUME NEW p \in Proc, pc[p] \in Saving PROVE MadeId(p) \in Id
  BY <1>0, <1>m, IdFacts DEF MadeId
<1>1. ASSUME NEW p \in Proc, run(p) PROVE TypeInv'
  BY <1>0, <1>1, LoadFacts
     DEF run, TypeInv, TypeOK, open_ledger, Goto, Loaded, Saving, serving
<1>2. ASSUME NEW p \in Proc, tools_call(p) PROVE TypeInv'
  BY <1>0, <1>2, LoadFacts
     DEF tools_call, TypeInv, TypeOK, open_ledger, Loaded, serving
<1>3. ASSUME NEW p \in Proc, cli_command(p) PROVE TypeInv'
  BY <1>0, <1>3, LoadFacts
     DEF cli_command, TypeInv, TypeOK, open_ledger, Loaded, serving
<1>4. ASSUME NEW p \in Proc, setup_report(p) PROVE TypeInv'
  BY <1>0, <1>4, SMTT(60)
     DEF setup_report, TypeInv, TypeOK, generate, Goto, SetupStep, Saving, store, serving
<1>5. ASSUME NEW p \in Proc, create_dir_all(p) PROVE TypeInv'
  BY <1>0, <1>5, <1>m
     DEF create_dir_all, TypeInv, TypeOK, Goto, SetupStep, Saving, serving
<1>6. ASSUME NEW p \in Proc, create_seed(p) PROVE TypeInv'
  BY <1>0, <1>6
     DEF create_seed, TypeInv, TypeOK, Goto, SetupStep, Saving, serving
<1>7. ASSUME NEW p \in Proc, write_seed(p) PROVE TypeInv'
  BY <1>0, <1>7
     DEF write_seed, TypeInv, TypeOK, Goto, SetupStep, Saving, serving
<1>8. ASSUME NEW p \in Proc, create_marker(p) PROVE TypeInv'
  BY <1>0, <1>8
     DEF create_marker, TypeInv, TypeOK, Goto, SetupStep, Saving, serving
<1>9. ASSUME NEW p \in Proc, write_marker(p) PROVE TypeInv'
  BY <1>0, <1>9, <1>m
     DEF write_marker, TypeInv, TypeOK, Goto, SetupStep, Saving, serving
<1>10. ASSUME NEW p \in Proc, report(p) PROVE TypeInv'
  BY <1>0, <1>10, LoadFacts, IdFacts
     DEF report, TypeInv, TypeOK, publish, Loaded, Goto, Home, Saving, store, serving
<1>11. ASSUME NEW p \in Proc, call_serve(p) PROVE TypeInv'
  BY <1>0, <1>11
     DEF call_serve, TypeInv, TypeOK, Goto, Saving, store
<1>12. ASSUME NEW p \in Proc, preflight(p) PROVE TypeInv'
  <2>1. /\ SERVING' \in [Session -> BOOLEAN]
        /\ daemon' \in [Proc -> {None, Spawned} \cup Id]
    <3>1. CASE load_wallet(p) = {}
      BY <1>0, <1>12, <3>1, ZenonT(40) DEF preflight, TypeOK
    <3>2. CASE load_wallet(p) # {}
      BY <1>0, <1>12, <3>2 DEF preflight, TypeOK
    <3> QED
      BY <3>1, <3>2
  <2>2. loads' \in [Proc -> SUBSET Id]
    BY <1>0, <1>12, LoadFacts DEF preflight, Loaded, TypeOK
  <2> QED
    BY <1>0, <1>12, <2>1, <2>2 DEF preflight, TypeInv, TypeOK, Goto, Saving, store
<1>13. ASSUME NEW p \in Proc, cli_serve(p) PROVE TypeInv'
  BY <1>0, <1>13
     DEF cli_serve, TypeInv, TypeOK, store
<1>14. ASSUME NEW p \in Proc, lock_dir(p) PROVE TypeInv'
  BY <1>0, <1>14, LoadFacts
     DEF lock_dir, TypeInv, TypeOK, open_ledger, Loaded
<1>15. ASSUME NEW p \in Proc, republish(p) PROVE TypeInv'
  BY <1>0, <1>15
     DEF republish, TypeInv, TypeOK, publish, store, serving
<1>16. ASSUME NEW p \in Proc, cli_publish(p) PROVE TypeInv'
  BY <1>0, <1>16, LoadFacts
     DEF cli_publish, TypeInv, TypeOK, publish, Loaded, store, serving
<1>17. ASSUME NEW p \in Proc, daemon_exits(p) PROVE TypeInv'
  BY <1>0, <1>17
     DEF daemon_exits, TypeInv, TypeOK, Unlocked, store
<1>18. ASSUME NEW p \in Proc, call_paywall(p) PROVE TypeInv'
  BY <1>0, <1>18, LoadFacts
     DEF call_paywall, TypeInv, TypeOK, Loaded, store
<1>19. ASSUME NEW p \in Proc, paywall_exits(p) PROVE TypeInv'
  BY <1>0, <1>19
     DEF paywall_exits, TypeInv, TypeOK, store
<1>20. ASSUME NEW p \in Proc, stdin_closed(p) PROVE TypeInv'
  BY <1>0, <1>20
     DEF stdin_closed, TypeInv, TypeOK, Ended, Unlocked, Goto, Saving, store
<1>21. ASSUME NEW p \in Proc, Crash(p) PROVE TypeInv'
  <2>1. crashes' \in 0..MaxCrashes
    BY <1>0, <1>21 DEF Crash, TypeOK
  <2>2. Ended(p)
    BY <1>21 DEF Crash
  <2> QED
    BY <1>0, <2>1, <2>2 DEF TypeInv, TypeOK, Ended, Unlocked, Goto, Saving, store
<1>22. CASE UNCHANGED vars
  BY <1>0, <1>22 DEF vars, TypeInv, TypeOK
<1> QED
  BY <1>1, <1>2, <1>3, <1>4, <1>5, <1>6, <1>7, <1>8, <1>9, <1>10, <1>11, <1>12,
     <1>13, <1>14, <1>15, <1>16, <1>17, <1>18, <1>19, <1>20, <1>21, <1>22
     DEF Next, SetupNext, ServeNext

LEMMA TypeAlways == Spec => []TypeInv
BY TypeInit, TypeStep, PTL DEF Spec

\* Every state of the store, the processes, the locks and the cards is well
\* formed; what a load gives is always an identity (storage::load_wallet).
THEOREM WalletStoreTypeCorrect == Spec => []TypeOK
<1>1. TypeInv => TypeOK
  BY DEF TypeInv
<1> QED
  BY <1>1, TypeAlways, PTL

-----------------------------------------------------------------------------
(* Daemons.                                                                *)

\* A directory's lock is held just by the daemon that works on it, and a
\* cm_serve call under way has no thread yet.
LockInv ==
    /\ \A p \in Proc, i \in Id : lock[i] = p <=> daemon[p] = i
    /\ \A p \in Proc : pc[p] = "serve_call" => p \in Session /\ daemon[p] = None
    /\ \A p \in Session : SERVING[p] <=> pc[p] = "serve_call" \/ daemon[p] # None
    /\ \A p \in Session : PAYWALL[p] <=> listener = p

LEMMA LockInit == Init => LockInv
BY ConstAssumption DEF Init, LockInv, Proc

LEMMA EndedLock ==
    ASSUME TypeOK, LockInv, NEW p \in Proc, Ended(p)
    PROVE  LockInv'
<1>1. \A q \in Proc : daemon'[q] = IF q = p THEN None ELSE daemon[q]
  BY DEF TypeOK, Ended
<1>2. \A i \in Id : lock'[i] = IF lock[i] = p THEN None ELSE lock[i]
  BY DEF TypeOK, Ended, Unlocked
<1>3. \A q \in Proc, i \in Id : lock'[i] = q <=> daemon'[q] = i
  BY <1>1, <1>2, ConstAssumption DEF LockInv
<1>4. \A q \in Proc : pc'[q] = IF q = p THEN "off" ELSE pc[q]
  BY DEF TypeOK, Ended, Goto
<1>5. \A q \in Proc : pc'[q] = "serve_call" => q \in Session /\ daemon'[q] = None
  BY <1>1, <1>4 DEF LockInv
<1>6. \A q \in Session : SERVING'[q] <=> pc'[q] = "serve_call" \/ daemon'[q] # None
  BY <1>1, <1>4 DEF LockInv, TypeOK, Ended, Proc
<1>7. \A q \in Session : PAYWALL'[q] <=> listener' = q
  BY ConstAssumption DEF LockInv, Ended, Proc
<1> QED
  BY <1>3, <1>5, <1>6, <1>7 DEF LockInv

LEMMA LockStep ==
    ASSUME TypeInv, LockInv, [Next]_vars
    PROVE  LockInv'
<1> USE ConstAssumption
<1>0. TypeOK
  BY DEF TypeInv
\* Steps that neither start nor end a daemon, a call or a paywall.
<1>1. ASSUME UNCHANGED serving, \A p \in Proc : pc'[p] = "serve_call" <=> pc[p] = "serve_call"
      PROVE  LockInv'
  BY <1>1 DEF LockInv, serving, Proc
<1>2. ASSUME NEW p \in Proc, run(p) \/ tools_call(p) \/ cli_command(p) \/ SetupNext(p)
                             \/ republish(p) \/ cli_publish(p)
      PROVE  LockInv'
  <2>1. UNCHANGED serving
    BY <1>2 DEF run, tools_call, cli_command, SetupNext, setup_report, create_dir_all,
       create_seed, write_seed, create_marker, write_marker, report, republish, cli_publish
  <2>2. ASSUME NEW step, Goto(p, step), step # "serve_call", pc[p] # "serve_call"
        PROVE  \A q \in Proc : pc'[q] = "serve_call" <=> pc[q] = "serve_call"
    BY <1>0, <2>2 DEF Goto, TypeOK
  <2>3. \/ UNCHANGED pc
        \/ \E step \in {"off", "ready"} \cup SetupStep :
              Goto(p, step) /\ pc[p] \in {"off", "ready"} \cup SetupStep
    BY <1>2 DEF run, tools_call, cli_command, SetupNext, setup_report, create_dir_all,
       create_seed, write_seed, create_marker, write_marker, report, republish, cli_publish,
       Home, SetupStep
  <2>4. \A q \in Proc : pc'[q] = "serve_call" <=> pc[q] = "serve_call"
    BY <2>2, <2>3 DEF SetupStep
  <2> QED
    BY <1>1, <2>1, <2>4
<1>3. ASSUME NEW p \in Proc, call_serve(p) PROVE LockInv'
  BY <1>0, <1>3 DEF call_serve, Goto, LockInv, TypeOK, Proc
<1>4. ASSUME NEW p \in Proc, preflight(p) PROVE LockInv'
  <2>1. p \in Session /\ daemon[p] = None /\ SERVING[p] /\ \A i \in Id : lock[i] # p
    BY <1>4 DEF preflight, LockInv
  <2>2. \A q \in Proc : pc'[q] = IF q = p THEN "ready" ELSE pc[q]
    BY <1>0, <1>4 DEF preflight, Goto, TypeOK
  <2>3. CASE load_wallet(p) = {}
    BY <1>0, <1>4, <2>1, <2>2, <2>3 DEF preflight, LockInv, TypeOK, Proc
  <2>4. CASE load_wallet(p) # {}
    <3>1. \A q \in Proc : daemon'[q] = IF q = p THEN Spawned ELSE daemon[q]
      BY <1>0, <1>4, <2>4 DEF preflight, TypeOK
    <3>2. UNCHANGED <<SERVING, PAYWALL, listener, lock>>
      BY <1>4, <2>4 DEF preflight
    <3> QED
      BY <2>1, <2>2, <3>1, <3>2 DEF LockInv, Proc
  <2> QED
    BY <2>3, <2>4
<1>5. ASSUME NEW p \in Proc, cli_serve(p) PROVE LockInv'
  <2>1. p \notin Session /\ \A i \in Id : lock[i] # p
    BY <1>5 DEF cli_serve, LockInv
  <2> QED
    BY <1>0, <1>5, <2>1 DEF cli_serve, LockInv, TypeOK, Proc
<1>6. ASSUME NEW p \in Proc, lock_dir(p) PROVE LockInv'
  <2>1. PICK i \in load_wallet(p) : /\ lock[i] = None
                                    /\ lock' = [lock EXCEPT ![i] = p]
                                    /\ daemon' = [daemon EXCEPT ![p] = i]
    BY <1>6 DEF lock_dir
  <2>2. i \in Id
    BY <1>0, LoadFacts
  <2>3. \A q \in Proc : daemon'[q] = IF q = p THEN i ELSE daemon[q]
    BY <1>0, <2>1 DEF TypeOK
  <2>4. \A j \in Id : lock'[j] = IF j = i THEN p ELSE lock[j]
    BY <1>0, <2>1 DEF TypeOK
  <2>5. daemon[p] = Spawned /\ UNCHANGED <<pc, SERVING, PAYWALL, listener>>
    BY <1>6 DEF lock_dir
  <2>6. \A q \in Proc, j \in Id : lock'[j] = q <=> daemon'[q] = j
    <3>1. \A q \in Proc, j \in Id : lock[j] = q <=> daemon[q] = j
      BY DEF LockInv
    <3>2. \A j \in Id : lock[j] # p
      BY <2>5, <3>1
    <3>3. \A q \in Proc : daemon[q] # i
      BY <2>1, <2>2, <3>1
    <3> QED
      BY <2>2, <2>3, <2>4, <3>1, <3>2, <3>3
  <2> QED
    BY <2>2, <2>3, <2>5, <2>6 DEF LockInv, Proc
<1>7. ASSUME NEW p \in Proc, daemon_exits(p) PROVE LockInv'
  <2>1. \A q \in Proc : daemon'[q] = IF q = p THEN None ELSE daemon[q]
    BY <1>0, <1>7 DEF daemon_exits, TypeOK
  <2>2. \A i \in Id : lock'[i] = IF lock[i] = p THEN None ELSE lock[i]
    BY <1>7 DEF daemon_exits, Unlocked
  <2>3. \A q \in Proc, i \in Id : lock'[i] = q <=> daemon'[q] = i
    BY <2>1, <2>2 DEF LockInv
  <2>4. \A q \in Session : SERVING'[q] = IF q = p THEN FALSE ELSE SERVING[q]
    BY <1>0, <1>7, ZenonT(40) DEF daemon_exits, TypeOK
  <2>5. pc[p] # "serve_call" /\ UNCHANGED <<pc, PAYWALL, listener>>
    BY <1>7 DEF daemon_exits, LockInv
  <2>6. \A q \in Proc : pc'[q] = "serve_call" => q \in Session /\ daemon'[q] = None
    BY <2>1, <2>5, Zenon DEF LockInv
  <2>7. \A q \in Session : SERVING'[q] <=> pc'[q] = "serve_call" \/ daemon'[q] # None
    <3>1. Session \subseteq Proc
      BY DEF Proc
    <3>2. \A q \in Session : SERVING[q] <=> pc[q] = "serve_call" \/ daemon[q] # None
      BY Zenon DEF LockInv
    <3> QED
      BY <2>1, <2>4, <2>5, <3>1, <3>2, Zenon
  <2>8. \A q \in Session : PAYWALL'[q] <=> listener' = q
    BY <2>5, Zenon DEF LockInv
  <2> QED
    BY <2>3, <2>6, <2>7, <2>8, Zenon DEF LockInv
<1>8. ASSUME NEW p \in Proc, call_paywall(p) PROVE LockInv'
  BY <1>0, <1>8 DEF call_paywall, LockInv, TypeOK, Proc
<1>9. ASSUME NEW p \in Proc, paywall_exits(p) PROVE LockInv'
  BY <1>0, <1>9 DEF paywall_exits, LockInv, TypeOK, Proc
<1>10. ASSUME NEW p \in Proc, stdin_closed(p) \/ Crash(p) PROVE LockInv'
  BY <1>0, <1>10, EndedLock DEF stdin_closed, Crash
<1>11. CASE UNCHANGED vars
  BY <1>1, <1>11 DEF vars, serving
<1> QED
  BY <1>2, <1>3, <1>4, <1>5, <1>6, <1>7, <1>8, <1>9, <1>10, <1>11 DEF Next, ServeNext

\* Two daemons never work on one wallet, and the flags of a session tell what
\* runs (storage::lock_dir, mcp::call_serve, mcp::call_paywall), whatever the
\* environments of the processes and however they die.
THEOREM DaemonsApartHolds == Spec => []DaemonsApart
<1>1. LockInv => DaemonsApart
  BY DEF LockInv, DaemonsApart
<1> QED
  BY <1>1, LockInit, LockStep, TypeAlways, PTL DEF Spec

-----------------------------------------------------------------------------
(* Identities.                                                             *)

\* Setups run one after the other: the case in which the code keeps its promise.
Sequential == ParallelSetups = FALSE

\* The directory is that of a wallet some setup made, not of CM_MNEMONIC.
Generated(i) == i \in dirs /\ i[1] \in Seed

\* There is at most one generated wallet, whatever died on the way to it: it is
\* made while there is none, its seed file is the only one, and a load without
\* CM_MNEMONIC can give nothing else.
IdentityInv ==
    /\ \A p, q \in Proc : InSetup(p) /\ InSetup(q) => p = q
    /\ \A p \in Proc : ~InSetup(p) => made[p] = None
    /\ \A i \in Id : seedfile[i].kind # "none" => Generated(i)
    /\ \A i, j \in Id : Generated(i) /\ Generated(j) => i = j
    /\ \A p \in Proc : pc[p] = "dir" => \A i \in Id : ~Generated(i)
    /\ \A p \in Proc : made[p] # None /\ pc[p] # "dir" => MadeId(p) \in dirs
    /\ \A p \in Proc : \A i \in loads[p] :
          IF Env[p].words = None THEN Generated(i) ELSE i = id_hex(Env[p].words, Env[p].net)
    /\ \A r \in reports : Env[r[1]].words = None => r[2] = r[3]

LEMMA IdentityInit == Init => IdentityInv
BY DEF Init, IdentityInv, InSetup, SetupStep, NoFile, Generated

LEMMA LoadGenerated ==
    ASSUME TypeOK, IdentityInv, NEW p \in Proc, NEW i \in load_wallet(p)
    PROVE  /\ i \in Id
           /\ IF Env[p].words = None THEN Generated(i)
              ELSE i = id_hex(Env[p].words, Env[p].net) /\ i[1] \notin Seed
<1>1. i \in Id
  BY LoadFacts
<1>2. CASE Env[p].words = None
  <2>1. seedfile[i].kind \in {"plain", "sealed"}
    BY <1>2, LoadFacts
  <2> QED
    BY <1>1, <1>2, <2>1 DEF IdentityInv
<1>3. CASE Env[p].words # None
  <2>1. Env[p].words \in Words /\ Env[p].words \notin Seed
    BY <1>3, ConstAssumption
  <2>2. i = id_hex(Env[p].words, Env[p].net)
    BY <1>3, LoadFacts
  <2> QED
    BY <1>1, <1>3, <2>1, <2>2, IdFacts
<1> QED
  BY <1>2, <1>3

\* A load and the directory it may open: the same generated wallets, and what
\* was loaded is the one of the environment.
LEMMA LoadKeeps ==
    ASSUME TypeOK, IdentityInv, NEW p \in Proc,
           dirs' = dirs \/ open_ledger(load_wallet(p)),
           loads' = loads \/ Loaded(p)
    PROVE  /\ \A i : Generated(i)' <=> Generated(i)
           /\ dirs \subseteq dirs'
           /\ \A q \in Proc : \A i \in loads'[q] :
                IF Env[q].words = None THEN Generated(i) ELSE i = id_hex(Env[q].words, Env[q].net)
<1>1. \A i \in load_wallet(p) : Generated(i) \/ i[1] \notin Seed
  BY LoadGenerated
<1>2. \A i : Generated(i)' <=> Generated(i)
  BY <1>1 DEF Generated, open_ledger
<1>3. dirs \subseteq dirs'
  BY DEF open_ledger
<1>4. \A q \in Proc : \A i \in loads[q] :
         IF Env[q].words = None THEN Generated(i) ELSE i = id_hex(Env[q].words, Env[q].net)
  BY DEF IdentityInv
<1>5. \A q \in Proc : \A i \in loads'[q] : i \in loads[q] \/ (q = p /\ i \in load_wallet(p))
  BY DEF Loaded, TypeOK
<1>6. \A i \in load_wallet(p) :
         IF Env[p].words = None THEN Generated(i) ELSE i = id_hex(Env[p].words, Env[p].net)
  BY LoadGenerated
<1> QED
  BY <1>2, <1>3, <1>4, <1>5, <1>6

LEMMA IdentityStep ==
    ASSUME Sequential, TypeInv, TypeInv', IdentityInv, [Next]_vars
    PROVE  IdentityInv'
<1>0. TypeOK /\ TypeOK' /\ \A p \in Proc : pc[p] \in Saving => made[p] \in Seed
  BY DEF TypeInv
\* Whatever is not part of a setup.
<1>1. ASSUME NEW p \in Proc,
             dirs' = dirs \/ open_ledger(load_wallet(p)), loads' = loads \/ Loaded(p),
             UNCHANGED <<seedfile, made, reports>>,
             \A q \in Proc : pc'[q] = pc[q] \/ (pc'[q] \notin SetupStep /\ pc[q] \notin SetupStep)
      PROVE  IdentityInv'
  <2>1. /\ \A i : Generated(i)' <=> Generated(i)
        /\ dirs \subseteq dirs'
        /\ \A q \in Proc : \A i \in loads'[q] :
             IF Env[q].words = None THEN Generated(i) ELSE i = id_hex(Env[q].words, Env[q].net)
    BY <1>0, <1>1, LoadKeeps
  <2>2. \A q \in Proc : InSetup(q)' <=> InSetup(q)
    BY <1>1 DEF InSetup
  <2>3. \A q \in Proc : pc'[q] = "dir" => pc[q] = "dir"
    BY <1>1 DEF SetupStep
  <2>4. \A q \in Proc : made'[q] # None /\ pc'[q] # "dir" => MadeId(q)' \in dirs'
    <3> SUFFICES ASSUME NEW q \in Proc, made[q] # None, pc'[q] # "dir"
                 PROVE  MadeId(q) \in dirs'
      BY <1>1 DEF MadeId
    <3>1. InSetup(q)
      BY DEF IdentityInv
    <3>2. pc[q] # "dir"
      BY <1>1, <3>1 DEF InSetup
    <3> QED
      BY <2>1, <3>2 DEF IdentityInv
  <2> QED
    BY <1>1, <2>1, <2>2, <2>3, <2>4 DEF IdentityInv
<1>2. ASSUME NEW p \in Proc,
             run(p) \/ tools_call(p) \/ cli_command(p) \/ ServeNext(p)
      PROVE  IdentityInv'
  <2>1. /\ dirs' = dirs \/ open_ledger(load_wallet(p))
        /\ loads' = loads \/ Loaded(p)
        /\ UNCHANGED <<seedfile, made, reports>>
    BY <1>2 DEF run, tools_call, cli_command, ServeNext, call_serve, preflight, cli_serve,
       lock_dir, republish, cli_publish, daemon_exits, call_paywall, paywall_exits, store
  <2>2. \/ UNCHANGED pc
        \/ /\ pc[p] \in {"off", "ready", "serve_call"}
           /\ \E step \in {"ready", "serve_call"} : Goto(p, step)
    BY <1>2 DEF run, tools_call, cli_command, ServeNext, call_serve, preflight, cli_serve,
       lock_dir, republish, cli_publish, daemon_exits, call_paywall, paywall_exits
  <2>3. \A q \in Proc : pc'[q] = pc[q] \/ (pc'[q] \notin SetupStep /\ pc[q] \notin SetupStep)
    BY <1>0, <2>2 DEF Goto, TypeOK, SetupStep
  <2> QED
    BY <1>1, <2>1, <2>3
\* The steps of a setup, one after the other.
<1>3. ASSUME NEW p \in Proc, setup_report(p) PROVE IdentityInv'
  <2>1. /\ \A q \in Proc : ~InSetup(q)
        /\ UNCHANGED <<dirs, seedfile, reports, loads>>
    BY <1>3 DEF setup_report, Sequential, store
  <2>2. \A q \in Proc : made[q] = None
    BY <2>1 DEF IdentityInv
  <2>3. \A i : Generated(i)' <=> Generated(i)
    BY <2>1 DEF Generated
  <2>4. CASE dirs # {} /\ Goto(p, "load") /\ UNCHANGED made
    <3>1. \A q \in Proc : pc'[q] = IF q = p THEN "load" ELSE pc[q]
      BY <1>0, <2>4 DEF Goto, TypeOK
    <3> QED
      BY <2>1, <2>2, <2>3, <2>4, <3>1 DEF IdentityInv, InSetup, SetupStep
  <2>5. CASE dirs = {} /\ generate(p) /\ Goto(p, "dir")
    <3>1. \A q \in Proc : pc'[q] = IF q = p THEN "dir" ELSE pc[q]
      BY <1>0, <2>5 DEF Goto, TypeOK
    <3>2. \A q \in Proc : q # p => made'[q] = None
      BY <1>0, <2>2, <2>5 DEF generate, TypeOK
    <3>3. \A i : ~Generated(i)
      BY <2>5 DEF Generated
    <3> QED
      BY <2>1, <2>3, <3>1, <3>2, <3>3 DEF IdentityInv, InSetup, SetupStep
  <2> QED
    BY <1>3, <2>4, <2>5 DEF setup_report
\* While p saves its wallet no other process is in a setup.
<1>4. ASSUME NEW p \in Proc, pc[p] \in Saving,
             NEW step \in SetupStep \ {"dir"}, Goto(p, step)
      PROVE  /\ made[p] \in Seed /\ MadeId(p) \in Id /\ MadeId(p)[1] = made[p]
             /\ \A q \in Proc : q # p => ~InSetup(q) /\ made[q] = None
             /\ \A q \in Proc : pc'[q] = IF q = p THEN step ELSE pc[q]
             /\ \A q \in Proc : InSetup(q)' <=> InSetup(q)
             /\ \A q \in Proc : pc'[q] # "dir"
  <2>1. made[p] \in Seed /\ MadeId(p) \in Id /\ MadeId(p)[1] = made[p]
    BY <1>0, <1>4, IdFacts DEF MadeId
  <2>2. InSetup(p)
    BY <1>4 DEF InSetup, Saving, SetupStep
  <2>3. \A q \in Proc : q # p => ~InSetup(q) /\ made[q] = None
    BY <2>2 DEF IdentityInv
  <2>4. \A q \in Proc : pc'[q] = IF q = p THEN step ELSE pc[q]
    BY <1>0, <1>4 DEF Goto, TypeOK
  <2>5. \A q \in Proc : InSetup(q)' <=> InSetup(q)
    BY <1>4, <2>2, <2>4 DEF InSetup
  <2>6. \A q \in Proc : pc'[q] # "dir"
    BY <1>4, <2>3, <2>4 DEF InSetup, SetupStep
  <2> QED
    BY <2>1, <2>3, <2>4, <2>5, <2>6
<1>5. ASSUME NEW p \in Proc, create_dir_all(p) PROVE IdentityInv'
  <2>1. /\ pc[p] = "dir" /\ pc[p] \in Saving
        /\ Goto(p, "seed")
        /\ dirs' = dirs \cup {MadeId(p)}
        /\ UNCHANGED <<seedfile, made, reports, loads>>
    BY <1>5 DEF create_dir_all, Saving
  <2>2. /\ made[p] \in Seed /\ MadeId(p) \in Id /\ MadeId(p)[1] = made[p]
        /\ \A q \in Proc : q # p => ~InSetup(q) /\ made[q] = None
        /\ \A q \in Proc : InSetup(q)' <=> InSetup(q)
        /\ \A q \in Proc : pc'[q] # "dir"
    BY <1>4, <2>1 DEF SetupStep
  <2>3. \A i \in Id : ~Generated(i)
    BY <2>1 DEF IdentityInv
  <2>4. \A i \in Id : Generated(i)' <=> i = MadeId(p)
    BY <2>1, <2>2, <2>3 DEF Generated
  <2>5. \A i \in Id : seedfile[i].kind = "none"
    BY <2>3 DEF IdentityInv
  <2>6. \A q \in Proc : made'[q] # None => MadeId(q)' \in dirs'
    BY <2>1, <2>2 DEF MadeId
  <2>7. \A q \in Proc : \A i \in loads'[q] :
           IF Env[q].words = None THEN Generated(i)' ELSE i = id_hex(Env[q].words, Env[q].net)
    BY <2>1 DEF IdentityInv, Generated
  <2> QED
    BY <2>1, <2>2, <2>4, <2>5, <2>6, <2>7 DEF IdentityInv
<1>6. ASSUME NEW p \in Proc, create_seed(p) \/ write_seed(p) PROVE IdentityInv'
  <2>1. PICK step \in SetupStep \ {"dir"} : Goto(p, step)
    BY <1>6 DEF create_seed, write_seed, SetupStep
  <2>2. /\ pc[p] \in Saving /\ pc[p] # "dir"
        /\ \A i \in Id : i # MadeId(p) => seedfile'[i] = seedfile[i]
        /\ UNCHANGED <<dirs, made, reports, loads>>
    BY <1>0, <1>6 DEF create_seed, write_seed, Saving, TypeOK
  <2>3. /\ made[p] \in Seed /\ MadeId(p) \in Id /\ MadeId(p)[1] = made[p]
        /\ \A q \in Proc : q # p => ~InSetup(q) /\ made[q] = None
        /\ \A q \in Proc : InSetup(q)' <=> InSetup(q)
        /\ \A q \in Proc : pc'[q] # "dir"
    BY <1>4, <2>1, <2>2
  <2>4. Generated(MadeId(p)) /\ made[p] # None
    BY <2>2, <2>3, ConstAssumption DEF IdentityInv, Generated
  <2>5. \A i : Generated(i)' <=> Generated(i)
    BY <2>2 DEF Generated
  <2>6. \A q \in Proc : made'[q] # None => MadeId(q)' \in dirs'
    BY <2>2, <2>3, <2>4 DEF MadeId, Generated
  <2> QED
    BY <2>2, <2>3, <2>4, <2>5, <2>6 DEF IdentityInv
<1>7. ASSUME NEW p \in Proc, create_marker(p) \/ write_marker(p) PROVE IdentityInv'
  <2>1. PICK step \in SetupStep \ {"dir"} : Goto(p, step)
    BY <1>7 DEF create_marker, write_marker, SetupStep
  <2>2. /\ pc[p] \in Saving /\ pc[p] # "dir"
        /\ UNCHANGED <<dirs, seedfile, made, reports, loads>>
    BY <1>7 DEF create_marker, write_marker, Saving
  <2>3. /\ \A q \in Proc : q # p => made[q] = None
        /\ \A q \in Proc : InSetup(q)' <=> InSetup(q)
        /\ \A q \in Proc : pc'[q] # "dir"
    BY <1>4, <2>1, <2>2
  <2>4. \A i : Generated(i)' <=> Generated(i)
    BY <2>2 DEF Generated
  <2>5. \A q \in Proc : made'[q] # None => MadeId(q)' \in dirs'
    BY <2>2, <2>3 DEF MadeId, IdentityInv
  <2> QED
    BY <2>2, <2>3, <2>4, <2>5 DEF IdentityInv
<1>8. ASSUME NEW p \in Proc, report(p) PROVE IdentityInv'
  <2>1. /\ pc[p] = "load" /\ Loaded(p) /\ Goto(p, Home(p))
        /\ made' = [made EXCEPT ![p] = None]
        /\ UNCHANGED <<dirs, seedfile>>
    BY <1>8 DEF report, store
  <2>2. InSetup(p)
    BY <2>1 DEF InSetup, SetupStep
  <2>3. \A q \in Proc : q # p => ~InSetup(q) /\ made[q] = None
    BY <2>2 DEF IdentityInv
  <2>4. \A q \in Proc : pc'[q] = IF q = p THEN Home(p) ELSE pc[q]
    BY <1>0, <2>1 DEF Goto, TypeOK
  <2>5. \A q \in Proc : ~InSetup(q)' /\ made'[q] = None
    BY <1>0, <2>1, <2>3, <2>4 DEF InSetup, SetupStep, Home, TypeOK
  <2>6. /\ \A i : Generated(i)' <=> Generated(i)
        /\ \A q \in Proc : \A i \in loads'[q] :
             IF Env[q].words = None THEN Generated(i) ELSE i = id_hex(Env[q].words, Env[q].net)
    BY <1>0, <2>1, LoadKeeps
  <2>7. \A r \in reports' : Env[r[1]].words = None => r[2] = r[3]
    <3>1. CASE made[p] = None
      BY <1>8, <3>1 DEF report, IdentityInv
    <3>2. CASE made[p] # None
      <4>1. made[p] \in Seed /\ MadeId(p) \in Id /\ MadeId(p)[1] = made[p]
        BY <1>0, <3>2, IdFacts DEF MadeId, TypeOK
      <4>2. Generated(MadeId(p))
        BY <2>1, <3>2, <4>1 DEF IdentityInv, Generated
      <4>3. ASSUME NEW i \in load_wallet(p), Env[p].words = None PROVE i[1] = made[p]
        <5>1. i \in Id /\ Generated(i)
          BY <1>0, <4>3, LoadGenerated
        <5>2. i = MadeId(p)
          BY <4>1, <4>2, <5>1 DEF IdentityInv
        <5> QED
          BY <4>1, <5>2
      <4>4. reports' = reports \cup {<<p, made[p], i[1]>> : i \in load_wallet(p)}
        BY <1>8, <3>2 DEF report
      <4>5. \A r \in {<<p, made[p], i[1]>> : i \in load_wallet(p)} :
                Env[r[1]].words = None => r[2] = r[3]
        BY <4>3
      <4> QED
        BY <4>4, <4>5 DEF IdentityInv
    <3> QED
      BY <3>1, <3>2
  <2>8. \A q \in Proc : pc'[q] # "dir"
    BY <2>5 DEF InSetup, SetupStep
  <2> QED
    BY <2>1, <2>5, <2>6, <2>7, <2>8 DEF IdentityInv
\* A process ends, in the middle of a setup perhaps.
<1>9. ASSUME NEW p \in Proc, stdin_closed(p) \/ Crash(p) PROVE IdentityInv'
  <2>1. Ended(p)
    BY <1>9 DEF stdin_closed, Crash
  <2>2. /\ \A q \in Proc : pc'[q] = IF q = p THEN "off" ELSE pc[q]
        /\ \A q \in Proc : made'[q] = IF q = p THEN None ELSE made[q]
        /\ UNCHANGED <<dirs, seedfile, reports, loads>>
    BY <1>0, <2>1 DEF Ended, Goto, TypeOK, store
  <2>3. \A i : Generated(i)' <=> Generated(i)
    BY <2>2 DEF Generated
  <2>4. \A q \in Proc : InSetup(q)' <=> q # p /\ InSetup(q)
    BY <2>2 DEF InSetup, SetupStep
  <2>5. \A q \in Proc : made'[q] # None /\ pc'[q] # "dir" => MadeId(q)' \in dirs'
    BY <2>2 DEF MadeId, IdentityInv
  <2> QED
    BY <2>2, <2>3, <2>4, <2>5 DEF IdentityInv
<1>10. CASE UNCHANGED vars
  BY <1>10 DEF vars, IdentityInv, InSetup, Generated, MadeId
<1> QED
  BY <1>2, <1>3, <1>5, <1>6, <1>7, <1>8, <1>9, <1>10 DEF Next, SetupNext

\* Where setups do not overlap, what a setup hands out and what any process
\* with the same environment ever loads is one wallet (storage::save_new_wallet,
\* storage::pick_identity), in spite of crashes between any two file accesses.
THEOREM OneIdentityHolds ==
    ASSUME Sequential
    PROVE  Spec => []OneIdentity
<1>1. TypeInv /\ IdentityInv => OneIdentity
  <2> SUFFICES ASSUME TypeInv, IdentityInv PROVE OneIdentity
    OBVIOUS
  <2>1. ASSUME NEW p \in Proc, NEW q \in Proc, Env[p] = Env[q]
        PROVE  Cardinality(loads[p] \cup loads[q]) <= 1
    <3> DEFINE L == loads[p] \cup loads[q]
    <3>0. L \subseteq Id
      BY DEF TypeInv, TypeOK
    <3>1. \A i, j \in L : i = j
      BY <2>1, <3>0 DEF IdentityInv
    <3>2. CASE L = {}
      BY <3>2, FS_EmptySet
    <3>3. CASE L # {}
      <4>1. PICK i \in L : TRUE
        BY <3>3
      <4>2. L = {i}
        BY <3>1, <4>1
      <4> QED
        BY <4>2, FS_Singleton
    <3> QED
      BY <3>2, <3>3
  <2> QED
    BY <2>1 DEF OneIdentity, IdentityStable, IdentityInv
<1>2. Spec => []IdentityInv
  BY IdentityInit, IdentityStep, TypeAlways, PTL DEF Spec
<1> QED
  BY <1>1, <1>2, TypeAlways, PTL

-----------------------------------------------------------------------------
(* Paywall, for any number of buyers, any prices, retries, faults and      *)
(* restarts.                                                               *)


\* What a fetch has done by the time it is somewhere: nothing is paid before
\* the terms are accepted, accepted terms are within max_sats and stay what
\* they were, and a paid GET is made only while retries are left.
FetchInv ==
    \A b \in Buyer :
        /\ buyer[b] \in {"idle", "first", "terms"} => paid[b] = 0 /\ tries[b] = 0
        /\ buyer[b] = "terms" => resp[b].sats \in Price /\ resp[b].sats <= max_sats[b]
        /\ buyer[b] = "paid" => tries[b] < RETRIES

\* A text that was sold is in the set of redeemed texts, and the text that is
\* being looked up is not.
RedeemInv ==
    /\ \A c \in Claim : sold[c] > 0 => c \in used
    /\ handler = "lookup" => conn.payment \in Claim \ used

PaywallInv == PaywallTypeOK /\ FetchInv /\ RedeemInv /\ OneBuyPerClaim /\ SoldForThePrice

-----------------------------------------------------------------------------
LEMMA PriceNat == \A n \in Price : n \in Nat /\ n > 0
BY PaywallAssumption

LEMMA FaultType ==
    ASSUME PaywallTypeOK, Fault
    PROVE  faults' \in 0..MaxFaults
BY PaywallAssumption DEF PaywallTypeOK, Fault

\* A request is never the absent one.
LEMMA RequestFacts ==
    \A r \in Request : r # NoConn /\ r.payment \in Claim \cup {Nobody}
BY PaywallAssumption DEF Request, NoConn

\* A 402 has a price.
LEMMA ResponseFacts ==
    ASSUME NEW r \in Response, r.status = "402"
    PROVE  r.sats \in Price
BY DEF Response, NoResp, Body, Broken

LEMMA PaywallInvInit == PaywallInit => PaywallInv
<1> SUFFICES ASSUME PaywallInit PROVE PaywallInv
  OBVIOUS
<1>1. PaywallTypeOK
  <2>1. \A b \in Buyer : max_sats[b] \in Price /\ max_sats[b] \in Nat
    BY PriceNat DEF PaywallInit
  <2> QED
    BY PaywallAssumption, <2>1 DEF PaywallInit, PaywallTypeOK, Response
<1> QED
  BY <1>1, PaywallAssumption DEF PaywallInit, PaywallInv, FetchInv, RedeemInv, OneBuyPerClaim, SoldForThePrice

\* http_get of a buyer keeps the types.
LEMMA GetType ==
    ASSUME PaywallTypeOK, NEW b \in Buyer, NEW payment \in Claim \cup {Nobody}, http_get(b, payment)
    PROVE  /\ gets' \in [Buyer -> Nat]
           /\ resp' \in [Buyer -> Response]
           /\ backlog' \in Seq(Request)
           /\ \A c \in Buyer : c # b => resp'[c] = resp[c]
<1>1. gets[b] \in Nat /\ backlog \in Seq(Request)
  BY DEF PaywallTypeOK
<1>2. [from |-> b, payment |-> payment, get |-> gets[b] + 1] \in Request
  BY <1>1 DEF Request
<1>3. Append(backlog, [from |-> b, payment |-> payment, get |-> gets[b] + 1]) \in Seq(Request)
  BY <1>1, <1>2
<1>4. NoResp \in Response /\ Broken \in Response
  BY DEF Response
<1>5. gets' \in [Buyer -> Nat]
  BY <1>1 DEF http_get, PaywallTypeOK
<1>6. CASE handler = "down"
  BY <1>1, <1>4, <1>5, <1>6, ZenonT(40) DEF http_get, PaywallTypeOK
<1>7. CASE handler # "down"
  <2>1. resp' = [resp EXCEPT ![b] = NoResp]
    BY <1>7 DEF http_get
  <2>2. backlog' \in Seq(Request)
    BY <1>3, <1>7 DEF http_get
  <2> QED
    BY <1>4, <1>5, <2>1, <2>2 DEF PaywallTypeOK
<1> QED
  BY <1>6, <1>7

LEMMA PaywallInvStep ==
    ASSUME PaywallInv, [PaywallNext]_paywall_vars
    PROVE  PaywallInv'
<1> USE PaywallAssumption
<1>0. PaywallTypeOK /\ FetchInv /\ RedeemInv /\ OneBuyPerClaim /\ SoldForThePrice
  BY DEF PaywallInv
<1>t. /\ \A b \in Buyer : /\ paid[b] \in Nat /\ max_sats[b] \in Nat
                          /\ resp[b] \in Response /\ tries[b] \in 0..RETRIES
      /\ \A c \in Claim : sold[c] \in Nat /\ c.txid \in Buyer
      /\ price \in Nat
  <2>1. /\ \A b \in Buyer : /\ paid[b] \in Price \cup {0} /\ max_sats[b] \in Price
                            /\ resp[b] \in Response /\ tries[b] \in 0..RETRIES
        /\ \A c \in Claim : sold[c] \in Nat /\ c.txid \in Buyer
        /\ price \in Price
    BY <1>0 DEF PaywallTypeOK, Claim
  <2>2. \A n : n \in Price \cup {0} => n \in Nat
    BY PriceNat
  <2> QED
    BY <2>1, <2>2, Zenon
<1>1. ASSUME NEW b \in Buyer, first_get(b) PROVE PaywallInv'
  <2>0. /\ gets' \in [Buyer -> Nat] /\ resp' \in [Buyer -> Response] /\ backlog' \in Seq(Request)
        /\ \A c \in Buyer : c # b => resp'[c] = resp[c]
    BY <1>0, <1>1, GetType DEF first_get
  <2>1. PaywallTypeOK'
    BY <1>0, <1>1, <2>0 DEF first_get, PaywallTypeOK, seller, chain, counts
  <2>2. FetchInv'
    BY <1>0, <1>1, <1>t, <2>0 DEF first_get, FetchInv, PaywallTypeOK, seller, chain, counts
  <2>3. RedeemInv' /\ OneBuyPerClaim' /\ SoldForThePrice'
    BY <1>0, <1>1 DEF first_get, RedeemInv, OneBuyPerClaim, SoldForThePrice, seller, chain
  <2> QED
    BY <2>1, <2>2, <2>3 DEF PaywallInv
<1>2. ASSUME NEW b \in Buyer, read_terms(b) PROVE PaywallInv'
  <2>1. PaywallTypeOK'
    BY <1>0, <1>2 DEF read_terms, PaywallTypeOK, seller, chain, counts
  <2>2. FetchInv'
    <3>1. resp[b].status = "402" => resp[b].sats \in Price
      BY <1>t, ResponseFacts
    <3> QED
      BY <1>0, <1>2, <1>t, <3>1 DEF read_terms, FetchInv, PaywallTypeOK, seller, chain, counts
  <2>3. RedeemInv' /\ OneBuyPerClaim' /\ SoldForThePrice'
    BY <1>0, <1>2 DEF read_terms, RedeemInv, OneBuyPerClaim, SoldForThePrice, seller, chain
  <2> QED
    BY <2>1, <2>2, <2>3 DEF PaywallInv
<1>3. ASSUME NEW b \in Buyer, refuse(b) PROVE PaywallInv'
  <2>1. PaywallTypeOK'
    BY <1>0, <1>3 DEF refuse, PaywallTypeOK, seller, chain, counts
  <2>2. FetchInv'
    BY <1>0, <1>3, <1>t DEF refuse, FetchInv, PaywallTypeOK, seller, chain, counts
  <2>3. RedeemInv' /\ OneBuyPerClaim' /\ SoldForThePrice'
    BY <1>0, <1>3 DEF refuse, RedeemInv, OneBuyPerClaim, SoldForThePrice, seller, chain
  <2> QED
    BY <2>1, <2>2, <2>3 DEF PaywallInv
<1>4. ASSUME NEW b \in Buyer, sp_send(b) PROVE PaywallInv'
  <2>0. resp[b].sats \in Price /\ resp[b].sats <= max_sats[b] /\ paid[b] = 0 /\ b \notin seen
    BY <1>0, <1>4 DEF sp_send, FetchInv, PaywallTypeOK
  <2>1. PaywallTypeOK'
    <3>1. paid' \in [Buyer -> Price \cup {0}] /\ \A c \in Buyer : paid'[c] <= max_sats[c]
      BY <1>0, <1>t, <1>4, <2>0 DEF sp_send, PaywallTypeOK
    <3>2. seen \subseteq {c \in Buyer : paid'[c] > 0}
      BY <1>0, <1>4, <2>0 DEF sp_send, PaywallTypeOK
    <3> QED
      BY <1>0, <1>4, <3>1, <3>2 DEF sp_send, PaywallTypeOK, seller, counts
  <2>2. FetchInv'
    BY <1>0, <1>4, <1>t DEF sp_send, FetchInv, PaywallTypeOK, seller, counts
  <2>3. RedeemInv' /\ OneBuyPerClaim' /\ SoldForThePrice'
    BY <1>0, <1>4, <2>0 DEF sp_send, RedeemInv, OneBuyPerClaim, SoldForThePrice, PaywallTypeOK, seller, counts
  <2> QED
    BY <2>1, <2>2, <2>3 DEF PaywallInv
<1>5. ASSUME NEW b \in Buyer, sp_send_error(b) PROVE PaywallInv'
  <2>0. resp[b].sats \in Price /\ resp[b].sats <= max_sats[b] /\ paid[b] = 0 /\ b \notin seen
    BY <1>0, <1>5 DEF sp_send_error, FetchInv, PaywallTypeOK
  <2>1. PaywallTypeOK'
    <3>1. paid' \in [Buyer -> Price \cup {0}] /\ \A c \in Buyer : paid'[c] <= max_sats[c]
      BY <1>0, <1>t, <1>5, <2>0 DEF sp_send_error, PaywallTypeOK
    <3>2. seen \subseteq {c \in Buyer : paid'[c] > 0}
      BY <1>0, <1>5, <2>0 DEF sp_send_error, PaywallTypeOK
    <3> QED
      BY <1>0, <1>5, <3>1, <3>2, FaultType DEF sp_send_error, PaywallTypeOK, seller, counts
  <2>2. FetchInv'
    BY <1>0, <1>5, <1>t DEF sp_send_error, FetchInv, PaywallTypeOK, seller, counts
  <2>3. RedeemInv' /\ OneBuyPerClaim' /\ SoldForThePrice'
    BY <1>0, <1>5, <2>0 DEF sp_send_error, RedeemInv, OneBuyPerClaim, SoldForThePrice, PaywallTypeOK, seller, counts
  <2> QED
    BY <2>1, <2>2, <2>3 DEF PaywallInv
<1>6. ASSUME NEW b \in Buyer, paid_get(b) PROVE PaywallInv'
  <2>0. /\ gets' \in [Buyer -> Nat] /\ resp' \in [Buyer -> Response] /\ backlog' \in Seq(Request)
        /\ \A c \in Buyer : c # b => resp'[c] = resp[c]
    <3>1. Proof(b) \in Claim \cup {Nobody}
      BY DEF Proof, Claim
    <3> QED
      BY <1>0, <1>6, <3>1, GetType DEF paid_get
  <2>1. PaywallTypeOK'
    <3>1. tries' \in [Buyer -> 0..RETRIES]
      BY <1>0, <1>t, <1>6 DEF paid_get, PaywallTypeOK, FetchInv
    <3> QED
      BY <1>0, <1>6, <2>0, <3>1 DEF paid_get, PaywallTypeOK, seller, chain, counts
  <2>2. FetchInv'
    BY <1>0, <1>6, <1>t, <2>0 DEF paid_get, FetchInv, PaywallTypeOK, seller, chain, counts
  <2>3. RedeemInv' /\ OneBuyPerClaim' /\ SoldForThePrice'
    BY <1>0, <1>6 DEF paid_get, RedeemInv, OneBuyPerClaim, SoldForThePrice, seller, chain
  <2> QED
    BY <2>1, <2>2, <2>3 DEF PaywallInv
<1>7. ASSUME NEW b \in Buyer, read_body(b) PROVE PaywallInv'
  <2>1. PaywallTypeOK'
    BY <1>0, <1>7 DEF read_body, PaywallTypeOK, seller, chain, counts
  <2>2. FetchInv'
    BY <1>0, <1>7, <1>t DEF read_body, FetchInv, PaywallTypeOK, seller, chain, counts
  <2>3. RedeemInv' /\ OneBuyPerClaim' /\ SoldForThePrice'
    BY <1>0, <1>7 DEF read_body, RedeemInv, OneBuyPerClaim, SoldForThePrice, seller, chain
  <2> QED
    BY <2>1, <2>2, <2>3 DEF PaywallInv
<1>8. ASSUME NEW b \in Buyer, get_timeout(b) PROVE PaywallInv'
  <2>1. PaywallTypeOK'
    BY <1>0, <1>8, FaultType DEF get_timeout, PaywallTypeOK, Response, seller, chain, counts
  <2>2. FetchInv'
    BY <1>0, <1>8, <1>t DEF get_timeout, FetchInv, PaywallTypeOK, seller, chain, counts
  <2>3. RedeemInv' /\ OneBuyPerClaim' /\ SoldForThePrice'
    BY <1>0, <1>8 DEF get_timeout, RedeemInv, OneBuyPerClaim, SoldForThePrice, seller, chain
  <2> QED
    BY <2>1, <2>2, <2>3 DEF PaywallInv
<1>9. ASSUME NEW c \in Claim, other_get(c) PROVE PaywallInv'
  <2>0. [from |-> Nobody, payment |-> c, get |-> 1] \in Request
    BY DEF Request
  <2>1. backlog' \in Seq(Request) /\ others' \in 0..MaxOthers
    BY <1>0, <1>9, <2>0 DEF other_get, PaywallTypeOK
  <2>2. PaywallTypeOK'
    BY <1>0, <1>9, <2>1 DEF other_get, PaywallTypeOK, seller, chain
  <2>3. FetchInv'
    BY <1>0, <1>9 DEF other_get, FetchInv, chain
  <2>4. RedeemInv' /\ OneBuyPerClaim' /\ SoldForThePrice'
    BY <1>0, <1>9 DEF other_get, RedeemInv, OneBuyPerClaim, SoldForThePrice, seller, chain
  <2> QED
    BY <2>2, <2>3, <2>4 DEF PaywallInv
<1>10. ASSUME NEW b \in Buyer, Appear(b) PROVE PaywallInv'
  <2>1. PaywallTypeOK'
    BY <1>0, <1>10 DEF Appear, PaywallTypeOK, seller, chain, counts
  <2>2. FetchInv'
    BY <1>0, <1>10, <1>t DEF Appear, FetchInv, PaywallTypeOK, seller, chain, counts
  <2>3. RedeemInv' /\ OneBuyPerClaim' /\ SoldForThePrice'
    BY <1>0, <1>10 DEF Appear, RedeemInv, OneBuyPerClaim, SoldForThePrice, seller, chain
  <2> QED
    BY <2>1, <2>2, <2>3 DEF PaywallInv
<1>11. CASE start
  <2>1. PaywallTypeOK'
    BY <1>0, <1>11 DEF start, PaywallTypeOK, seller, chain, counts
  <2>2. FetchInv'
    BY <1>0, <1>11, <1>t DEF start, FetchInv, PaywallTypeOK, seller, chain, counts
  <2>3. RedeemInv' /\ OneBuyPerClaim' /\ SoldForThePrice'
    BY <1>0, <1>11 DEF start, RedeemInv, OneBuyPerClaim, SoldForThePrice, seller, chain
  <2> QED
    BY <2>1, <2>2, <2>3 DEF PaywallInv
<1>12. CASE SellerCrash
  <2>1. PaywallTypeOK'
    BY <1>0, <1>12 DEF SellerCrash, PaywallTypeOK, Response, seller, chain, counts
  <2>2. FetchInv'
    BY <1>0, <1>12, <1>t DEF SellerCrash, FetchInv, PaywallTypeOK, seller, chain, counts
  <2>3. RedeemInv' /\ OneBuyPerClaim' /\ SoldForThePrice'
    BY <1>0, <1>12 DEF SellerCrash, RedeemInv, OneBuyPerClaim, SoldForThePrice, seller, chain
  <2> QED
    BY <2>1, <2>2, <2>3 DEF PaywallInv
<1>13. CASE accept
  <2>0. Head(backlog) \in Request /\ Tail(backlog) \in Seq(Request)
    BY <1>0, <1>13 DEF accept, PaywallTypeOK
  <2>1. PaywallTypeOK'
    BY <1>0, <1>13, <2>0, RequestFacts DEF accept, PaywallTypeOK, chain, counts
  <2>2. FetchInv'
    BY <1>0, <1>13, <1>t DEF accept, FetchInv, PaywallTypeOK, seller, chain, counts
  <2>3. RedeemInv' /\ OneBuyPerClaim' /\ SoldForThePrice'
    BY <1>0, <1>13 DEF accept, RedeemInv, OneBuyPerClaim, SoldForThePrice, seller, chain
  <2> QED
    BY <2>1, <2>2, <2>3 DEF PaywallInv
<1>14. CASE unpaid
  <2>1. PaywallTypeOK'
    BY <1>0, <1>14 DEF unpaid, PaywallTypeOK, Terms, seller, chain, counts
  <2>2. FetchInv'
    BY <1>0, <1>14, <1>t DEF unpaid, FetchInv, PaywallTypeOK, seller, chain, counts
  <2>3. RedeemInv' /\ OneBuyPerClaim' /\ SoldForThePrice'
    BY <1>0, <1>14 DEF unpaid, RedeemInv, OneBuyPerClaim, SoldForThePrice, seller, chain
  <2> QED
    BY <2>1, <2>2, <2>3 DEF PaywallInv
<1>15. CASE tx_pays_me
  <2>0. conn \in Request
    BY <1>0, <1>15 DEF tx_pays_me, PaywallTypeOK
  <2>1. PaywallTypeOK'
    BY <1>0, <1>15 DEF tx_pays_me, PaywallTypeOK, seller, chain, counts
  <2>2. FetchInv'
    BY <1>0, <1>15 DEF tx_pays_me, FetchInv, seller, chain, counts
  <2>3. RedeemInv' /\ OneBuyPerClaim' /\ SoldForThePrice'
    BY <1>0, <1>15, <2>0, RequestFacts DEF tx_pays_me, RedeemInv, OneBuyPerClaim, SoldForThePrice, seller, chain
  <2> QED
    BY <2>1, <2>2, <2>3 DEF PaywallInv
<1>16. CASE redeem
  <2>0. /\ conn.payment \in Claim \ used /\ sold[conn.payment] = 0
        /\ conn.payment.txid \in seen /\ paid[conn.payment.txid] >= price
    BY <1>0, <1>t, <1>16 DEF redeem, RedeemInv, Pays, Shown
  <2>1. /\ sold' = [sold EXCEPT ![conn.payment] = @ + 1] /\ used' = used \cup {conn.payment}
        /\ taken' \in {taken, taken \cup {conn.payment}} /\ answer' = Body /\ handler' = "respond"
        /\ UNCHANGED <<price, conn, backlog, buyer, max_sats, resp, gets, tries, paid, seen, got,
                       faults, restarts, others>>
    BY <1>16 DEF redeem, deliver, chain, counts
  <2>2. PaywallTypeOK'
    <3>1. used' \subseteq Claim /\ taken' \subseteq Claim /\ sold' \in [Claim -> Nat]
      BY <1>0, <2>0, <2>1 DEF PaywallTypeOK
    <3>2. conn # NoConn
      BY <1>0, <1>16 DEF redeem, PaywallTypeOK
    <3> QED
      BY <1>0, <2>1, <3>1, <3>2 DEF PaywallTypeOK
  <2>3. FetchInv'
    BY <1>0, <2>1 DEF FetchInv
  <2>4. RedeemInv' /\ OneBuyPerClaim' /\ SoldForThePrice'
    BY <1>0, <1>t, <2>0, <2>1 DEF RedeemInv, OneBuyPerClaim, SoldForThePrice, PaywallTypeOK
  <2> QED
    BY <2>2, <2>3, <2>4 DEF PaywallInv
<1>17. CASE not_paid
  <2>1. PaywallTypeOK'
    BY <1>0, <1>17, FaultType DEF not_paid, PaywallTypeOK, Terms, seller, chain, counts
  <2>2. FetchInv'
    BY <1>0, <1>17, <1>t DEF not_paid, FetchInv, PaywallTypeOK, seller, chain, counts
  <2>3. RedeemInv' /\ OneBuyPerClaim' /\ SoldForThePrice'
    BY <1>0, <1>17 DEF not_paid, RedeemInv, OneBuyPerClaim, SoldForThePrice, seller, chain
  <2> QED
    BY <2>1, <2>2, <2>3 DEF PaywallInv
<1>18. CASE write_response
  <2>0. answer \in Response /\ Broken \in Response
    BY <1>0 DEF PaywallTypeOK, Response
  <2>1. PaywallTypeOK'
    BY <1>0, <1>18, <2>0 DEF write_response, Hangup, PaywallTypeOK, seller, chain, counts
  <2>2. FetchInv'
    BY <1>0, <1>18, <1>t DEF write_response, Hangup, Waiting, FetchInv, PaywallTypeOK, seller, chain, counts
  <2>3. RedeemInv' /\ OneBuyPerClaim' /\ SoldForThePrice'
    BY <1>0, <1>18 DEF write_response, Hangup, RedeemInv, OneBuyPerClaim, SoldForThePrice, chain
  <2> QED
    BY <2>1, <2>2, <2>3 DEF PaywallInv
<1>19. CASE request_error
  <2>0. answer \in Response /\ Broken \in Response
    BY <1>0 DEF PaywallTypeOK, Response
  <2>1. PaywallTypeOK'
    BY <1>0, <1>19, <2>0, FaultType DEF request_error, Hangup, PaywallTypeOK, seller, chain, counts
  <2>2. FetchInv'
    BY <1>0, <1>19, <1>t DEF request_error, Hangup, Waiting, FetchInv, PaywallTypeOK, seller, chain, counts
  <2>3. RedeemInv' /\ OneBuyPerClaim' /\ SoldForThePrice'
    BY <1>0, <1>19 DEF request_error, Hangup, RedeemInv, OneBuyPerClaim, SoldForThePrice, chain
  <2> QED
    BY <2>1, <2>2, <2>3 DEF PaywallInv
<1>20. CASE UNCHANGED paywall_vars
  <2>1. PaywallTypeOK'
    BY <1>0, <1>20 DEF paywall_vars, PaywallTypeOK
  <2>2. FetchInv' /\ RedeemInv' /\ OneBuyPerClaim' /\ SoldForThePrice'
    BY <1>0, <1>20 DEF paywall_vars, FetchInv, RedeemInv, OneBuyPerClaim, SoldForThePrice
  <2> QED
    BY <2>1, <2>2 DEF PaywallInv
<1> QED
  BY <1>1, <1>2, <1>3, <1>4, <1>5, <1>6, <1>7, <1>8, <1>9, <1>10, <1>11, <1>12,
     <1>13, <1>14, <1>15, <1>16, <1>17, <1>18, <1>19, <1>20
     DEF PaywallNext, SellerNext, FetchNext

LEMMA PaywallInvAlways == PaywallSpec => []PaywallInv
BY PaywallInvInit, PaywallInvStep, PTL DEF PaywallSpec

\* Every state of the seller, the buyers and the listener's backlog is well
\* formed; no fetch pays more than its max_sats or asks more than RETRIES times
\* (fetch::check_terms, fetch::fetch).
THEOREM PaywallTypeCorrect == PaywallSpec => []PaywallTypeOK
<1>1. PaywallInv => PaywallTypeOK
  BY DEF PaywallInv
<1> QED
  BY <1>1, PaywallInvAlways, PTL

\* One X-Payment text buys once per session of the seller
\* (paywall::verify_payment), whoever presents it, in whatever order and however
\* often.  One txid in two spellings does not: see paywall_two_cases.cfg.
THEOREM OneBuyPerClaimHolds == PaywallSpec => []OneBuyPerClaim
<1>1. PaywallInv => OneBuyPerClaim
  BY DEF PaywallInv
<1> QED
  BY <1>1, PaywallInvAlways, PTL

\* The body is sold for the price in force or more (paywall::verify_payment),
\* whatever the prices of earlier sessions and the quotes under way.
THEOREM SoldForThePriceHolds == PaywallSpec => []SoldForThePrice
<1>1. PaywallInv => SoldForThePrice
  BY DEF PaywallInv
<1> QED
  BY <1>1, PaywallInvAlways, PTL

=============================================================================
