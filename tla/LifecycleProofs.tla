--------------------------- MODULE LifecycleProofs ---------------------------
(***************************************************************************)
(* Proofs about the start and the end of the two processes, for any number *)
(* of signals.                                                             *)
(***************************************************************************)
EXTENDS Lifecycle, TLAPS

\* Signals reach both processes or none (ctrl + c, systemctl stop).
GroupOnly == SigTargets \subseteq {Proc}

\* Before fork there is no child; nft is used only with NFT true.
Order ==
  /\ pc["parent"] \in {"conf", "nft", "pipe", "fork"} => pc["child"] = "none"
  /\ tables \/ pc["parent"] = "nft" => use_nft

\* After net_nft_init main holds the tables up to fork.
Installed ==
  use_nft /\ ~nft_failed /\ pc["parent"] \in {"pipe", "fork"} => tables

\* A child that runs knows of every signal the parent knows of.
Told ==
  sig_flag["parent"] /\ Alive("child") => sig_flag["child"]

\* The parent cleans up only after the child is gone or a signal came.
Leaving ==
  pc["parent"] \in {"reap", "fini"} => Eof \/ sig_flag["parent"]

\* Whoever runs without tables has been told to stop.
Protected ==
  use_nft /\ ~nft_failed /\ Alive("child") /\ ~tables => sig_flag["child"]

\* The inductive invariant.  ServingProtected needs Protected for every point
\* of the child's life and, for the step that deletes the tables, the chain
\* from Leaving (a signal came) over Told (the child has it too).
IInv ==
  /\ TypeOK
  /\ Order
  /\ Installed
  /\ Told
  /\ Leaving
  /\ Protected
  /\ ExitZeroClean

\* The initial state satisfies the invariant.
LEMMA InitInv == Init => IInv
<1> SUFFICES ASSUME Init PROVE IInv
  OBVIOUS
<1>1. /\ pc["parent"] = "conf" /\ pc["child"] = "none"
      /\ tables = FALSE
  BY DEF Init, Proc
<1>2. TypeOK
  <2>1. pc \in [Proc -> ParentPc \cup ChildPc]
    BY DEF Init, Proc, ParentPc, ChildPc
  <2>2. pc["parent"] \in ParentPc /\ pc["child"] \in ChildPc
    BY <1>1 DEF ParentPc, ChildPc
  <2>3. code \in [Proc -> {0, 1}] /\ n_sig \in 0 .. MaxSig
    BY ConstantsType DEF Init
  <2>4. /\ sig_flag \in [Proc -> BOOLEAN]
        /\ tables \in BOOLEAN /\ pipe_data \in BOOLEAN /\ nft_failed \in BOOLEAN
        /\ lim_swap_time \in SwapTimes
    BY DEF Init
  <2> QED
    BY <2>1, <2>2, <2>3, <2>4 DEF TypeOK
<1>3. Order /\ Installed /\ Leaving /\ ExitZeroClean
  BY <1>1 DEF Order, Installed, Leaving, ExitZeroClean, Exited
<1>4. Told /\ Protected
  BY <1>1 DEF Told, Protected, Alive
<1> QED
  BY <1>2, <1>3, <1>4 DEF IInv

\* The steps of main up to fork keep the invariant.
LEMMA MainStep ==
  ASSUME IInv, ConfRead \/ NftInit \/ PipeOpen \/ Fork
  PROVE  IInv'
<1> USE ConstantsType DEF IInv, TypeOK, Order, Installed, Told, Leaving, Protected,
      ExitZeroClean, Exited, Alive, Eof, Proc, ParentPc, ChildPc, Go, Exit
<1>1. CASE ConfRead
  <2>1. CASE use_nft
    BY <1>1, <2>1 DEF ConfRead
  <2>2. CASE ~use_nft
    BY <1>1, <2>2 DEF ConfRead
  <2> QED
    BY <2>1, <2>2
<1>2. CASE NftInit
  <2>1. /\ pc \in [Proc -> ParentPc \cup ChildPc] /\ pc["parent"] = "nft"
        /\ pc' = [pc EXCEPT !["parent"] = "pipe"] \/ pc' = [pc EXCEPT !["parent"] = "exit"]
        /\ pc["child"] = "none"
    BY <1>2 DEF NftInit
  <2>2. pc'["parent"] \in {"pipe", "exit"} /\ pc'["child"] = "none"
    BY <2>1
  <2>3. TypeOK'
    <3>1. pc' \in [Proc -> ParentPc \cup ChildPc] /\ code' \in [Proc -> {0, 1}]
      BY <1>2 DEF NftInit
    <3>2. tables' \in BOOLEAN /\ nft_failed' \in BOOLEAN
      BY <1>2 DEF NftInit
    <3>3. UNCHANGED <<sig_flag, pipe_data, n_sig, lim_swap_time>>
      BY <1>2 DEF NftInit
    <3> QED
      BY <2>2, <3>1, <3>2, <3>3
  <2>4. Order'
    BY <1>2, <2>2 DEF NftInit
  <2>5. Installed'
    BY <1>2, <2>2 DEF NftInit
  <2>6. Told' /\ Leaving' /\ Protected'
    BY <2>2
  <2>7. ExitZeroClean'
    BY <1>2, <2>2 DEF NftInit
  <2> QED
    BY <2>3, <2>4, <2>5, <2>6, <2>7
<1>3. CASE PipeOpen
  BY <1>3 DEF PipeOpen
<1>4. CASE Fork
  BY <1>4 DEF Fork
<1> QED
  BY <1>1, <1>2, <1>3, <1>4

\* The steps of fws_parent_run keep the invariant.
LEMMA ParentLoopStep ==
  ASSUME IInv,
         ParentSetup \/ Sleep("parent") \/ ParentWake \/ ParentEvents
           \/ ParentInterrupted \/ Reap \/ NftFini
  PROVE  IInv'
<1> USE ConstantsType DEF IInv, TypeOK, Order, Installed, Told, Leaving, Protected,
      ExitZeroClean, Exited, Alive, Eof, Proc, ParentPc, ChildPc, Go, Exit
<1>1. CASE ParentSetup
  BY <1>1 DEF ParentSetup
<1>2. CASE Sleep("parent")
  BY <1>2 DEF Sleep
<1>3. CASE ParentWake
  BY <1>3 DEF ParentWake
<1>4. CASE ParentEvents
  <2>1. CASE Eof
    BY <1>4, <2>1 DEF ParentEvents, AfterEvents
  <2>2. CASE ~Eof
    BY <1>4, <2>2 DEF ParentEvents, AfterEvents
  <2> QED
    BY <2>1, <2>2
<1>5. CASE ParentInterrupted
  <2>1. CASE sig_flag["parent"]
    BY <1>5, <2>1 DEF ParentInterrupted
  <2>2. CASE ~sig_flag["parent"]
    BY <1>5, <2>2 DEF ParentInterrupted
  <2> QED
    BY <2>1, <2>2
<1>6. CASE Reap
  <2>1. CASE use_nft
    BY <1>6, <2>1 DEF Reap
  <2>2. CASE ~use_nft
    BY <1>6, <2>2 DEF Reap
  <2> QED
    BY <2>1, <2>2
<1>7. CASE NftFini
  <2>1. /\ pc["parent"] = "fini" /\ pc'["parent"] = "exit"
        /\ pc'["child"] = pc["child"] /\ sig_flag' = sig_flag
    BY <1>7 DEF NftFini
  <2>2. TypeOK'
    <3>1. pc' \in [Proc -> ParentPc \cup ChildPc] /\ code' \in [Proc -> {0, 1}]
      BY <1>7 DEF NftFini
    <3>2. tables' \in BOOLEAN /\ nft_failed' \in BOOLEAN
      BY <1>7 DEF NftFini
    <3>3. pipe_data' = pipe_data /\ n_sig' = n_sig /\ lim_swap_time' = lim_swap_time
      BY <1>7 DEF NftFini
    <3> QED
      BY <2>1, <3>1, <3>2, <3>3
  <2>3. Order'
    BY <1>7, <2>1 DEF NftFini
  <2>4. Installed' /\ Leaving'
    BY <2>1
  <2>5. Told'
    BY <2>1
  <2>6. Protected'
    BY <2>1
  <2>7. ExitZeroClean'
    BY <1>7, <2>1 DEF NftFini
  <2> QED
    BY <2>2, <2>3, <2>4, <2>5, <2>6, <2>7
<1> QED
  BY <1>1, <1>2, <1>3, <1>4, <1>5, <1>6, <1>7

\* The steps of fws_child_run keep the invariant.
LEMMA ChildRunStep ==
  ASSUME IInv, ChildStep \/ Traffic
  PROVE  IInv'
<1> USE ConstantsType DEF IInv, TypeOK, Order, Installed, Told, Leaving, Protected,
      ExitZeroClean, Exited, Alive, Eof, Proc, ParentPc, ChildPc, Go, Exit
<1>1. CASE ChildSetup
  BY <1>1 DEF ChildSetup
<1>2. CASE Sleep("child")
  BY <1>2 DEF Sleep
<1>3. CASE ChildTimer
  BY <1>3 DEF ChildTimer
<1>4. CASE Traffic
  BY <1>4 DEF Traffic
<1>5. CASE ChildEvents
  <2>1. CASE sig_flag["child"]
    BY <1>5, <2>1 DEF ChildEvents
  <2>2. CASE ~sig_flag["child"]
    <3>1. /\ pc["child"] = "events" /\ pc'["child"] \in {"busy", "exit"}
          /\ pc'["parent"] = pc["parent"] /\ code'["parent"] = code["parent"]
          /\ sig_flag' = sig_flag /\ tables' = tables /\ nft_failed' = nft_failed
      BY <1>5, <2>2 DEF ChildEvents
    <3>2. pc' \in [Proc -> ParentPc \cup ChildPc] /\ code' \in [Proc -> {0, 1}]
      BY <1>5, <2>2 DEF ChildEvents
    <3>3. pipe_data' \in BOOLEAN /\ n_sig' = n_sig /\ lim_swap_time' = lim_swap_time
      BY <1>5, <2>2 DEF ChildEvents
    <3>4. TypeOK'
      BY <3>1, <3>2, <3>3
    <3>5. Order' /\ Installed' /\ Leaving' /\ ExitZeroClean'
      BY <3>1
    <3>6. Told' /\ Protected'
      BY <3>1
    <3> QED
      BY <3>4, <3>5, <3>6
  <2> QED
    BY <2>1, <2>2
<1>6. CASE ChildInterrupted
  BY <1>6 DEF ChildInterrupted
<1> QED
  BY <1>1, <1>2, <1>3, <1>4, <1>5, <1>6 DEF ChildStep

\* A signal to both processes, or a stop and continue of one, keeps it.
LEMMA EnvironmentStep ==
  ASSUME GroupOnly, IInv,
         (\E t \in SigTargets : Signal(t)) \/ (\E q \in Proc : Resumed(q))
  PROVE  IInv'
<1> USE ConstantsType DEF IInv, TypeOK, Order, Installed, Told, Leaving, Protected,
      ExitZeroClean, Exited, Alive, Eof, Proc, ParentPc, ChildPc
<1>1. ASSUME Signal(Proc)
      PROVE  IInv'
  BY <1>1 DEF Signal
<1>2. ASSUME NEW q \in Proc, Resumed(q)
      PROVE  IInv'
  <2>1. CASE q = "parent"
    BY <1>2, <2>1 DEF Resumed, Go
  <2>2. CASE q = "child"
    BY <1>2, <2>2 DEF Resumed, Go
  <2> QED
    BY <2>1, <2>2
<1>3. \A t \in SigTargets : t = Proc
  BY DEF GroupOnly
<1> HIDE DEF IInv, Proc
<1> QED
  BY <1>1, <1>2, <1>3

\* Every step keeps the invariant.
LEMMA NextInv ==
  ASSUME GroupOnly, IInv, [Next]_vars
  PROVE  IInv'
<1>1. CASE Next
  BY <1>1, MainStep, ParentLoopStep, ChildRunStep, EnvironmentStep
     DEF Next, ParentStep
<1>2. CASE UNCHANGED vars
  BY <1>2 DEF vars, IInv, TypeOK, Order, Installed, Told, Leaving, Protected,
     ExitZeroClean, Exited, Alive, Eof
<1> QED
  BY <1>1, <1>2

\* No child is left serving without tables that has not been told to stop, for any
\* number of signals as long as each goes to both processes.
THEOREM LifecycleSafe ==
  ASSUME GroupOnly
  PROVE  Spec => []ServingProtected
<1>1. IInv /\ [Next]_vars => IInv'
  BY NextInv
<1>2. IInv => ServingProtected
  BY DEF IInv, Protected, ServingProtected, Serving, Alive
<1> QED
  BY InitInv, <1>1, <1>2, PTL DEF Spec

\* What needs no assumption on who gets the signals.
Base == TypeOK /\ Order /\ ExitZeroClean

\* Every step keeps it, also a signal that only one of the processes gets.
LEMMA NextBase ==
  ASSUME Base, [Next]_vars
  PROVE  Base'
<1> USE ConstantsType DEF Base, TypeOK, Order, ExitZeroClean, Exited, Eof, Proc, ParentPc,
      ChildPc, Go, Exit
<1>1. CASE ConfRead
  <2>1. CASE use_nft
    BY <1>1, <2>1 DEF ConfRead
  <2>2. CASE ~use_nft
    BY <1>1, <2>2 DEF ConfRead
  <2> QED
    BY <2>1, <2>2
<1>2. CASE NftInit
  <2>1. /\ pc'["parent"] \in {"pipe", "exit"} /\ pc'["child"] = "none"
        /\ pc' \in [Proc -> ParentPc \cup ChildPc] /\ code' \in [Proc -> {0, 1}]
        /\ pc'["parent"] = "exit" => code'["parent"] = 1
    BY <1>2 DEF NftInit
  <2>2. TypeOK'
    BY <1>2, <2>1 DEF NftInit
  <2>3. Order'
    BY <1>2, <2>1 DEF NftInit
  <2> QED
    BY <2>1, <2>2, <2>3
<1>3. CASE PipeOpen
  BY <1>3 DEF PipeOpen
<1>4. CASE Fork
  BY <1>4 DEF Fork
<1>5. CASE ParentSetup
  BY <1>5 DEF ParentSetup
<1>6. CASE Sleep("parent") \/ ParentWake
  BY <1>6 DEF Sleep, ParentWake
<1>7. CASE ParentEvents
  BY <1>7 DEF ParentEvents, AfterEvents
<1>8. CASE ParentInterrupted
  BY <1>8 DEF ParentInterrupted
<1>9. CASE Reap
  BY <1>9 DEF Reap
<1>10. CASE NftFini
  <2>1. /\ pc'["parent"] = "exit" /\ pc'["child"] = pc["child"]
        /\ pc' \in [Proc -> ParentPc \cup ChildPc] /\ code' \in [Proc -> {0, 1}]
        /\ code'["parent"] = 0 /\ ~nft_failed' => ~tables'
    BY <1>10 DEF NftFini
  <2>2. /\ tables' \in BOOLEAN /\ nft_failed' \in BOOLEAN /\ (tables' => tables)
        /\ UNCHANGED <<sig_flag, pipe_data, n_sig, lim_swap_time>>
    <3>1. /\ \/ tables' = FALSE /\ nft_failed' = nft_failed
             \/ tables' = tables /\ nft_failed' = TRUE
             \/ tables' = tables /\ nft_failed' = nft_failed
          /\ UNCHANGED <<sig_flag, pipe_data, n_sig, lim_swap_time>>
      BY <1>10, Zenon DEF NftFini
    <3>2. tables \in BOOLEAN /\ nft_failed \in BOOLEAN
      OBVIOUS
    <3>3. tables' \in BOOLEAN
      BY ONLY <3>1, <3>2, Zenon
    <3>4. nft_failed' \in BOOLEAN
      BY ONLY <3>1, <3>2, Zenon
    <3>5. tables' => tables
      BY ONLY <3>1, Zenon
    <3> QED
      BY <3>1, <3>3, <3>4, <3>5
  <2> QED
    BY <2>1, <2>2
<1>11. CASE ChildSetup \/ Sleep("child") \/ ChildTimer \/ Traffic \/ ChildInterrupted
  BY <1>11 DEF ChildSetup, Sleep, ChildTimer, Traffic, ChildInterrupted
<1>12. CASE ChildEvents
  <2>1. /\ pc["child"] = "events" /\ pc'["child"] \in {"busy", "exit"}
        /\ pc'["parent"] = pc["parent"] /\ code'["parent"] = code["parent"]
        /\ pc' \in [Proc -> ParentPc \cup ChildPc] /\ code' \in [Proc -> {0, 1}]
    BY <1>12 DEF ChildEvents
  <2>2. /\ UNCHANGED <<sig_flag, tables, nft_failed, n_sig, lim_swap_time>>
        /\ pipe_data' \in BOOLEAN
    BY <1>12 DEF ChildEvents
  <2> QED
    BY <2>1, <2>2
<1>13. ASSUME NEW t \in SigTargets, Signal(t)
       PROVE  Base'
  <2>1. /\ pc'["parent"] \in {pc["parent"], "eintr"} /\ pc'["child"] \in {pc["child"], "eintr"}
        /\ pc["child"] = "none" => pc'["child"] = "none"
        /\ pc'["parent"] = "eintr" => pc["parent"] \in {"asleep", "eintr"}
        /\ pc' \in [Proc -> ParentPc \cup ChildPc]
    BY <1>13 DEF Signal
  <2>2. sig_flag' \in [Proc -> BOOLEAN] /\ n_sig' \in 0 .. MaxSig
    BY <1>13 DEF Signal
  <2>3. UNCHANGED <<code, tables, pipe_data, nft_failed, lim_swap_time>>
    BY <1>13 DEF Signal
  <2> QED
    BY <2>1, <2>2, <2>3
<1>14. ASSUME NEW q \in Proc, Resumed(q)
       PROVE  Base'
  <2>1. CASE q = "parent"
    BY <1>14, <2>1 DEF Resumed
  <2>2. CASE q = "child"
    BY <1>14, <2>2 DEF Resumed
  <2> QED
    BY <2>1, <2>2
<1>15. CASE UNCHANGED vars
  BY <1>15 DEF vars
<1> QED
  BY <1>1, <1>2, <1>3, <1>4, <1>5, <1>6, <1>7, <1>8, <1>9, <1>10, <1>11, <1>12, <1>13, <1>14,
     <1>15 DEF Next, ParentStep, ChildStep

\* The base holds in every reachable state.
LEMMA BaseHolds == Spec => []Base
<1>1. Init => Base
  BY InitInv DEF IInv, Base
<1>2. Base /\ [Next]_vars => Base'
  BY NextBase
<1> QED
  BY <1>1, <1>2, PTL DEF Spec

\* Exit status 0 of main means that the tables are gone, whichever of the two
\* processes the signals reach, and whenever they arrive.
THEOREM ExitZeroCleanHolds == Spec => []ExitZeroClean
<1>1. Base => ExitZeroClean
  BY DEF Base
<1> QED
  BY BaseHolds, <1>1, PTL

\* Every process is in a phase the code has, and both exit with 0 or 1, whichever
\* of them the signals reach.
THEOREM TypeOKHolds == Spec => []TypeOK
<1>1. Base => TypeOK
  BY DEF Base
<1> QED
  BY BaseHolds, <1>1, PTL
==============================================================================
