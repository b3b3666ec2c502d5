------------------------------ MODULE Lifecycle ------------------------------
(***************************************************************************)
(* The two processes of the server from start to exit: main reads the      *)
(* configuration, installs the nft tables and forks; the child serves, the *)
(* parent waits for the child's records, for the end of the pipe or for a  *)
(* signal, and removes the tables on its way out.                          *)
(*                                                                         *)
(* sig_flag is a process-local variable that the handler sets and that is  *)
(* tested only after epoll_wait returned: the parent tests it only when    *)
(* epoll_wait was interrupted, the child after every wake-up.  A signal    *)
(* that arrives anywhere else is remembered but interrupts nothing.        *)
(***************************************************************************)
EXTENDS Naturals

CONSTANTS
  use_nft,       \* NFT
  SwapTimes,     \* the values LIM_SWAP_TIME may have
  SigTargets,    \* who SIGINT or SIGTERM is sent to: both (ctrl + c), or one PID
  MaxSig         \* bound: signals sent

Proc == {"parent", "child"}

ASSUME ConstantsType ==
  /\ use_nft \in BOOLEAN
  /\ SwapTimes \subseteq Nat
  /\ SigTargets \subseteq SUBSET Proc
  /\ MaxSig \in Nat

VARIABLES
  lim_swap_time, \* LIM_SWAP_TIME of the configuration; 0 disarms the child's timer
  pc,         \* where each process is; the child is "none" before fork
  code,       \* exit code, 0 until it is set
  sig_flag,   \* SIGINT or SIGTERM was seen, per process
  tables,     \* the nft tables exist
  pipe_data,  \* the pipe holds records
  nft_failed, \* history: an nft command failed, which the code does not test
  n_sig       \* signals sent so far

vars == <<lim_swap_time, pc, code, sig_flag, tables, pipe_data, nft_failed, n_sig>>

ParentPc == {"conf", "nft", "pipe", "fork", "setup", "busy", "asleep", "events",
             "eintr", "reap", "fini", "exit"}
ChildPc == {"none", "setup", "busy", "asleep", "events", "eintr", "exit"}

Init ==
  /\ lim_swap_time \in SwapTimes
  /\ pc = [q \in Proc |-> IF q = "parent" THEN "conf" ELSE "none"]
  /\ code = [q \in Proc |-> 0]
  /\ sig_flag = [q \in Proc |-> FALSE]
  /\ tables = FALSE
  /\ pipe_data = FALSE
  /\ nft_failed = FALSE
  /\ n_sig = 0

Go(q, from, to) ==
  /\ pc[q] = from
  /\ pc' = [pc EXCEPT ![q] = to]

Exit(q, from, c) ==
  /\ Go(q, from, "exit")
  /\ code' = [code EXCEPT ![q] = c]

------------------------------------------------------------------------------
\* main, up to fork.  A failure returns 1 and undoes nothing.

ConfRead ==
  /\ \/ Go("parent", "conf", IF use_nft THEN "nft" ELSE "pipe") /\ UNCHANGED code
     \/ Exit("parent", "conf", 1)
  /\ UNCHANGED <<sig_flag, tables, pipe_data, nft_failed, n_sig, lim_swap_time>>

\* net_nft_init fails when it finds no interface; the result of the nft
\* command that creates both tables is ignored.
NftInit ==
  /\ \/ /\ Go("parent", "nft", "pipe")
        /\ \/ tables' = TRUE /\ UNCHANGED nft_failed
           \/ nft_failed' = TRUE /\ UNCHANGED tables
        /\ UNCHANGED code
     \/ Exit("parent", "nft", 1) /\ UNCHANGED <<tables, nft_failed>>
  /\ UNCHANGED <<sig_flag, pipe_data, n_sig, lim_swap_time>>

PipeOpen ==
  /\ \/ Go("parent", "pipe", "fork") /\ UNCHANGED code
     \/ Exit("parent", "pipe", 1)
  /\ UNCHANGED <<sig_flag, tables, pipe_data, nft_failed, n_sig, lim_swap_time>>

\* The child starts with a copy of sig_flag.
Fork ==
  /\ \/ /\ pc["parent"] = "fork"
        /\ pc' = [q \in Proc |-> "setup"]
        /\ sig_flag' = [sig_flag EXCEPT !["child"] = sig_flag["parent"]]
        /\ UNCHANGED code
     \/ Exit("parent", "fork", 1) /\ UNCHANGED sig_flag
  /\ UNCHANGED <<tables, pipe_data, nft_failed, n_sig, lim_swap_time>>

------------------------------------------------------------------------------
\* fws_parent_run.

Bug_ParentSetup ==
  /\ \/ Go("parent", "setup", "busy") /\ UNCHANGED code
     \/ Exit("parent", "setup", 255)
  /\ UNCHANGED <<sig_flag, tables, pipe_data, nft_failed, n_sig, lim_swap_time>>

\* The contexts, the log file and epoll; a failure leaves for main with -1.
ParentSetup ==
  /\ \/ Go("parent", "setup", "busy") /\ UNCHANGED code
     \/ Exit("parent", "setup", 1)
  /\ UNCHANGED <<sig_flag, tables, pipe_data, nft_failed, n_sig, lim_swap_time>>

\* The pipe has no writer left.
Eof == pc["child"] = "exit"

\* Into epoll_wait, and back with events.
Sleep(q) ==
  /\ Go(q, "busy", "asleep")
  /\ UNCHANGED <<code, sig_flag, tables, pipe_data, nft_failed, n_sig, lim_swap_time>>

ParentWake ==
  /\ pipe_data \/ Eof
  /\ Go("parent", "asleep", "events")
  /\ UNCHANGED <<code, sig_flag, tables, pipe_data, nft_failed, n_sig, lim_swap_time>>

Bug_AfterEvents == "busy"
Bug2_AfterEvents == "reap"

\* The end of the pipe, and nothing else, ends the loop here.
AfterEvents == IF Eof THEN "reap" ELSE "busy"

\* Records are drained and executed; the end of the pipe ends the loop.
\* sig_flag is not tested here.
ParentEvents ==
  /\ Go("parent", "events", AfterEvents)
  /\ pipe_data' = FALSE
  /\ UNCHANGED <<code, sig_flag, tables, nft_failed, n_sig, lim_swap_time>>

Bug_ParentInterrupted ==
  /\ IF sig_flag["parent"]
     THEN Exit("parent", "eintr", 0)
     ELSE Exit("parent", "eintr", 1)
  /\ UNCHANGED <<sig_flag, tables, pipe_data, nft_failed, n_sig, lim_swap_time>>

\* epoll_wait returned EINTR: a termination signal ends the loop, anything
\* else is an error that skips the clean-up.
ParentInterrupted ==
  /\ IF sig_flag["parent"]
     THEN Go("parent", "eintr", "reap") /\ UNCHANGED code
     ELSE Exit("parent", "eintr", 1)
  /\ UNCHANGED <<sig_flag, tables, pipe_data, nft_failed, n_sig, lim_swap_time>>

\* The read end is closed; waitpid with WNOHANG does not wait, so a child that
\* still runs is left alone.  It fails if the exited child is not there to be
\* waited for.
Reap ==
  /\ \/ IF use_nft
        THEN Go("parent", "reap", "fini") /\ UNCHANGED code
        ELSE Exit("parent", "reap", 0)
     \/ Eof /\ Exit("parent", "reap", 1)
  /\ UNCHANGED <<sig_flag, tables, pipe_data, nft_failed, n_sig, lim_swap_time>>

\* net_nft_fini; the result of the nft command is ignored.
NftFini ==
  /\ \/ /\ Exit("parent", "fini", 0)
        /\ \/ tables' = FALSE /\ UNCHANGED nft_failed
           \/ nft_failed' = TRUE /\ UNCHANGED tables
     \/ Exit("parent", "fini", 1) /\ UNCHANGED <<tables, nft_failed>>
  /\ UNCHANGED <<sig_flag, pipe_data, n_sig, lim_swap_time>>

------------------------------------------------------------------------------
\* fws_child_run.

\* Certificates, sockets, user, timer, epoll.
ChildSetup ==
  /\ \/ Go("child", "setup", "busy") /\ UNCHANGED code
     \/ Exit("child", "setup", 1)
  /\ UNCHANGED <<sig_flag, tables, pipe_data, nft_failed, n_sig, lim_swap_time>>

\* The timer fires every lim_swap_time seconds.
ChildTimer ==
  /\ lim_swap_time > 0
  /\ Go("child", "asleep", "events")
  /\ UNCHANGED <<code, sig_flag, tables, pipe_data, nft_failed, n_sig, lim_swap_time>>

\* A client connects or sends something.
Traffic ==
  /\ Go("child", "asleep", "events")
  /\ UNCHANGED <<code, sig_flag, tables, pipe_data, nft_failed, n_sig, lim_swap_time>>

Bug_ChildEvents ==
  /\ Go("child", "events", "busy")
  /\ pipe_data' \in {pipe_data, pc["parent"] # "exit"}
  /\ UNCHANGED <<code, sig_flag, tables, nft_failed, n_sig, lim_swap_time>>

\* sig_flag is tested after every epoll_wait; otherwise the events are handled,
\* which may put records into the pipe.  A failed allocation exits with 1.
ChildEvents ==
  /\ IF sig_flag["child"]
     THEN Exit("child", "events", 0) /\ UNCHANGED pipe_data
     ELSE \/ /\ Go("child", "events", "busy")
             /\ pipe_data' \in {pipe_data, pc["parent"] # "exit"}
             /\ UNCHANGED code
          \/ Exit("child", "events", 1) /\ UNCHANGED pipe_data
  /\ UNCHANGED <<sig_flag, tables, nft_failed, n_sig, lim_swap_time>>

\* epoll_wait failed: the loop ends whatever the reason.
ChildInterrupted ==
  /\ Exit("child", "eintr", 0)
  /\ UNCHANGED <<sig_flag, tables, pipe_data, nft_failed, n_sig, lim_swap_time>>

------------------------------------------------------------------------------
\* The environment.

Alive(q) == pc[q] \notin {"none", "exit"}

\* SIGINT or SIGTERM reaches the processes of t that exist: the handler sets
\* the flag, and epoll_wait returns EINTR if the process sleeps in it.
Signal(t) ==
  /\ n_sig < MaxSig
  /\ "parent" \in t => Alive("parent")
  /\ n_sig' = n_sig + 1
  /\ sig_flag' = [q \in Proc |-> sig_flag[q] \/ (q \in t /\ Alive(q))]
  /\ pc' = [q \in Proc |-> IF q \in t /\ pc[q] = "asleep" THEN "eintr" ELSE pc[q]]
  /\ UNCHANGED <<code, tables, pipe_data, nft_failed, lim_swap_time>>

\* A process stopped in epoll_wait and continued gets EINTR without a flag.
Resumed(q) ==
  /\ Go(q, "asleep", "eintr")
  /\ UNCHANGED <<code, sig_flag, tables, pipe_data, nft_failed, n_sig, lim_swap_time>>

ParentStep ==
  \/ ConfRead \/ NftInit \/ PipeOpen \/ Fork \/ ParentSetup
  \/ Sleep("parent") \/ ParentWake \/ ParentEvents \/ ParentInterrupted
  \/ Reap \/ NftFini

ChildStep ==
  \/ ChildSetup \/ Sleep("child") \/ ChildTimer \/ ChildEvents \/ ChildInterrupted

Next ==
  \/ ParentStep
  \/ ChildStep
  \/ Traffic
  \/ \E t \in SigTargets : Signal(t)
  \/ \E q \in Proc : Resumed(q)

Spec == Init /\ [][Next]_vars

\* Both processes are scheduled and the timer goes off; clients and operators
\* need not do anything.
FairSpec == Spec /\ WF_vars(ParentStep) /\ WF_vars(ChildStep)

------------------------------------------------------------------------------
\* Properties.

TypeOK ==
  /\ pc \in [Proc -> ParentPc \cup ChildPc]
  /\ pc["parent"] \in ParentPc /\ pc["child"] \in ChildPc
  /\ code \in [Proc -> {0, 1}]
  /\ sig_flag \in [Proc -> BOOLEAN]
  /\ tables \in BOOLEAN /\ pipe_data \in BOOLEAN /\ nft_failed \in BOOLEAN
  /\ n_sig \in 0 .. MaxSig
  /\ lim_swap_time \in SwapTimes

Exited(q) == pc[q] = "exit"
Serving == pc["child"] \in {"busy", "asleep", "events"}

\* Exit status 0 of the server means that its nft tables are gone, whichever
\* way the loop ended, unless an nft command failed unnoticed.
ExitZeroClean ==
  Exited("parent") /\ code["parent"] = 0 /\ ~nft_failed => ~tables

\* While the child serves, the tables filter for it, until the child has itself
\* been told to stop: the parent does not take them away from a child that
\* would go on serving.
ServingProtected ==
  use_nft /\ Serving /\ ~tables /\ ~nft_failed => sig_flag["child"]

\* A signal to the process group ends both processes, also when it arrives
\* between a wake-up and the next epoll_wait, where only the timer brings the child
\* back to the test of sig_flag.  With LIM_SWAP_TIME 0 there is no timer, and such a
\* signal stays Missed until a client comes.
Missed == lim_swap_time = 0 /\ pc["child"] = "asleep" /\ sig_flag["child"]
GroupSignalExits ==
  (n_sig > 0) ~> (Missed \/ (~Alive("parent") /\ ~Alive("child")))

\* A child that gave up, for instance because a port is taken, does not leave
\* the parent behind.
ChildExitEndsParent == Exited("child") ~> Exited("parent")

\* "Program exit `ctrl + c` or `kill PID`" (README): after the parent got its
\* signal no process of the server is left running.
KillExits ==
  sig_flag["parent"] ~> (~Alive("parent") /\ ~Alive("child"))
==============================================================================
