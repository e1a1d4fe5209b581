------------------------- MODULE AsyncVerifyProofs -------------------------
(***************************************************************************)
(* The io_us of a job stay exact (IoUsExact) for any number of io_us,      *)
(* blocks and verify threads.                                              *)
(*                                                                         *)
(* What makes it inductive is which flags go with which list (Shape), that *)
(* an io_u nobody waits for is not in flight until the job is cancelled    *)
(* (Quiet), what the job knows of the io_us in its hands (JobPlace), and   *)
(* that the count of verify threads is one of those that have not left.    *)
(***************************************************************************)
EXTENDS AsyncVerify, FiniteSetTheorems, TLAPS

\* The time a leaf may take.
USE SMTT(30), ZenonT(30)

\* The lists of io_us that were handed to the verify threads.
Handed == {"verify"} \cup VerifyThreads

\* The flags of an io_u go with the list it is on.
Shape ==
    \A u \in IoUs :
        /\ list[u] \in {"free", "requeue"} => "FREE" \in flags[u]
        /\ list[u] \in {"free", "requeue", "busy"} => "FREE_DEF" \notin flags[u]
        /\ list[u] = "free" => file[u] = FALSE
        /\ list[u] = "busy" => "IN_CUR_DEPTH" \in flags[u]
        /\ list[u] \in Handed => /\ "FREE_DEF" \in flags[u]
                                 /\ "IN_CUR_DEPTH" \notin flags[u]
                                 /\ "FLIGHT" \notin flags[u]

\* The job gets no more io_us.
Ending ==
    \/ jpc \in {"exit", "broadcast", "join", "join_asleep", "done"}
    \/ jpc \in {"complete", "signal", "put"} /\ back = "exit"

\* Only what was cancelled keeps its FLIGHT flag when it is put.
Quiet ==
    Ending \/ \A u \in IoUs : list[u] \in {"free", "requeue"} => "FLIGHT" \notin flags[u]

\* What the job has in its hands: an io_u it got or queues, completions it waited
\* for, and one that it has handed over but that it looks at once more.
JobPlace ==
    /\ jpc \in {"fill", "queue", "again", "io_error"} => io_u \in IoUs /\ list[io_u] = "busy"
    /\ jpc \in {"fill", "queue"} => "FLIGHT" \notin flags[io_u]
    /\ jpc \in {"complete", "signal", "put"} =>
         \A u \in events : \/ jpc # "complete" /\ u = io_u
                           \/ list[u] = "busy" /\ "FLIGHT" \in flags[u]
    /\ jpc \in {"signal", "put"} => /\ io_u \in IoUs
                                    /\ list[io_u] \in {"free"} \cup Handed
                                    /\ "IN_CUR_DEPTH" \notin flags[io_u]

Staying == {t \in VerifyThreads : vpc[t] \notin {"left", "gone"}}
LeftCounted == nr_verify_threads = Cardinality(Staying)

IouTypes ==
    /\ list \in [IoUs -> {"free", "busy", "requeue", "verify"} \cup VerifyThreads]
    /\ flags \in [IoUs -> SUBSET {"FREE", "FREE_DEF", "FLIGHT", "IN_CUR_DEPTH"}]
    /\ file \in [IoUs -> BOOLEAN]
    /\ cur_depth \in Nat /\ refs \in Nat

\* What is exact about the io_us, whoever moves them.
IouInv == IouTypes /\ DepthExact /\ RefsExact /\ Shape

JobPlaces == {"loop", "get", "asleep", "fill", "queue", "again", "io_error", "after",
              "reap", "reaped", "complete", "signal", "put", "drain", "cleanup",
              "cancel", "exit", "broadcast", "join", "join_asleep", "done"}
Returns == {"loop", "after", "reaped", "drain", "cancel", "exit"}
ThreadPlaces == {"top", "lock", "to_sleep", "asleep", "verify", "notify", "failed",
                 "leave", "left", "gone"}

RestTypes ==
    /\ issued \in Nat /\ io_bytes \in Nat
    /\ lock \in VerifyThreads \cup {NoOne}
    /\ engine \in Engines
    /\ error \in BOOLEAN /\ terminate \in BOOLEAN /\ busy \in BOOLEAN
    /\ verify_thread_exit \in BOOLEAN
    /\ jpc \in JobPlaces
    /\ io_u \in IoUs \cup {NoOne}
    /\ events \subseteq IoUs
    /\ back \in Returns
    /\ vpc \in [VerifyThreads -> ThreadPlaces]
    /\ ret \in [VerifyThreads -> BOOLEAN]

IInv == IouInv /\ RestTypes /\ Quiet /\ JobPlace /\ LeftCounted

Filed == {u \in On("busy") \cup On("requeue") : file[u]}

-----------------------------------------------------------------------------
(* The io_us.                                                              *)

\* Sets of io_us are finite.
LEMMA IouFinite ==
    ASSUME NEW S \in SUBSET IoUs
    PROVE  IsFiniteSet(S) /\ Cardinality(S) \in Nat
BY AsyncVerifyAssumption, FS_Subset, FS_CardinalityType

LEMMA FiledFinite == Filed \in SUBSET IoUs /\ On("busy") \in SUBSET IoUs
BY DEF Filed, On

\* A step that leaves lists, flags, files and counts alone keeps them exact.
LEMMA IouUnchanged ==
    ASSUME IouInv, UNCHANGED iouVars
    PROVE  IouInv'
BY DEF IouInv, IouTypes, iouVars, DepthExact, RefsExact, Shape, On, Handed

\* Putting io_us that are out takes each of them off the depth, and gives up the
\* file references they hold, exactly once.
LEMMA PutBusy ==
    ASSUME IouInv,
           NEW U \in SUBSET IoUs, \A u \in U : list[u] = "busy",
           NEW cleared, PutIoU(U, cleared)
    PROVE  IouInv'
<1>1. Counts(U) = U
  BY DEF Counts, IouInv, Shape
<1>2. HoldsFile(U) = Filed \cap HoldsFile(U)
  BY DEF HoldsFile, Filed, On
<1>3. HoldsFile(U) = {u \in U : file[u]}
  BY DEF HoldsFile, IouInv, Shape
<1>4. On("busy")' = On("busy") \ U /\ U = On("busy") \cap U
  BY DEF On, PutIoU
<1>5. Filed' = Filed \ HoldsFile(U)
  BY <1>3, ZenonT(30) DEF Filed, On, PutIoU
<1>6. DepthExact' /\ cur_depth' \in Nat
  <2>1. Cardinality(On("busy") \ U) = Cardinality(On("busy")) - Cardinality(U)
    BY <1>4, FiledFinite, IouFinite, FS_Difference, ZenonT(30)
  <2>2. Cardinality(On("busy") \ U) \in Nat
    BY FiledFinite, IouFinite
  <2> QED
    BY <2>1, <2>2, <1>1, <1>4, ZenonT(30) DEF DepthExact, PutIoU, IouInv
<1>7. RefsExact' /\ refs' \in Nat
  <2>1. Cardinality(Filed \ HoldsFile(U)) = Cardinality(Filed) - Cardinality(HoldsFile(U))
    BY <1>2, FiledFinite, IouFinite, FS_Difference, ZenonT(30)
  <2>2. Cardinality(Filed \ HoldsFile(U)) \in Nat
    BY FiledFinite, IouFinite
  <2>3. refs = Cardinality(Filed)
    BY DEF RefsExact, Filed, IouInv
  <2>4. refs' = Cardinality(Filed')
    BY <2>1, <2>3, <1>5 DEF PutIoU
  <2> QED
    BY <2>2, <2>4, <1>5 DEF RefsExact, Filed
<1>8. Shape'
  BY AsyncVerifyAssumption, ZenonT(30) DEF Shape, PutIoU, IouInv, IouTypes, Handed
<1>9. /\ list' \in [IoUs -> {"free", "busy", "requeue", "verify"} \cup VerifyThreads]
      /\ flags' \in [IoUs -> SUBSET {"FREE", "FREE_DEF", "FLIGHT", "IN_CUR_DEPTH"}]
      /\ file' \in [IoUs -> BOOLEAN]
  BY DEF PutIoU, IouInv, IouTypes
<1> QED
  BY <1>6, <1>7, <1>8, <1>9 DEF IouInv, IouTypes

\* Putting an io_u that was handed over, or that was put already, takes nothing
\* off the depth and gives up no reference.
LEMMA PutHanded ==
    ASSUME IouInv,
           NEW u \in IoUs, list[u] \in {"free"} \cup Handed,
           "IN_CUR_DEPTH" \notin flags[u], put_io_u({u})
    PROVE  IouInv'
<1>1. Counts({u}) = {} /\ HoldsFile({u}) = {}
  BY DEF Counts, HoldsFile, IouInv, Shape, Handed
<1>a. Cardinality({}) = 0
  BY FS_EmptySet
<1>2. cur_depth' = cur_depth /\ refs' = refs
  BY <1>1, <1>a DEF put_io_u, PutIoU, IouInv, IouTypes
<1>3. list[u] \notin {"busy", "requeue"}
  BY AsyncVerifyAssumption DEF Handed
<1>4. On("busy")' = On("busy") /\ Filed' = Filed
  BY <1>3, ZenonT(30) DEF On, Filed, put_io_u, PutIoU
<1>5. DepthExact' /\ RefsExact'
  BY <1>2, <1>4, ZenonT(30) DEF DepthExact, RefsExact, IouInv, Filed
<1>6. Shape'
  BY AsyncVerifyAssumption, ZenonT(30) DEF Shape, put_io_u, PutIoU, IouInv, IouTypes, Handed
<1>7. IouTypes'
  BY <1>2 DEF put_io_u, PutIoU, IouInv, IouTypes
<1> QED
  BY <1>5, <1>6, <1>7 DEF IouInv

\* requeue_io_u takes the io_u off the depth and keeps its file.
LEMMA RequeueBusy ==
    ASSUME IouInv, NEW u \in IoUs, list[u] = "busy", requeue_io_u(u)
    PROVE  IouInv'
<1>1. Counts({u}) = {u}
  BY DEF Counts, IouInv, Shape
<1>2. Cardinality({u}) = 1
  BY FS_Singleton, ZenonT(30)
<1>3. On("busy")' = On("busy") \ {u} /\ u \in On("busy") /\ Filed' = Filed
  BY DEF On, Filed, requeue_io_u, IouInv, IouTypes
<1>4. Cardinality(On("busy") \ {u}) = Cardinality(On("busy")) - 1
      /\ Cardinality(On("busy") \ {u}) \in Nat
  BY <1>3, FiledFinite, IouFinite, FS_RemoveElement
<1>5. DepthExact' /\ cur_depth' \in Nat
  BY <1>1, <1>2, <1>3, <1>4, ZenonT(30) DEF DepthExact, requeue_io_u, IouInv
<1>6. RefsExact' /\ refs' \in Nat
  BY <1>3, ZenonT(30) DEF RefsExact, Filed, requeue_io_u, IouInv, IouTypes
<1>7. Shape'
  BY AsyncVerifyAssumption DEF Shape, requeue_io_u, IouInv, IouTypes, Handed
<1>8. IouTypes'
  BY <1>5, <1>6 DEF requeue_io_u, IouInv, IouTypes
<1> QED
  BY <1>5, <1>6, <1>7, <1>8 DEF IouInv

-----------------------------------------------------------------------------
(* The types of the rest.                                                  *)

\* A step of the job that changes its place, its events and where it goes back to.
LEMMA JobTypes ==
    ASSUME RestTypes,
           UNCHANGED <<issued, io_bytes, engine, io_u, busy, verifyVars, lock, error,
                       terminate, verify_thread_exit>>,
           jpc' \in JobPlaces, events' \subseteq IoUs, back' \in Returns
    PROVE  RestTypes'
BY DEF RestTypes, verifyVars

\* A step of a verify thread that leaves the job alone.
LEMMA ThreadTypes ==
    ASSUME RestTypes, UNCHANGED <<jobVars, verify_thread_exit>>,
           NEW t \in VerifyThreads, NEW to \in ThreadPlaces,
           vpc' = [vpc EXCEPT ![t] = to], ret' \in [VerifyThreads -> BOOLEAN],
           lock' \in VerifyThreads \cup {NoOne},
           error' \in BOOLEAN, terminate' \in BOOLEAN
    PROVE  RestTypes'
<1>1. vpc' \in [VerifyThreads -> ThreadPlaces]
  BY DEF RestTypes
<1> QED
  BY <1>1 DEF RestTypes, jobVars

LEMMA MoveTypes ==
    ASSUME RestTypes, JobLoop \/ WaitFree \/ AfterQueue \/ Reap \/ Reaped \/ CleanupEvent
                      \/ Drain
    PROVE  RestTypes'
<1>0. events \subseteq IoUs /\ back \in Returns /\ InFlight \subseteq IoUs
  BY DEF RestTypes, InFlight, On
<1>1. CASE JobLoop
  BY <1>0, <1>1, JobTypes DEF JobLoop, JobGoesTo, JobPlaces
<1>2. CASE WaitFree
  BY <1>0, <1>2, JobTypes DEF WaitFree, JobGoesTo, JobPlaces
<1>3. CASE AfterQueue
  BY <1>0, <1>3, JobTypes DEF AfterQueue, JobGoesTo, JobPlaces
<1>4. CASE Reaped
  BY <1>0, <1>4, JobTypes DEF Reaped, JobGoesTo, JobPlaces
<1>5. CASE Reap
  BY <1>0, <1>5, JobTypes DEF Reap, JobPlaces, Returns
<1>6. CASE CleanupEvent
  BY <1>0, <1>6, JobTypes DEF CleanupEvent, JobPlaces, Returns
<1>7. CASE Drain
  BY <1>0, <1>7, JobTypes DEF Drain, WaitFor, JobPlaces, Returns
<1> QED
  BY <1>1, <1>2, <1>3, <1>4, <1>5, <1>6, <1>7

LEMMA ExitTypes ==
    ASSUME RestTypes, RaiseExit \/ Broadcast \/ Join \/ Terminate
    PROVE  RestTypes'
<1>1. CASE RaiseExit
  BY <1>1 DEF RaiseExit, JobGoesTo, RestTypes, JobPlaces, verifyVars
<1>2. CASE Broadcast
  <2>1. vpc' \in [VerifyThreads -> ThreadPlaces]
    BY <1>2 DEF Broadcast, RestTypes, ThreadPlaces
  <2> QED
    BY <1>2, <2>1 DEF Broadcast, JobGoesTo, RestTypes, JobPlaces
<1>3. CASE Join
  BY <1>3, JobTypes DEF Join, JobGoesTo, RestTypes, JobPlaces
<1>4. CASE Terminate
  BY <1>4 DEF Terminate, RestTypes, verifyVars, jobVars
<1> QED
  BY <1>1, <1>2, <1>3, <1>4

LEMMA ThreadMoveTypes ==
    ASSUME RestTypes, NEW t \in VerifyThreads,
           \/ TestExit(t) \/ DecideToSleep(t) \/ Sleep(t) \/ Notify(t)
           \/ VerifyError(t) \/ NotifyLeft(t)
    PROVE  RestTypes'
<1>0. /\ ret \in [VerifyThreads -> BOOLEAN] /\ lock \in VerifyThreads \cup {NoOne}
      /\ error \in BOOLEAN /\ terminate \in BOOLEAN
  BY DEF RestTypes
<1>a. SignalFree \in JobPlaces
  BY DEF RestTypes, SignalFree, JobPlaces
<1>b. "leave" \in ThreadPlaces /\ "lock" \in ThreadPlaces /\ "to_sleep" \in ThreadPlaces
      /\ "asleep" \in ThreadPlaces
  BY DEF ThreadPlaces
<1>1. CASE TestExit(t)
  BY <1>0, <1>b, <1>1, ThreadTypes, ZenonT(30) DEF TestExit, VerifyGoesTo
<1>2. CASE DecideToSleep(t)
  BY <1>0, <1>b, <1>2, ThreadTypes, ZenonT(30) DEF DecideToSleep, VerifyGoesTo
<1>3. CASE Sleep(t)
  BY <1>0, <1>b, <1>3, ThreadTypes, ZenonT(30) DEF Sleep, VerifyGoesTo
<1>4. CASE VerifyError(t)
  <2>1. error' \in BOOLEAN /\ terminate' \in BOOLEAN
    BY <1>4 DEF VerifyError
  <2> QED
    BY <1>0, <1>b, <1>4, <2>1, ThreadTypes, ZenonT(30) DEF VerifyError, VerifyGoesTo
<1>5. CASE Notify(t)
  <2>1. vpc' \in [VerifyThreads -> ThreadPlaces]
    BY <1>5 DEF Notify, VerifyGoesTo, RestTypes, ThreadPlaces
  <2> QED
    BY <1>5, <1>a, <2>1 DEF Notify, RestTypes
<1>6. CASE NotifyLeft(t)
  <2>1. vpc' \in [VerifyThreads -> ThreadPlaces]
    BY <1>6 DEF NotifyLeft, VerifyGoesTo, RestTypes, ThreadPlaces
  <2> QED
    BY <1>6, <1>a, <2>1 DEF NotifyLeft, RestTypes
<1> QED
  BY <1>1, <1>2, <1>3, <1>4, <1>5, <1>6

-----------------------------------------------------------------------------
(* One io_u is put.                                                        *)

LEMMA OneQuiet ==
    ASSUME Quiet, Ending' = Ending, NEW u \in IoUs,
           \A v \in IoUs : v # u => list'[v] = list[v] /\ flags'[v] = flags[v],
           list'[u] \in {"free", "requeue"} /\ "FLIGHT" \in flags'[u]
             => list[u] \in {"free", "requeue"} /\ "FLIGHT" \in flags[u]
    PROVE  Quiet'
BY DEF Quiet

\* A verify thread puts an io_u that is not the job's to queue or complete.
LEMMA OnePlaced ==
    ASSUME JobPlace, UNCHANGED jobVars, events \subseteq IoUs, NEW u \in IoUs,
           \A v \in IoUs : v # u => list'[v] = list[v] /\ flags'[v] = flags[v],
           list[u] # "busy", list'[u] = "free", "IN_CUR_DEPTH" \notin flags'[u]
    PROVE  JobPlace'
<1>1. UNCHANGED <<jpc, io_u, events>>
  BY DEF jobVars
<1>2. (jpc \in {"fill", "queue", "again", "io_error"} => io_u \in IoUs /\ list[io_u] = "busy")'
  BY <1>1 DEF JobPlace
<1>3. (jpc \in {"fill", "queue"} => "FLIGHT" \notin flags[io_u])'
  BY <1>1 DEF JobPlace
<1>4. (jpc \in {"complete", "signal", "put"} =>
         \A v \in events : \/ jpc # "complete" /\ v = io_u
                           \/ list[v] = "busy" /\ "FLIGHT" \in flags[v])'
  BY <1>1 DEF JobPlace
<1>5. (jpc \in {"signal", "put"} => /\ io_u \in IoUs
                                    /\ list[io_u] \in {"free"} \cup Handed
                                    /\ "IN_CUR_DEPTH" \notin flags[io_u])'
  BY <1>1 DEF JobPlace, Handed
<1> QED
  BY <1>2, <1>3, <1>4, <1>5 DEF JobPlace

-----------------------------------------------------------------------------
(* The verify threads.                                                     *)

LEMMA CountedUnchanged ==
    ASSUME LeftCounted, UNCHANGED <<vpc, nr_verify_threads>>
    PROVE  LeftCounted'
BY DEF LeftCounted, Staying

\* A thread that moves and does not leave stays counted.
LEMMA CountedMoves ==
    ASSUME LeftCounted, NEW t \in VerifyThreads, NEW to,
           vpc \in [VerifyThreads -> ThreadPlaces],
           vpc' = [vpc EXCEPT ![t] = to],
           to \in {"left", "gone"} <=> vpc[t] \in {"left", "gone"},
           UNCHANGED nr_verify_threads
    PROVE  LeftCounted'
<1>1. Staying' = Staying
  BY DEF Staying
<1> QED
  BY <1>1 DEF LeftCounted

-----------------------------------------------------------------------------
(* The steps of the job.                                                   *)

LEMMA GetStep ==
    ASSUME IInv, NEW u \in IoUs, __get_io_u(u)
    PROVE  IInv'
<1> USE AsyncVerifyAssumption DEF IInv
<1>1. list[u] \in {"free", "requeue"}
  BY DEF Available, On, __get_io_u
<1>2. On("busy")' = On("busy") \cup {u} /\ u \notin On("busy")
  BY <1>1 DEF On, IouInv, IouTypes, __get_io_u
<1>3. Filed' = Filed
  BY <1>1 DEF Filed, On, IouInv, IouTypes, Shape, __get_io_u
<1>4. DepthExact' /\ cur_depth' \in Nat
  <2>1. Cardinality(On("busy") \cup {u}) = Cardinality(On("busy")) + 1
    BY <1>2, FiledFinite, IouFinite, FS_AddElement
  <2>2. cur_depth = Cardinality(On("busy")) /\ cur_depth \in Nat
    BY DEF DepthExact, IouInv, IouTypes
  <2>a. cur_depth' = cur_depth + 1
    BY DEF __get_io_u
  <2>b. cur_depth' = Cardinality(On("busy") \cup {u}) /\ cur_depth' \in Nat
    BY <2>1, <2>2, <2>a
  <2>3. cur_depth' = Cardinality(On("busy")') /\ cur_depth' \in Nat
    BY <2>b, <1>2
  <2> QED
    BY <2>3 DEF DepthExact
<1>5. RefsExact' /\ refs' \in Nat
  BY <1>3, ZenonT(30) DEF RefsExact, Filed, IouInv, IouTypes, __get_io_u
<1>6. Shape'
  BY <1>1 DEF Shape, IouInv, IouTypes, Handed, __get_io_u
<1>7. IouTypes'
  BY <1>4, <1>5 DEF IouInv, IouTypes, __get_io_u
<1>8. RestTypes'
  BY DEF RestTypes, JobPlaces, Returns, ThreadPlaces, verifyVars, __get_io_u
<1>9. Quiet'
  BY <1>1 DEF Quiet, Ending, IouInv, IouTypes, __get_io_u
<1>10. JobPlace'
  BY <1>1 DEF JobPlace, Quiet, Ending, IouInv, IouTypes, __get_io_u
<1>11. LeftCounted'
  BY CountedUnchanged DEF verifyVars, __get_io_u
<1> QED
  BY <1>4, <1>5, <1>6, <1>7, <1>8, <1>9, <1>10, <1>11 DEF IouInv

LEMMA FillStep ==
    ASSUME IInv, FillIoU
    PROVE  IInv'
<1> USE AsyncVerifyAssumption DEF IInv
<1>0. io_u \in IoUs /\ list[io_u] = "busy" /\ "FLIGHT" \notin flags[io_u]
  BY DEF JobPlace, FillIoU
<1>1. IouInv'
  <2>1. CASE UNCHANGED iouVars
    BY <2>1, IouUnchanged
  <2>2. CASE ~file[io_u] /\ file' = [file EXCEPT ![io_u] = TRUE] /\ refs' = refs + 1
             /\ UNCHANGED <<list, flags, cur_depth>>
    <3>1. Filed' = Filed \cup {io_u} /\ io_u \notin Filed
      BY <2>2, <1>0 DEF Filed, On, IouInv, IouTypes
    <3>2. Cardinality(Filed \cup {io_u}) = Cardinality(Filed) + 1
      BY <3>1, FiledFinite, IouFinite, FS_AddElement
    <3>a. refs = Cardinality(Filed) /\ refs \in Nat
      BY DEF RefsExact, Filed, IouInv, IouTypes
    <3>b. refs' = Cardinality(Filed') /\ refs' \in Nat
      BY <3>a, <3>1, <3>2, <2>2
    <3>3. RefsExact' /\ refs' \in Nat
      BY <3>b DEF RefsExact, Filed
    <3>4. Shape' /\ DepthExact'
      BY <2>2, <1>0 DEF Shape, DepthExact, On, IouInv, IouTypes, Handed
    <3> QED
      BY <3>3, <3>4, <2>2, ZenonT(30) DEF IouInv, IouTypes
  <2>3. CASE put_io_u({io_u})
    BY <2>3, <1>0, PutBusy DEF put_io_u
  <2> QED
    BY <2>1, <2>2, <2>3 DEF FillIoU
<1>2. RestTypes'
  BY DEF RestTypes, JobPlaces, Returns, ThreadPlaces, verifyVars, FillIoU
<1>3. flags'[io_u] = flags[io_u] \/ jpc' = "drain"
  BY <1>0 DEF FillIoU, iouVars
<1>4. Quiet'
  BY <1>0 DEF Quiet, Ending, IouInv, IouTypes, FillIoU, iouVars, put_io_u, PutIoU
<1>5. JobPlace'
  BY <1>0 DEF JobPlace, FillIoU, iouVars
<1>6. LeftCounted'
  BY CountedUnchanged DEF verifyVars, FillIoU
<1> QED
  BY <1>1, <1>2, <1>4, <1>5, <1>6

LEMMA QueueStep ==
    ASSUME IInv, td_io_queue
    PROVE  IInv'
<1> USE AsyncVerifyAssumption DEF IInv, td_io_queue
<1>0. io_u \in IoUs /\ list[io_u] = "busy" /\ "FLIGHT" \notin flags[io_u]
  BY DEF JobPlace
<1>1. IouInv'
  BY <1>0 DEF IouInv, IouTypes, DepthExact, RefsExact, Shape, On, Handed
<1>2. RestTypes'
  BY <1>0, ZenonT(30) DEF RestTypes, JobPlaces, Returns, ThreadPlaces, verifyVars
<1>4. Quiet'
  BY <1>0 DEF Quiet, Ending, IouInv, IouTypes
<1>5. JobPlace'
  BY <1>0 DEF JobPlace, IouInv, IouTypes
<1>6. LeftCounted'
  BY CountedUnchanged DEF verifyVars
<1> QED
  BY <1>1, <1>2, <1>4, <1>5, <1>6

LEMMA AgainStep ==
    ASSUME IInv, QueueAgain
    PROVE  IInv'
<1> USE AsyncVerifyAssumption DEF IInv, QueueAgain, JobGoesTo
<1>0. io_u \in IoUs /\ list[io_u] = "busy"
  BY DEF JobPlace
<1>1. IouInv'
  BY <1>0, RequeueBusy
<1>2. RestTypes'
  BY DEF RestTypes, JobPlaces, Returns, ThreadPlaces, verifyVars
<1>4. Quiet'
  BY <1>0 DEF Quiet, Ending, IouInv, IouTypes, requeue_io_u
<1>5. JobPlace'
  BY DEF JobPlace
<1>6. LeftCounted'
  BY CountedUnchanged DEF verifyVars
<1> QED
  BY <1>1, <1>2, <1>4, <1>5, <1>6

LEMMA FailsStep ==
    ASSUME IInv, QueueFails
    PROVE  IInv'
<1> USE AsyncVerifyAssumption DEF IInv, QueueFails, JobGoesTo
<1>0. io_u \in IoUs /\ list[io_u] = "busy"
  BY DEF JobPlace
<1>1. IouInv'
  BY <1>0, PutBusy DEF clear_io_u
<1>2. RestTypes'
  BY DEF RestTypes, JobPlaces, Returns, ThreadPlaces, verifyVars
<1>4. Quiet'
  BY <1>0 DEF Quiet, Ending, IouInv, IouTypes, clear_io_u, PutIoU
<1>5. JobPlace'
  BY DEF JobPlace
<1>6. LeftCounted'
  BY CountedUnchanged DEF verifyVars
<1> QED
  BY <1>1, <1>2, <1>4, <1>5, <1>6

\* The steps of the job that only move it on.
LEMMA MoveSteps ==
    ASSUME IInv, JobLoop \/ WaitFree \/ AfterQueue \/ Reap \/ Reaped \/ CleanupEvent
                 \/ Drain
    PROVE  IInv'
<1> USE DEF IInv, JobLoop, WaitFree, AfterQueue, Reap, Reaped, CleanupEvent, Drain,
            WaitFor, JobGoesTo
<1>1. UNCHANGED iouVars
  BY DEF iouVars
<1>2. IouInv'
  BY <1>1, IouUnchanged
<1>3. RestTypes'
  BY MoveTypes, ZenonT(30)
<1>4. Quiet'
  BY <1>1 DEF Quiet, Ending, iouVars
<1>5. JobPlace'
  BY <1>1 DEF JobPlace, iouVars, InFlight, On, RestTypes, JobPlaces, Returns, ThreadPlaces
<1>6. LeftCounted'
  BY CountedUnchanged DEF verifyVars
<1> QED
  BY <1>2, <1>3, <1>4, <1>5, <1>6

LEMMA CompleteStep ==
    ASSUME IInv, NEW u \in IoUs, CompleteRead(u)
    PROVE  IInv'
<1> USE AsyncVerifyAssumption DEF IInv
<1>0. list[u] = "busy" /\ "FLIGHT" \in flags[u] /\ u \in events
  BY ZenonT(30) DEF JobPlace, CompleteRead
<1>1. Counts({u}) = {u} /\ Cardinality({u}) = 1
  BY <1>0, FS_Singleton, ZenonT(30) DEF Counts, IouInv, Shape
<1>2. On("busy")' = On("busy") \ {u} /\ u \in On("busy")
  BY <1>0 DEF On, CompleteRead, IouInv, IouTypes
<1>3. Filed' = Filed \ {u} /\ (u \in Filed <=> file[u])
  BY <1>0 DEF Filed, On, CompleteRead, IouInv, IouTypes
<1>4. DepthExact' /\ cur_depth' \in Nat
  <2>1. Cardinality(On("busy") \ {u}) = Cardinality(On("busy")) - 1
    BY <1>2, FiledFinite, IouFinite, FS_RemoveElement
  <2>2. Cardinality(On("busy") \ {u}) \in Nat
    BY FiledFinite, IouFinite
  <2>3. cur_depth = Cardinality(On("busy")) /\ cur_depth \in Nat
    BY DEF DepthExact, IouInv, IouTypes
  <2>4. cur_depth' = cur_depth - 1
    BY <1>1 DEF CompleteRead
  <2>5. cur_depth' = Cardinality(On("busy") \ {u}) /\ cur_depth' \in Nat
    BY <2>1, <2>2, <2>3, <2>4
  <2>6. cur_depth' = Cardinality(On("busy")')
    BY <2>5, <1>2
  <2> QED
    BY <2>5, <2>6 DEF DepthExact
<1>5. RefsExact' /\ refs' \in Nat
  <2>1. Cardinality(Filed \ {u}) = IF u \in Filed THEN Cardinality(Filed) - 1
                                                  ELSE Cardinality(Filed)
    BY FiledFinite, IouFinite, FS_RemoveElement, ZenonT(30)
  <2>2. Cardinality(Filed \ {u}) \in Nat
    BY FiledFinite, IouFinite
  <2>3. refs = Cardinality(Filed)
    BY DEF RefsExact, Filed, IouInv
  <2>4. refs' = IF u \in Filed THEN refs - 1 ELSE refs
    BY <1>3 DEF CompleteRead
  <2>5. refs' = Cardinality(Filed \ {u})
    BY <2>1, <2>3, <2>4
  <2>6. refs' = Cardinality(Filed')
    BY <2>5, <1>3
  <2> QED
    BY <2>2, <2>5, <2>6 DEF RefsExact, Filed
<1>6. Shape'
  BY <1>0 DEF Shape, IouInv, IouTypes, Handed, CompleteRead
<1>7. IouTypes'
  BY <1>4, <1>5 DEF IouInv, IouTypes, CompleteRead
<1>8. RestTypes'
  <2>1. /\ io_bytes' = io_bytes + 1 /\ io_u' = u /\ jpc' = "signal"
        /\ UNCHANGED <<issued, engine, busy, events, back, verifyVars, lock, error,
                       terminate, verify_thread_exit>>
    BY DEF CompleteRead
  <2> QED
    BY <2>1 DEF RestTypes, JobPlaces, verifyVars
<1>9. Quiet'
  BY <1>0 DEF Quiet, Ending, IouInv, IouTypes, CompleteRead
<1>10. JobPlace'
  BY <1>0 DEF JobPlace, IouInv, IouTypes, CompleteRead, Handed, RestTypes
<1>11. LeftCounted'
  BY CountedUnchanged, ZenonT(30) DEF verifyVars, CompleteRead
<1> QED
  BY <1>4, <1>5, <1>6, <1>7, <1>8, <1>9, <1>10, <1>11 DEF IouInv

LEMMA SignalStep ==
    ASSUME IInv, SignalVerify
    PROVE  IInv'
<1> USE DEF IInv, SignalVerify, JobGoesTo
<1>1. UNCHANGED iouVars
  BY DEF iouVars
<1>2. IouInv'
  BY <1>1, IouUnchanged
<1>3. RestTypes'
  BY DEF RestTypes, JobPlaces, Returns, ThreadPlaces, verifyVars
<1>4. Quiet'
  BY <1>1 DEF Quiet, Ending, iouVars
<1>5. JobPlace'
  BY <1>1 DEF JobPlace, iouVars
<1>6. LeftCounted'
  <2>1. CASE UNCHANGED vpc
    BY <2>1, CountedUnchanged
  <2>2. ASSUME NEW t \in VerifyThreads, vpc[t] = "asleep", vpc' = [vpc EXCEPT ![t] = "lock"]
        PROVE  LeftCounted'
    BY <2>2, CountedMoves, ZenonT(30) DEF RestTypes
  <2> QED
    BY <2>1, <2>2
<1> QED
  BY <1>2, <1>3, <1>4, <1>5, <1>6

LEMMA PutStep ==
    ASSUME IInv, PutCompleted
    PROVE  IInv'
<1> USE AsyncVerifyAssumption DEF IInv, PutCompleted
<1>0. /\ io_u \in IoUs /\ list[io_u] \in {"free"} \cup Handed
      /\ "IN_CUR_DEPTH" \notin flags[io_u]
  BY DEF JobPlace
<1>1. IouInv'
  <2>1. CASE UNCHANGED iouVars
    BY <2>1, IouUnchanged
  <2>2. CASE put_io_u({io_u})
    BY <2>2, <1>0, PutHanded
  <2> QED
    BY <2>1, <2>2
<1>2. RestTypes'
  BY DEF RestTypes, JobPlaces, Returns, ThreadPlaces, verifyVars, AfterEvent
<1>3. \A u \in IoUs : u # io_u => list'[u] = list[u] /\ flags'[u] = flags[u]
  BY DEF put_io_u, PutIoU, iouVars
<1>4. list[io_u] = "free" => flags'[io_u] \subseteq flags[io_u] \cup {"FREE"}
  BY <1>0 DEF put_io_u, PutIoU, iouVars
<1>5. list'[io_u] \in {"free"} \cup Handed /\ (list'[io_u] = "free" => list[io_u] = "free")
  BY <1>0 DEF put_io_u, PutIoU, iouVars, IouInv, Shape
<1>a. list'[io_u] \in {"free", "requeue"} => list[io_u] = "free"
  BY <1>5 DEF Handed
<1>b. Ending' = Ending /\ Quiet
  BY DEF Ending, AfterEvent, RestTypes, JobPlaces, Returns, ThreadPlaces
<1>6. Quiet'
  <2>1. list'[io_u] \in {"free", "requeue"} /\ "FLIGHT" \in flags'[io_u]
          => list[io_u] \in {"free", "requeue"} /\ "FLIGHT" \in flags[io_u]
    BY <1>4, <1>a
  <2> QED
    BY <1>0, <1>3, <1>b, <2>1, OneQuiet
<1>7. JobPlace'
  BY <1>3 DEF JobPlace, AfterEvent, RestTypes, JobPlaces, Returns, ThreadPlaces
<1>8. LeftCounted'
  BY CountedUnchanged DEF verifyVars
<1> QED
  BY <1>1, <1>2, <1>6, <1>7, <1>8

LEMMA CompleteFailedStep ==
    ASSUME IInv, NEW u \in IoUs, CompleteFailed(u)
    PROVE  IInv'
<1> USE AsyncVerifyAssumption DEF IInv, CompleteFailed
<1>0. list[u] = "busy" /\ "FLIGHT" \in flags[u] /\ u \in events
  BY DEF JobPlace
<1>1. IouInv'
  BY <1>0, PutBusy DEF clear_io_u
<1>2. RestTypes'
  BY DEF RestTypes, JobPlaces, Returns, ThreadPlaces, verifyVars, AfterEvent
<1>3. \A v \in IoUs : v # u => list'[v] = list[v] /\ flags'[v] = flags[v]
  BY DEF clear_io_u, PutIoU
<1>4. list'[u] = "free" /\ "FLIGHT" \notin flags'[u]
  BY DEF clear_io_u, PutIoU
<1>5. Quiet'
  BY <1>3, <1>4 DEF Quiet, Ending, AfterEvent, RestTypes, JobPlaces, Returns, ThreadPlaces
<1>6. JobPlace'
  BY <1>3 DEF JobPlace, AfterEvent, RestTypes, JobPlaces, Returns, ThreadPlaces
<1>7. LeftCounted'
  BY CountedUnchanged DEF verifyVars
<1> QED
  BY <1>1, <1>2, <1>5, <1>6, <1>7

LEMMA CancelStep ==
    ASSUME IInv, Cancel
    PROVE  IInv'
<1> USE AsyncVerifyAssumption DEF IInv
<1>0. PICK K \in SUBSET InFlight : put_io_u(K) /\ WaitFor(InFlight \ K)
  BY ZenonT(30) DEF Cancel
<1>1. K \in SUBSET IoUs /\ \A u \in K : list[u] = "busy"
  BY DEF InFlight, On
<1>2. IouInv'
  BY <1>0, <1>1, PutBusy DEF put_io_u
<1>3. RestTypes'
  <2>1. jpc' \in JobPlaces /\ events' \subseteq IoUs /\ back' \in Returns
    BY <1>0 DEF WaitFor, InFlight, On, RestTypes, JobPlaces, Returns
  <2> QED
    BY <2>1, JobTypes DEF Cancel
<1>4. Quiet'
  BY <1>0 DEF Quiet, Ending, WaitFor
<1>5. \A u \in InFlight \ K : list'[u] = "busy" /\ "FLIGHT" \in flags'[u]
  BY <1>0 DEF put_io_u, PutIoU, InFlight, On
<1>6. JobPlace'
  BY <1>0, <1>5, ZenonT(30) DEF JobPlace, WaitFor, Cancel
<1>7. LeftCounted'
  BY CountedUnchanged, ZenonT(30) DEF verifyVars, Cancel
<1> QED
  BY <1>2, <1>3, <1>4, <1>6, <1>7

-----------------------------------------------------------------------------
(* The end of the job, and what happens to it.                             *)

LEMMA ExitSteps ==
    ASSUME IInv, verify_async_exit \/ Terminate
    PROVE  IInv'
<1> USE DEF IInv, verify_async_exit, RaiseExit, Broadcast, Join, Terminate, JobGoesTo
<1>1. UNCHANGED iouVars
  BY DEF iouVars
<1>2. IouInv'
  BY <1>1, IouUnchanged
<1>3. RestTypes'
  BY ExitTypes, ZenonT(30)
<1>4. Quiet'
  BY <1>1, ZenonT(30) DEF Quiet, Ending, iouVars, jobVars
<1>5. JobPlace'
  BY <1>1 DEF JobPlace, iouVars, jobVars
<1>6. Staying' = Staying /\ nr_verify_threads' = nr_verify_threads
  BY DEF Staying, verifyVars
<1>7. LeftCounted'
  BY <1>6 DEF LeftCounted
<1> QED
  BY <1>2, <1>3, <1>4, <1>5, <1>7

\* A thread that wakes, and a wakeup of the job, change nothing of the io_us.
LEMMA SpuriousStep ==
    ASSUME IInv, SpuriousWakeup
    PROVE  IInv'
<1> USE DEF IInv, SpuriousWakeup, SignalFree, VerifyGoesTo
<1>1. UNCHANGED iouVars
  BY DEF iouVars
<1>2. IouInv'
  BY <1>1, IouUnchanged
<1>3. RestTypes'
  BY DEF RestTypes, JobPlaces, Returns, ThreadPlaces, verifyVars
<1>4. Quiet'
  BY <1>1 DEF Quiet, Ending, iouVars
<1>5. JobPlace'
  BY <1>1 DEF JobPlace, iouVars
<1>6. LeftCounted'
  <2>1. CASE UNCHANGED vpc
    BY <2>1, CountedUnchanged
  <2>2. ASSUME NEW t \in VerifyThreads, VerifyGoesTo(t, "asleep", "lock")
        PROVE  LeftCounted'
    BY <2>2, CountedMoves, ZenonT(30) DEF RestTypes
  <2> QED
    BY <2>1, <2>2
<1> QED
  BY <1>2, <1>3, <1>4, <1>5, <1>6

-----------------------------------------------------------------------------
(* The steps of a verify thread.                                           *)

LEMMA ThreadMoves ==
    ASSUME IInv, NEW t \in VerifyThreads,
           \/ TestExit(t) \/ DecideToSleep(t) \/ Sleep(t) \/ Notify(t)
           \/ VerifyError(t) \/ NotifyLeft(t)
    PROVE  IInv'
<1> USE DEF IInv, TestExit, DecideToSleep, Sleep, Notify, VerifyError, NotifyLeft,
            VerifyGoesTo
<1>1. UNCHANGED iouVars
  BY DEF iouVars
<1>2. IouInv'
  BY <1>1, IouUnchanged
<1>3. RestTypes'
  BY ThreadMoveTypes, ZenonT(30)
<1>4. Quiet'
  BY <1>1 DEF Quiet, Ending, iouVars, jobVars, SignalFree
<1>5. JobPlace'
  BY <1>1 DEF JobPlace, iouVars, jobVars, SignalFree
<1>6. PICK to : /\ vpc' = [vpc EXCEPT ![t] = to]
                /\ to \in {"left", "gone"} <=> vpc[t] \in {"left", "gone"}
  OBVIOUS
<1>7. LeftCounted'
  BY <1>6, CountedMoves, ZenonT(30) DEF RestTypes
<1> QED
  BY <1>2, <1>3, <1>4, <1>5, <1>7

LEMMA TakeStep ==
    ASSUME IInv, NEW t \in VerifyThreads, TakeList(t)
    PROVE  IInv'
<1> USE AsyncVerifyAssumption DEF IInv, TakeList, VerifyGoesTo
<1>1. On("busy")' = On("busy") /\ On("requeue")' = On("requeue")
  BY DEF On
<1>2. DepthExact' /\ RefsExact'
  BY <1>1, ZenonT(30) DEF DepthExact, RefsExact, IouInv
<1>3. Shape' /\ IouTypes'
  BY DEF Shape, IouInv, IouTypes, Handed
<1>4. RestTypes'
  BY ThreadTypes, ZenonT(30) DEF RestTypes, ThreadPlaces
<1>5. Quiet'
  BY DEF Quiet, Ending, jobVars
<1>6. JobPlace'
  BY ZenonT(30) DEF JobPlace, jobVars, Handed, RestTypes, JobPlaces, Returns, ThreadPlaces
<1>7. LeftCounted'
  BY CountedMoves, ZenonT(30) DEF RestTypes
<1> QED
  BY <1>2, <1>3, <1>4, <1>5, <1>6, <1>7, ZenonT(30) DEF IouInv

LEMMA VerifyStep ==
    ASSUME IInv, NEW t \in VerifyThreads, NEW u \in IoUs, NEW bad \in BOOLEAN,
           VerifyOne(t, u, bad)
    PROVE  IInv'
<1> USE AsyncVerifyAssumption DEF IInv, VerifyOne, VerifyGoesTo
<1>0. /\ list[u] \in {"free"} \cup Handed /\ list[u] \notin {"busy", "requeue"}
      /\ "IN_CUR_DEPTH" \notin flags[u] /\ "FLIGHT" \notin flags[u]
  BY DEF IouInv, Shape, Handed
<1>1. IouInv'
  BY <1>0, PutHanded
<1>2. RestTypes'
  <2>1. error' \in BOOLEAN /\ terminate' \in BOOLEAN
    BY ZenonT(30)
  <2>2. ret' \in [VerifyThreads -> BOOLEAN]
    BY ZenonT(30) DEF RestTypes, JobPlaces, Returns, ThreadPlaces
  <2> QED
    BY <2>1, <2>2, ThreadTypes, ZenonT(30) DEF RestTypes, ThreadPlaces
<1>3. \A v \in IoUs : v # u => list'[v] = list[v] /\ flags'[v] = flags[v]
  BY ZenonT(30) DEF put_io_u, PutIoU
<1>4. list'[u] = "free" /\ flags'[u] \subseteq flags[u] \cup {"FREE"}
  BY DEF put_io_u, PutIoU
<1>5. Quiet'
  <2>1. Ending' = Ending /\ Quiet
    BY DEF Ending, jobVars
  <2>2. "FLIGHT" \notin flags'[u]
    BY <1>0, <1>4
  <2> QED
    BY <1>3, <2>1, <2>2, OneQuiet
<1>6. JobPlace'
  <2>1. JobPlace /\ UNCHANGED jobVars
    OBVIOUS
  <2>2. "IN_CUR_DEPTH" \notin flags'[u]
    BY <1>0, <1>4
  <2>3. events \subseteq IoUs
    BY DEF RestTypes
  <2> QED
    BY <1>0, <1>3, <1>4, <2>1, <2>2, <2>3, OnePlaced
<1>7. LeftCounted'
  BY CountedMoves, ZenonT(30) DEF RestTypes
<1> QED
  BY <1>1, <1>2, <1>5, <1>6, <1>7

\* nr_verify_threads falls by one with the thread that leaves.
LEMMA LeaveStep ==
    ASSUME IInv, NEW t \in VerifyThreads, Leave(t)
    PROVE  IInv'
<1> USE DEF IInv, Leave, VerifyGoesTo
<1>1. UNCHANGED iouVars
  BY DEF iouVars
<1>2. IouInv'
  BY <1>1, IouUnchanged
<1>3. RestTypes'
  BY DEF RestTypes, JobPlaces, Returns, ThreadPlaces, verifyVars, jobVars
<1>4. Quiet'
  BY <1>1, ZenonT(30) DEF Quiet, Ending, iouVars, jobVars
<1>5. JobPlace'
  BY <1>1 DEF JobPlace, iouVars, jobVars
<1>6. Staying' = Staying \ {t} /\ t \in Staying
  BY DEF Staying, RestTypes, JobPlaces, Returns, ThreadPlaces
<1>7. IsFiniteSet(Staying)
  BY AsyncVerifyAssumption, FS_Subset DEF Staying
<1>8. Cardinality(Staying \ {t}) = Cardinality(Staying) - 1
  BY <1>6, <1>7, FS_RemoveElement, ZenonT(30)
<1>9. LeftCounted'
  BY <1>6, <1>8 DEF LeftCounted
<1> QED
  BY <1>2, <1>3, <1>4, <1>5, <1>9

-----------------------------------------------------------------------------
\* The inductive invariant holds in every state: the lists, the flags, the job's
\* place and the counts stay in step whatever the interleaving.
THEOREM AsyncVerifyInvariance == Spec => []IInv
<1>1. Init => IInv
  <2> SUFFICES ASSUME Init PROVE IInv
    OBVIOUS
  <2> USE AsyncVerifyAssumption DEF Init
  <2>1. Cardinality({}) = 0
    BY FS_EmptySet
  <2>2. On("busy") = {} /\ {u \in On("busy") \cup On("requeue") : file[u]} = {}
    BY DEF On
  <2>3. DepthExact /\ RefsExact
    BY <2>1, <2>2, ZenonT(30) DEF DepthExact, RefsExact
  <2>4. IouTypes /\ Shape
    BY DEF IouTypes, Shape, Handed
  <2>5. RestTypes
    BY ZenonT(30) DEF RestTypes, JobPlaces, Returns, ThreadPlaces
  <2>6. Quiet /\ JobPlace
    BY DEF Quiet, Ending, JobPlace
  <2>7. Staying = VerifyThreads
    BY DEF Staying
  <2> QED
    BY <2>3, <2>4, <2>5, <2>6, <2>7 DEF IInv, IouInv, LeftCounted
<1>2. IInv /\ [Next]_vars => IInv'
  <2> SUFFICES ASSUME IInv, [Next]_vars PROVE IInv'
    OBVIOUS
  <2>1. CASE do_io
    BY <2>1, GetStep, FillStep, QueueStep, AgainStep, FailsStep, MoveSteps, CompleteStep,
       SignalStep, PutStep, CompleteFailedStep, CancelStep DEF do_io
  <2>2. CASE verify_async_exit \/ Terminate
    BY <2>2, ExitSteps
  <2>3. CASE SpuriousWakeup
    BY <2>3, SpuriousStep
  <2>4. ASSUME NEW t \in VerifyThreads, verify_async_thread(t)
        PROVE  IInv'
    BY <2>4, ThreadMoves, TakeStep, VerifyStep, LeaveStep DEF verify_async_thread
  <2>5. CASE UNCHANGED vars
    <3>1. UNCHANGED iouVars
      BY <2>5 DEF vars
    <3>2. IouInv'
      BY <3>1, IouUnchanged DEF IInv
    <3>3. LeftCounted'
      BY <2>5, CountedUnchanged DEF IInv, vars, verifyVars
    <3>4. RestTypes'
      BY <2>5 DEF IInv, vars, jobVars, verifyVars, RestTypes
    <3>5. Quiet'
      BY <2>5, ZenonT(30) DEF IInv, vars, jobVars, iouVars, Quiet, Ending
    <3>6. JobPlace'
      BY <2>5 DEF IInv, vars, jobVars, iouVars, JobPlace, Handed
    <3> QED
      BY <3>2, <3>3, <3>4, <3>5, <3>6 DEF IInv
  <2> QED
    BY <2>1, <2>2, <2>3, <2>4, <2>5 DEF Next
<1> QED
  BY <1>1, <1>2, PTL DEF Spec

\* Whatever the number of io_us and of verify threads, and though job and threads
\* put the same io_u and read its flags without the lock, cur_depth counts the
\* io_us that are out, every file reference is given up once, and the assertions
\* on the flags in io_u.c and ioengines.c hold.
THEOREM IoUsStayExact == Spec => []IoUsExact
<1>1. IInv => IoUsExact
  <2> SUFFICES ASSUME IInv PROVE IoUsExact
    OBVIOUS
  <2>1. IsFiniteSet(Staying)
    BY AsyncVerifyAssumption, FS_Subset DEF Staying
  <2>2. nr_verify_threads \in Nat
    BY <2>1, FS_CardinalityType DEF IInv, LeftCounted
  <2>3. TypeOK
    BY <2>2 DEF IInv, IouInv, IouTypes, RestTypes, JobPlaces, Returns, ThreadPlaces, TypeOK
  <2>4. FlagsAsserted
    BY DEF IInv, IouInv, Shape, JobPlace, FlagsAsserted, Available, On
  <2> QED
    BY <2>3, <2>4 DEF IInv, IouInv, IoUsExact
<1> QED
  BY <1>1, AsyncVerifyInvariance, PTL
=============================================================================
