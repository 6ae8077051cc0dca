------------------------ MODULE DshowSessionProofs ------------------------
(***************************************************************************)
(* Proofs about DshowSession, for every number of calls and pages, both    *)
(* transports, both builds, and waits that may or may not expire.          *)
(*                                                                         *)
(* Lag is not inductive: it says nothing of a player that is still         *)
(* connecting or of a server that is still booting.  Startup and Boot say  *)
(* that no command is on its way before the session is up.  AnswerMatches  *)
(* needs to know, for each place a command passes through, whose bytes lie *)
(* in the shared cell; that is Owner, and it is true only while no wait    *)
(* has been given up.                                                      *)
(***************************************************************************)
EXTENDS DshowSession, TLAPS

Decoding == kind = VD_DECODE

(* Nothing is asked before the first timed_semwait of init() succeeds, and *)
(* the only early wake-up is the one timed_seminit posts.                  *)
Startup ==
  /\ cli \in {"start", "spawned", "failed"} =>
       missed = 0 /\ toSrv = 0 /\ ~Busy /\ shown = NoFrame
  /\ cli \in {"start", "spawned"} =>
       /\ why \notin {"illegal", "end"}
       /\ Transport = "socket" => toCli = 0
       /\ Transport = "semaphore" => toCli = Count(srv = "wait")

(* A booting server has no session, hence no command.                      *)
Boot ==
  /\ srv \in {"none", "shm", "open", "connect"} =>
       /\ ~Serving /\ cli # "closed"
       /\ toSrv = 0 /\ toCli = 0 /\ conn = "none" /\ why = "running"
  /\ srv = "none" <=> cli = "start"
  /\ Running => why # "end"

(* At most one command is under way, it is one the server knows, and after *)
(* a server that is gone nothing is left to collect, but an answer that is *)
(* being waited for.                                                       *)
OneCommand ==
  /\ Running => toSrv + Count(Busy) <= 1
  /\ (Running /\ toSrv > 0) \/ srv = "switch" =>
       word \in {VD_END, VD_DECODE, VD_SEEK} /\ (word = VD_END => Gone)
  /\ Serving /\ ServerGone => toCli = 0 \/ (toCli = 1 /\ cli = "wait")

(* Whose bytes the shared struct holds, at each stage of the call.         *)
Owner ==
  /\ cli = "fill" => Decoding /\ word = VD_DECODE /\ pts = call
  /\ cli = "post" \/ (cli = "wait" /\ (toSrv > 0 \/ srv = "switch")) =>
       word = kind /\ (Decoding => pts = call /\ data = call)
  /\ srv = "setpts" => Decoding /\ pts = call /\ data = call
  /\ srv = "decode" => Decoding /\ heldPts = call /\ data = call
  /\ srv = "ret"    => Decoding /\ heldPts = call /\ (res # NO_SAMPLE => heldData = call)
  /\ srv = "pts"    => Decoding
  /\ srv = "seek"   => ~Decoding
  /\ srv = "pts" \/ srv = "post" \/ toCli > 0 \/ cli = "reply" =>
       (Decoding => word = res /\ fedPts = call /\ (res # NO_SAMPLE => fedData = call))

(* What holds until the first wait is given up.                            *)
Undisturbed ==
  missed = 0 =>
    OneCommand /\ CommandsUnderstood /\ AnswerMatches /\ (Serving => Owner)

IInv == TypeOK /\ Startup /\ Boot /\ Lag /\ Undisturbed


(* The variables stay in their sets.                                       *)
LEMMA ResultsRange == \A r \in Results : r \in Int /\ PageOf(r) \in -1 .. 255
BY SessionAssumption DEF Results, PageOf, NO_SAMPLE

(* Whatever the shared cell holds names a page of 0 .. 255, or none.       *)
LEMMA WordRange == \A w \in Words : w \in Int /\ PageOf(w) \in -1 .. 255
BY SessionAssumption DEF Words, Results, PageOf, NO_SAMPLE, VD_END, VD_DECODE, VD_SEEK, VD_HAS_BIH

(* Each step of player or server keeps the variables in their sets.        *)
LEMMA TypeStep == TypeOK /\ [Next]_vars => TypeOK'
<1> SUFFICES ASSUME TypeOK, [Next]_vars PROVE TypeOK'
  OBVIOUS
<1> USE SessionAssumption DEF TypeOK, vars, cliVars, srvVars, shmVars, chanVars
<1>1. CASE initAwake
  BY <1>1 DEF initAwake
<1>2. CASE initFails
  BY <1>2 DEF initFails, ServerGone
<1>3. CASE decodeFill
  BY <1>3 DEF decodeFill
<1>4. CASE timed_sempost
  BY <1>4 DEF timed_sempost, ServerGone
<1>5. CASE waitOk
  BY <1>5 DEF waitOk
<1>6. CASE waitFails
  BY <1>6 DEF waitFails, ServerGone, NoFrame
<1>7. CASE collect
  BY <1>7, WordRange DEF collect, NoFrame
<1>8. CASE init
  BY <1>8 DEF init, Words
<1>9. CASE decode
  BY <1>9 DEF decode, Words
<1>10. CASE seek
  BY <1>10 DEF seek, Words
<1>11. CASE uninit
  BY <1>11 DEF uninit, ServerGone, Words
<1>12. CASE playerDies
  BY <1>12 DEF playerDies
<1>13. CASE get_shared_mem
  BY <1>13 DEF get_shared_mem, Exit, Reasons
<1>14. CASE openCodec
  BY <1>14 DEF openCodec, Exit, Reasons
<1>15. CASE timed_seminit
  <2>1. srv' \in {"wait", "exited"} /\ why' \in Reasons
    BY <1>15 DEF timed_seminit, Exit, Reasons
  <2>2. toCli' \in Nat
    BY <1>15 DEF timed_seminit, Exit
  <2>3. conn' \in {"none", "backlog", "accepted"}
    BY <1>15 DEF timed_seminit, Exit
  <2>4. names' \subseteq {"shm", "sem"}
    BY <1>15 DEF timed_seminit, Exit
  <2>5. QED
    BY <1>15, <2>1, <2>2, <2>3, <2>4 DEF timed_seminit
<1>16. CASE timed_semwait
  BY <1>16 DEF timed_semwait
<1>17. CASE waitExpires
  BY <1>17 DEF waitExpires, parentCheck, Exit, HungUp, Reasons
<1>18. CASE waitHungUp
  BY <1>18 DEF waitHungUp, parentCheck, Exit, HungUp, Reasons
<1>19. CASE switchCmd
  BY <1>19 DEF switchCmd, Exit, Reasons
<1>20. CASE SetPTS
  BY <1>20 DEF SetPTS
<1>21. CASE DecodeInternal
  BY <1>21 DEF DecodeInternal
<1>22. CASE writeRet
  BY <1>22 DEF writeRet, Words, Reasons
<1>23. CASE writePts
  BY <1>23 DEF writePts
<1>24. CASE SeekInternal
  BY <1>24 DEF SeekInternal, Words
<1>25. CASE sempost
  <2>1. srv' \in {"wait", "exited"} /\ why' \in Reasons
    BY <1>25 DEF sempost, afterPost, Exit, Reasons
  <2>2. toCli' \in Nat
    BY <1>25 DEF sempost
  <2>3. reset' \in BOOLEAN
    BY <1>25 DEF sempost
  <2>4. staleErrno' \in BOOLEAN
    BY <1>25 DEF sempost
  <2>5. QED
    BY <1>25, <2>1, <2>2, <2>3, <2>4 DEF sempost
<1>26. CASE codecCrash
  BY <1>26 DEF codecCrash, Exit, Reasons
<1>27. CASE UNCHANGED vars
  BY <1>27
<1>28. QED
  BY <1>1, <1>2, <1>3, <1>4, <1>5, <1>6, <1>7, <1>8, <1>9, <1>10, <1>11, <1>12, <1>13, <1>14, <1>15, <1>16, <1>17, <1>18, <1>19, <1>20, <1>21, <1>22, <1>23, <1>24, <1>25, <1>26, <1>27 DEF Next, PlayerStep, PlayerCall, ServerStep

(* The session starts with every variable in its set.                      *)
LEMMA InitType == Init => TypeOK
<1>1. NoFrame \in [call : Nat, pts : Nat, data : Nat, page : -1 .. 255]
  BY DEF NoFrame
<1>2. 0 \in Results /\ 0 \in Words
  BY DEF Results, Words
<1>3. 0 \in 0 .. MaxCalls
  BY SessionAssumption
<1>4. SUFFICES ASSUME Init PROVE TypeOK
  OBVIOUS
<1>5. cli \in {"start"} /\ srv \in {"none"} /\ why \in Reasons /\ names \subseteq {"shm", "sem"}
  BY <1>4 DEF Init, Reasons
<1>6. staleErrno \in BOOLEAN /\ reset \in BOOLEAN
  BY <1>4 DEF Init
<1>7. QED
  BY <1>1, <1>2, <1>3, <1>4, <1>5, <1>6 DEF Init, TypeOK

(* Every variable of the session keeps its type.                           *)
THEOREM TypeCorrect == Spec => []TypeOK
<1>1. QED
  BY InitType, TypeStep, PTL DEF Spec

(* No command before the session is up. *)
LEMMA SetupStep == TypeOK /\ Startup /\ Boot /\ [Next]_vars => (Startup /\ Boot)'
<1> SUFFICES ASSUME TypeOK /\ Startup /\ Boot, [Next]_vars PROVE (Startup /\ Boot)'
  OBVIOUS
<1> USE SessionAssumption DEF TypeOK, Startup, Boot, Count, Serving, Busy, Running, Gone, ServerGone, Transport, Mingw, vars, cliVars, srvVars, shmVars, chanVars
<1>1. CASE initAwake
  BY <1>1 DEF initAwake
<1>2. CASE initFails
  BY <1>2 DEF initFails
<1>3. CASE decodeFill
  BY <1>3 DEF decodeFill
<1>4. CASE timed_sempost
  BY <1>4 DEF timed_sempost
<1>5. CASE waitOk
  BY <1>5 DEF waitOk
<1>6. CASE waitFails
  BY <1>6 DEF waitFails
<1>7. CASE collect
  BY <1>7 DEF collect
<1>8. CASE init
  BY <1>8 DEF init
<1>9. CASE decode
  BY <1>9 DEF decode
<1>10. CASE seek
  BY <1>10 DEF seek
<1>11. CASE uninit
  BY <1>11 DEF uninit
<1>12. CASE playerDies
  BY <1>12 DEF playerDies
<1>13. CASE get_shared_mem
  BY <1>13 DEF get_shared_mem, Exit
<1>14. CASE openCodec
  BY <1>14 DEF openCodec, Exit
<1>15. CASE timed_seminit
  BY <1>15 DEF timed_seminit, Exit
<1>16. CASE timed_semwait
  BY <1>16 DEF timed_semwait
<1>17. CASE waitExpires
  BY <1>17 DEF waitExpires, parentCheck, Exit, HungUp
<1>18. CASE waitHungUp
  BY <1>18 DEF waitHungUp, parentCheck, Exit, HungUp
<1>19. CASE switchCmd
  BY <1>19 DEF switchCmd, Exit
<1>20. CASE SetPTS
  BY <1>20 DEF SetPTS
<1>21. CASE DecodeInternal
  BY <1>21 DEF DecodeInternal
<1>22. CASE writeRet
  BY <1>22 DEF writeRet
<1>23. CASE writePts
  BY <1>23 DEF writePts
<1>24. CASE SeekInternal
  BY <1>24 DEF SeekInternal
<1>25. CASE sempost
  BY <1>25 DEF sempost, Exit, HungUp, afterPost
<1>26. CASE codecCrash
  BY <1>26 DEF codecCrash, Exit
<1>27. CASE UNCHANGED vars
  BY <1>27
<1>28. QED
  BY <1>1, <1>2, <1>3, <1>4, <1>5, <1>6, <1>7, <1>8, <1>9, <1>10, <1>11, <1>12, <1>13, <1>14, <1>15, <1>16, <1>17, <1>18, <1>19, <1>20, <1>21, <1>22, <1>23, <1>24, <1>25, <1>26, <1>27 DEF Next, PlayerStep, PlayerCall, ServerStep

(* Wake-ups are conserved. *)
LEMMA LagStep == TypeOK /\ Startup /\ Boot /\ Lag /\ [Next]_vars => Lag'
<1> SUFFICES ASSUME TypeOK /\ Startup /\ Boot /\ Lag, [Next]_vars PROVE Lag'
  OBVIOUS
<1> USE SessionAssumption DEF TypeOK, Startup, Boot, Lag, Count, Serving, Busy, Running, Gone, ServerGone, Transport, Mingw, vars, cliVars, srvVars, shmVars, chanVars
<1>1. CASE initAwake
  BY <1>1 DEF initAwake
<1>2. CASE initFails
  BY <1>2 DEF initFails
<1>3. CASE decodeFill
  BY <1>3 DEF decodeFill
<1>4. CASE timed_sempost
  BY <1>4 DEF timed_sempost
<1>5. CASE waitOk
  BY <1>5 DEF waitOk
<1>6. CASE waitFails
  BY <1>6 DEF waitFails
<1>7. CASE collect
  BY <1>7 DEF collect
<1>8. CASE init
  BY <1>8 DEF init
<1>9. CASE decode
  BY <1>9 DEF decode
<1>10. CASE seek
  BY <1>10 DEF seek
<1>11. CASE uninit
  BY <1>11 DEF uninit
<1>12. CASE playerDies
  BY <1>12 DEF playerDies
<1>13. CASE get_shared_mem
  BY <1>13 DEF get_shared_mem, Exit
<1>14. CASE openCodec
  BY <1>14 DEF openCodec, Exit
<1>15. CASE timed_seminit
  BY <1>15 DEF timed_seminit, Exit
<1>16. CASE timed_semwait
  BY <1>16 DEF timed_semwait
<1>17. CASE waitExpires
  BY <1>17 DEF waitExpires, parentCheck, Exit, HungUp
<1>18. CASE waitHungUp
  BY <1>18 DEF waitHungUp, parentCheck, Exit, HungUp
<1>19. CASE switchCmd
  BY <1>19 DEF switchCmd, Exit
<1>20. CASE SetPTS
  BY <1>20 DEF SetPTS
<1>21. CASE DecodeInternal
  BY <1>21 DEF DecodeInternal
<1>22. CASE writeRet
  BY <1>22 DEF writeRet
<1>23. CASE writePts
  BY <1>23 DEF writePts
<1>24. CASE SeekInternal
  BY <1>24 DEF SeekInternal
<1>25. CASE sempost
  BY <1>25 DEF sempost, Exit, HungUp, afterPost
<1>26. CASE codecCrash
  BY <1>26 DEF codecCrash, Exit
<1>27. CASE UNCHANGED vars
  BY <1>27
<1>28. QED
  BY <1>1, <1>2, <1>3, <1>4, <1>5, <1>6, <1>7, <1>8, <1>9, <1>10, <1>11, <1>12, <1>13, <1>14, <1>15, <1>16, <1>17, <1>18, <1>19, <1>20, <1>21, <1>22, <1>23, <1>24, <1>25, <1>26, <1>27 DEF Next, PlayerStep, PlayerCall, ServerStep

(* The cell holds what its reader expects. *)
LEMMA UndisturbedStep == IInv /\ [Next]_vars => Undisturbed'
<1> SUFFICES ASSUME IInv, [Next]_vars PROVE Undisturbed'
  OBVIOUS
<1> USE SessionAssumption DEF IInv, TypeOK, Startup, Boot, Lag, Undisturbed, OneCommand, CommandsUnderstood, AnswerMatches, Owner, Decoding, Count, VD_END, VD_DECODE, VD_SEEK, Serving, Busy, Running, Gone, ServerGone, Transport, Mingw, vars, cliVars, srvVars, shmVars, chanVars
<1>1. CASE initAwake
  BY <1>1 DEF initAwake
<1>2. CASE initFails
  BY <1>2 DEF initFails
<1>3. CASE decodeFill
  BY <1>3 DEF decodeFill
<1>4. CASE timed_sempost
  BY <1>4 DEF timed_sempost
<1>5. CASE waitOk
  BY <1>5 DEF waitOk
<1>6. CASE waitFails
  BY <1>6 DEF waitFails
<1>7. CASE collect
  BY <1>7 DEF collect, NO_SAMPLE
<1>8. CASE init
  BY <1>8 DEF init
<1>9. CASE decode
  BY <1>9 DEF decode
<1>10. CASE seek
  BY <1>10 DEF seek
<1>11. CASE uninit
  BY <1>11 DEF uninit
<1>12. CASE playerDies
  BY <1>12 DEF playerDies
<1>13. CASE get_shared_mem
  BY <1>13 DEF get_shared_mem, Exit
<1>14. CASE openCodec
  BY <1>14 DEF openCodec, Exit
<1>15. CASE timed_seminit
  BY <1>15 DEF timed_seminit, Exit
<1>16. CASE timed_semwait
  BY <1>16 DEF timed_semwait
<1>17. CASE waitExpires
  BY <1>17 DEF waitExpires, parentCheck, Exit, HungUp
<1>18. CASE waitHungUp
  BY <1>18 DEF waitHungUp, parentCheck, Exit, HungUp
<1>19. CASE switchCmd
  BY <1>19 DEF switchCmd, Exit
<1>20. CASE SetPTS
  BY <1>20 DEF SetPTS
<1>21. CASE DecodeInternal
  BY <1>21 DEF DecodeInternal
<1>22. CASE writeRet
  BY <1>22 DEF writeRet
<1>23. CASE writePts
  BY <1>23 DEF writePts
<1>24. CASE SeekInternal
  BY <1>24 DEF SeekInternal
<1>25. CASE sempost
  BY <1>25 DEF sempost, Exit, HungUp, afterPost
<1>26. CASE codecCrash
  BY <1>26 DEF codecCrash, Exit
<1>27. CASE UNCHANGED vars
  BY <1>27
<1>28. QED
  BY <1>1, <1>2, <1>3, <1>4, <1>5, <1>6, <1>7, <1>8, <1>9, <1>10, <1>11, <1>12, <1>13, <1>14, <1>15, <1>16, <1>17, <1>18, <1>19, <1>20, <1>21, <1>22, <1>23, <1>24, <1>25, <1>26, <1>27 DEF Next, PlayerStep, PlayerCall, ServerStep

(* The inductive invariant holds from the start and for ever.              *)
THEOREM SessionInvariant == Spec => []IInv
<1>1. Init => IInv
  <2> SUFFICES ASSUME Init PROVE IInv
    OBVIOUS
  <2>1. TypeOK
    BY InitType
  <2>2. Startup /\ Boot /\ Lag
    BY DEF Init, Startup, Boot, Lag, Count, Serving, Busy, Running
  <2>3. Undisturbed
    BY DEF Init, Undisturbed, OneCommand, CommandsUnderstood, AnswerMatches,
           Serving, Busy, Running
  <2>4. QED
    BY <2>1, <2>2, <2>3 DEF IInv
<1>2. IInv /\ [Next]_vars => IInv'
  <2> SUFFICES ASSUME IInv, [Next]_vars PROVE IInv'
    OBVIOUS
  <2>1. TypeOK' /\ Startup' /\ Boot' /\ Lag'
    BY TypeStep, SetupStep, LagStep DEF IInv
  <2>2. Undisturbed'
    BY UndisturbedStep
  <2>3. QED
    BY <2>1, <2>2 DEF IInv
<1>3. QED
  BY <1>1, <1>2, PTL DEF Spec

(* No wake-up is lost or made up: a player that gave up k waits collects   *)
(* every later answer k calls late, and exactly k.                         *)
THEOREM LagHolds == Spec => []Lag
<1>1. IInv => Lag
  BY DEF IInv
<1>2. QED
  BY <1>1, SessionInvariant, PTL

(* Before the first wait given up, decode() hands out the codec's answer   *)
(* to the very frame it was called with.                                   *)
THEOREM AnswersMatch == Spec => []AnswerMatches
<1>1. TypeOK /\ Undisturbed /\ missed = 0 => AnswerMatches
  BY DEF Undisturbed
<1>2. missed # 0 => AnswerMatches
  BY DEF AnswerMatches
<1>3. IInv => AnswerMatches
  BY <1>1, <1>2 DEF IInv
<1>4. QED
  BY <1>3, SessionInvariant, PTL

(* ... and the server never takes an answer of its own for a command.      *)
THEOREM OnlyCommandsRun == Spec => []CommandsUnderstood
<1>1. Undisturbed /\ missed = 0 => CommandsUnderstood
  BY DEF Undisturbed
<1>2. missed # 0 => CommandsUnderstood
  BY DEF CommandsUnderstood
<1>3. IInv => CommandsUnderstood
  BY <1>1, <1>2 DEF IInv
<1>4. QED
  BY <1>3, SessionInvariant, PTL

(* InStep: each side reads what the other has written for it.              *)
THEOREM StaysInStep == Spec => []InStep
<1>1. AnswerMatches /\ CommandsUnderstood => InStep
  BY DEF InStep
<1>2. QED
  BY <1>1, AnswersMatch, OnlyCommandsRun, PTL

(* ... and the two processes never write the shared struct at once.        *)
THEOREM SharedStructExclusive == Spec => Exclusive
<1> DEFINE Polite ==
      missed = 0 =>
        /\ cli' # cli /\ Busy => UNCHANGED shmVars
        /\ srv' # srv /\ cli \in {"idle", "fill", "post", "reply"}
             => UNCHANGED shmVars
<1>1. IInv /\ [Next]_vars => Polite
  <2> SUFFICES ASSUME IInv, [Next]_vars, missed = 0
               PROVE  /\ cli' # cli /\ Busy => UNCHANGED shmVars
                      /\ srv' # srv /\ cli \in {"idle", "fill", "post", "reply"}
                           => UNCHANGED shmVars
    OBVIOUS
  <2> USE DEF cliVars, srvVars, shmVars, chanVars
  <2>1. cli \in {"idle", "fill", "post", "reply"} => ~Busy
    BY DEF IInv, TypeOK, Lag, Count, Serving, Running, Busy
  <2>2. CASE PlayerStep
    BY <2>1, <2>2 DEF PlayerStep, initAwake, initFails, decodeFill, timed_sempost,
                 waitOk, waitFails, collect
  <2>3. CASE PlayerCall
    BY <2>1, <2>3 DEF PlayerCall, init, decode, seek, uninit, IInv, Boot, Busy
  <2>4. CASE playerDies
    BY <2>4 DEF playerDies
  <2>5. CASE ServerStep
    BY <2>1, <2>5 DEF ServerStep, get_shared_mem, openCodec, timed_seminit,
                 timed_semwait, waitExpires, waitHungUp, switchCmd, SetPTS,
                 DecodeInternal, writeRet, writePts, SeekInternal, sempost, Busy
  <2>6. CASE codecCrash
    BY <2>6 DEF codecCrash
  <2>7. CASE UNCHANGED vars
    BY <2>7 DEF vars
  <2>8. QED
    BY <2>2, <2>3, <2>4, <2>5, <2>6, <2>7 DEF Next
<1>2. IInv /\ [Next]_vars => [Polite]_vars
  BY <1>1
<1>3. Spec => [][Polite]_vars
  BY <1>2, SessionInvariant, PTL DEF Spec
<1>4. QED
  BY <1>3 DEF Exclusive

(* What a call of the player returns is an answer of SyncDecoder.          *)
LEMMA CollectAnswers ==
  ASSUME IInv, missed = 0, collect
  PROVE  shown' \in {NoFrame} \cup
                    {Sync!Picture(call, p) : p \in -1 .. 255}
<1>1. kind = VD_DECODE /\ word > 0 => fedPts = call /\ fedData = call
  BY DEF collect, IInv, Undisturbed, Owner, Decoding, Serving, NO_SAMPLE
<1>2. PageOf(word) \in -1 .. 255
  BY WordRange DEF IInv, TypeOK
<1>3. CASE shown' = NoFrame
  BY <1>3
<1>4. CASE shown' # NoFrame
  <2>1. shown' = [call |-> call, pts |-> fedPts, data |-> fedData,
                  page |-> PageOf(word)] /\ kind = VD_DECODE /\ word > 0
    BY <1>4 DEF collect
  <2>2. shown' = Sync!Picture(call, PageOf(word))
    BY <1>1, <2>1 DEF Sync!Picture
  <2>3. QED
    BY <1>2, <2>2
<1>5. QED
  BY <1>3, <1>4

(* A wait given up stays given up, and ends the promise.                   *)
LEMMA MissedGrows ==
  ASSUME missed \in Nat, [Next]_vars
  PROVE  missed' \in Nat /\ (missed > 0 => missed' > 0)
<1> USE DEF vars, cliVars, srvVars, shmVars, chanVars
<1>1. CASE PlayerStep
  BY <1>1 DEF PlayerStep, initAwake, initFails, decodeFill, timed_sempost,
              waitOk, waitFails, collect
<1>2. CASE PlayerCall
  BY <1>2 DEF PlayerCall, init, decode, seek, uninit
<1>3. CASE playerDies
  BY <1>3 DEF playerDies
<1>4. CASE ServerStep
  BY <1>4 DEF ServerStep, get_shared_mem, openCodec, timed_seminit,
              timed_semwait, waitExpires, waitHungUp, switchCmd, SetPTS,
              DecodeInternal, writeRet, writePts, SeekInternal, sempost
<1>5. CASE codecCrash
  BY <1>5 DEF codecCrash
<1>6. CASE UNCHANGED vars
  BY <1>6
<1>7. QED
  BY <1>1, <1>2, <1>3, <1>4, <1>5, <1>6 DEF Next

(* Every step is a step of SyncDecoder, or one its player cannot see.      *)
LEMMA SyncStep ==
  ASSUME IInv, [Next]_vars
  PROVE  [Sync!Next]_Sync!vars
<1> USE DEF Phase, Sync!Next, Sync!vars, cliVars, srvVars, shmVars, chanVars
<1>0. /\ cli \in {"start", "spawned", "idle", "fill", "post", "wait", "reply",
                  "failed", "closed", "dead"}
      /\ call \in 0 .. MaxCalls /\ missed \in Nat
  BY DEF IInv, TypeOK
<1>1. CASE missed > 0
  <2>1. missed' > 0 /\ missed # 0 /\ missed' # 0
    BY <1>0, <1>1, MissedGrows
  <2>2. QED
    BY <1>1, <2>1
<1>2. CASE missed = 0 /\ PlayerStep
  <2>1. CASE initAwake
    BY <1>2, <2>1 DEF initAwake, Sync!Open
  <2>2. CASE initFails
    BY <1>2, <2>2 DEF initFails, Sync!Quit
  <2>3. CASE decodeFill \/ timed_sempost \/ waitOk
    BY <1>2, <2>3 DEF decodeFill, timed_sempost, waitOk
  <2>4. CASE waitFails /\ ServerGone
    BY <1>2, <2>4 DEF waitFails, Sync!Answer
  <2>5. CASE waitFails /\ ~ServerGone
    <3>1. cli = "wait" /\ missed' = 1
      BY <1>2, <2>5 DEF waitFails
    <3>2. QED
      BY <1>2, <3>1 DEF Sync!GiveUp
  <2>6. CASE collect
    BY <1>2, <2>6, CollectAnswers DEF collect, Sync!Answer
  <2>7. QED
    BY <1>2, <2>1, <2>2, <2>3, <2>4, <2>5, <2>6 DEF PlayerStep
<1>3. CASE missed = 0 /\ PlayerCall
  <2>1. CASE init
    BY <1>3, <2>1 DEF init
  <2>2. CASE decode
    BY <1>3, <2>2 DEF decode, Sync!Ask
  <2>3. CASE seek
    BY <1>3, <2>3 DEF seek, Sync!Ask
  <2>4. CASE uninit
    BY <1>3, <2>4 DEF uninit, Sync!Quit
  <2>5. QED
    BY <1>3, <2>1, <2>2, <2>3, <2>4 DEF PlayerCall
<1>4. CASE missed = 0 /\ playerDies
  BY <1>0, <1>4 DEF playerDies, Sync!Quit
<1>5. CASE ServerStep
  <2>1. UNCHANGED cliVars
    BY <1>5 DEF ServerStep, get_shared_mem, openCodec, timed_seminit,
                timed_semwait, waitExpires, waitHungUp, switchCmd, SetPTS,
                DecodeInternal, writeRet, writePts, SeekInternal, sempost
  <2>2. QED
    BY <2>1
<1>6. CASE codecCrash
  BY <1>6 DEF codecCrash
<1>7. CASE UNCHANGED vars
  BY <1>7 DEF vars
<1>8. missed > 0 \/ missed = 0
  BY <1>0
<1> HIDE DEF Phase, Sync!Next, Sync!vars, cliVars, srvVars, shmVars, chanVars
<1>9. QED
  BY <1>8, <1>1, <1>2, <1>3, <1>4, <1>5, <1>6, <1>7, Zenon DEF Next

(* Until a wait is given up, the session implements the safety part of the *)
(* synchronous decoder, however many calls and pages, in every build.      *)
THEOREM SessionIsSynchronous == Spec => Sync!Spec
<1>1. Init => Sync!Init
  BY DEF Init, Sync!Init, Phase, VD_SEEK
<1>2. IInv /\ [Next]_vars => [Sync!Next]_Sync!vars
  BY SyncStep
<1>3. Spec => Sync!Init /\ [][Sync!Next]_Sync!vars
  BY <1>1, <1>2, SessionInvariant, PTL DEF Spec
<1>4. QED
  BY <1>3 DEF Sync!Spec
===========================================================================
