--------------------------- MODULE DshowSession ---------------------------
(***************************************************************************)
(* One playback session: a player (the mplayer client of                   *)
(* mplayer/dshowserver.patch) and the dshowserver process it forks         *)
(* (dshowserver/server.c), which share one struct vd_struct and wake each  *)
(* other through the timed semaphore of dshowserver/timeout_sem.c.         *)
(*                                                                         *)
(* `word' is the union { ret; cmd } at the head of the shared memory: the  *)
(* command of the player and the result of the server are the SAME cell.   *)
(* Its value is written as the int32 the code tests: a negative value has  *)
(* bit 31 set.  The encoded frame, its pts and the decoded answer are      *)
(* represented by the number of the call they belong to; 0 stands for      *)
(* anything that belongs to no call.                                       *)
(*                                                                         *)
(* The ten second limits of timed_semwait are "may expire whenever nothing *)
(* has arrived"; `missed' counts those in which the player gave a server   *)
(* up that was still running.                                              *)
(***************************************************************************)
EXTENDS Integers

CONSTANTS
  MaxCalls,    \* bound: how many commands the player sends before uninit
  Pages,       \* --numpages, the shared pages decoded frames may lie in
  Builds       \* how the server may be built: "socket" (DS_SOCKET),
               \* "semaphore" (DS_SEMAPHORE) or "mingw" (X_COMPILE)

ASSUME SessionAssumption ==
  /\ MaxCalls \in Nat
  /\ Pages \in Nat
  /\ Builds \subseteq {"socket", "semaphore", "mingw"}

VD_END     == 1
VD_DECODE  == 2
VD_SEEK    == 3
VD_HAS_BIH == 65536

(* What DS_VideoDecoder_DecodeInternal can return: no sample to feed the   *)
(* codec with, no picture yet, a picture copied to `picture', or a picture *)
(* lying in shared page p.                                                 *)
NO_SAMPLE == -1
Results   == {NO_SAMPLE, 0, 1} \cup {3 + 256 * p : p \in 0 .. Pages}

(* The picture the player uses for result r (-1: the `picture' buffer).    *)
PageOf(r) == IF r % 4 \in {2, 3} THEN (r \div 256) % 256 ELSE -1

VARIABLES
  build,      \* the build of this session; it never changes
  cli,        \* where the player is
  call,       \* number of the last command sent
  kind,       \* which command that was
  missed,     \* waits of the player that gave up while the server ran
  shown,      \* what the last decode() handed to the player
  srv,        \* where the server is
  heldPts, heldData,  \* the pts and the frame the codec was fed
  res,        \* what DecodeInternal returned
  staleErrno, \* TRUE: the server's errno still is ETIMEDOUT
  why,        \* why the server exited
  word, pts, data,    \* the shared struct and the encoded frame after it
  fedPts, fedData,    \* which input the answer in shared memory is for
  toSrv, toCli,       \* wake-ups posted and not yet taken
  conn,       \* the socket: "none", "backlog" (connected), "accepted"
  reset,      \* the server's end of the socket carries a pending error
  names       \* the /dshow_shm and /dshow_sem names that are linked

(* The build belongs to both processes: neither changes it.                *)
cliVars  == <<build, cli, call, kind, missed, shown>>
srvVars  == <<build, srv, heldPts, heldData, res, staleErrno, why>>
shmVars  == <<word, pts, data, fedPts, fedData>>
chanVars == <<toSrv, toCli, conn, reset, names>>
vars     == <<cliVars, srvVars, shmVars, chanVars>>

(* DS_SEMAPHORE is undefined in the mingw build: it uses the socket.       *)
Transport == IF build = "semaphore" THEN "semaphore" ELSE "socket"
Mingw     == build = "mingw"

NoFrame == [call |-> 0, pts |-> 0, data |-> 0, page |-> -1]

Gone    == cli \in {"closed", "dead"}       \* the player's end is closed
Serving == cli \in {"idle", "fill", "post", "wait", "reply"}
Busy    == srv \in {"switch", "setpts", "decode", "ret", "pts", "seek", "post"}
Running == Busy \/ srv = "wait"
Booting == srv \in {"shm", "open", "connect"}

Exit(reason) == srv' = "exited" /\ why' = reason
ServerGone   == srv = "exited"
---------------------------------------------------------------------------
(* The player.                                                             *)

(* init() up to my_system(): a fresh shared struct, the host end of the    *)
(* semaphore, and the server started in the background.                    *)
init ==
  /\ cli = "start"
  /\ \E bih \in {0, VD_HAS_BIH} : word' = bih
  /\ names' = {"shm"} \cup (IF Transport = "semaphore" THEN {"sem"} ELSE {})
  /\ cli' = "spawned" /\ srv' = "shm"
  /\ UNCHANGED <<build, call, kind, missed, shown, heldPts, heldData, res,
                 staleErrno, why, pts, data, fedPts, fedData, toSrv, toCli, conn, reset>>

(* The first timed_semwait succeeds: accept() on the socket, or the token  *)
(* the server posts in timed_seminit.  Either way the names go.            *)
initAwake ==
  /\ cli = "spawned"
  /\ \/ Transport = "socket" /\ conn = "backlog"
        /\ conn' = "accepted" /\ toCli' = toCli
     \/ Transport = "semaphore" /\ toCli > 0
        /\ toCli' = toCli - 1 /\ conn' = conn
  /\ names' = {} /\ cli' = "idle"
  /\ UNCHANGED <<call, kind, missed, shown, toSrv, reset>>
  /\ UNCHANGED <<srvVars, shmVars>>

(* It expires instead: init() fails, the shared memory is unlinked, and    *)
(* timed_semwait has unlinked the semaphores although nobody opened them.  *)
initFails ==
  /\ cli = "spawned"
  /\ conn = "none" /\ toCli = 0
  /\ names' = {} /\ cli' = "failed"
  /\ UNCHANGED <<call, kind, missed, shown, toSrv, toCli, conn, reset>>
  /\ UNCHANGED <<srvVars, shmVars>>

(* Mutant: the frame is never copied to shared memory. *)
decode_noCopy ==
  /\ cli = "idle" /\ call < MaxCalls
  /\ call' = call + 1 /\ kind' = VD_DECODE
  /\ word' = VD_DECODE /\ pts' = call + 1
  /\ cli' = "post"
  /\ UNCHANGED <<missed, shown, data, fedPts, fedData>>
  /\ UNCHANGED <<srvVars, chanVars>>

(* decode(): the command and the pts are stored before the frame is copied *)
decode ==
  /\ cli = "idle" /\ call < MaxCalls
  /\ call' = call + 1 /\ kind' = VD_DECODE
  /\ word' = VD_DECODE /\ pts' = call + 1
  /\ cli' = "fill"
  /\ UNCHANGED <<missed, shown, data, fedPts, fedData>>
  /\ UNCHANGED <<srvVars, chanVars>>

decodeFill ==
  /\ cli = "fill"
  /\ data' = call /\ cli' = "post"
  /\ UNCHANGED <<call, kind, missed, shown, word, pts, fedPts, fedData>>
  /\ UNCHANGED <<srvVars, chanVars>>

(* control(VDCTRL_RESYNC_STREAM) *)
seek ==
  /\ cli = "idle" /\ call < MaxCalls
  /\ call' = call + 1 /\ kind' = VD_SEEK
  /\ word' = VD_SEEK
  /\ cli' = "post"
  /\ UNCHANGED <<missed, shown, pts, data, fedPts, fedData>>
  /\ UNCHANGED <<srvVars, chanVars>>

(* Mutant: a seek returns without waiting for the server. *)
timed_sempost_seekNoWait ==
  /\ cli = "post"
  /\ toSrv' = (IF ServerGone THEN toSrv ELSE toSrv + 1)
  /\ cli' = (IF kind = VD_SEEK THEN "idle" ELSE "wait")
  /\ UNCHANGED <<call, kind, missed, shown, toCli, conn, reset, names>>
  /\ UNCHANGED <<srvVars, shmVars>>

timed_sempost ==
  /\ cli = "post"
  /\ toSrv' = (IF ServerGone THEN toSrv ELSE toSrv + 1)
  /\ cli' = "wait"
  /\ UNCHANGED <<call, kind, missed, shown, toCli, conn, reset, names>>
  /\ UNCHANGED <<srvVars, shmVars>>

(* timed_semwait of the player returns 1. *)
waitOk ==
  /\ cli = "wait" /\ toCli > 0
  /\ toCli' = toCli - 1 /\ cli' = "reply"
  /\ UNCHANGED <<call, kind, missed, shown, toSrv, conn, reset, names>>
  /\ UNCHANGED <<srvVars, shmVars>>

(* Mutant: the wait has no limit, only the end of the stream ends it. *)
waitFails_never ==
  /\ cli = "wait" /\ toCli = 0 /\ ServerGone /\ Transport = "socket"
  /\ cli' = "idle" /\ shown' = NoFrame /\ missed' = missed
  /\ UNCHANGED <<call, kind>>
  /\ UNCHANGED <<srvVars, shmVars, chanVars>>

(* timed_semwait returns anything else: ten seconds are over, or the       *)
(* server's end of the socket is closed.  The command is not withdrawn.    *)
waitFails ==
  /\ cli = "wait" /\ toCli = 0
  /\ cli' = "idle" /\ shown' = NoFrame
  /\ missed' = (IF ServerGone THEN missed ELSE missed + 1)
  /\ UNCHANGED <<call, kind>>
  /\ UNCHANGED <<srvVars, shmVars, chanVars>>

(* What decode() returns once its wait succeeded.  It cannot see whether   *)
(* the cell holds an answer or still its own command.                      *)
collect ==
  /\ cli = "reply"
  /\ \E drop \in BOOLEAN :      \* flags & 3: the player asked to skip it
       shown' = IF kind = VD_DECODE /\ ~drop /\ word > 0
                  THEN [call |-> call, pts |-> fedPts, data |-> fedData,
                        page |-> PageOf(word)]
                  ELSE NoFrame
  /\ cli' = "idle"
  /\ UNCHANGED <<call, kind, missed>>
  /\ UNCHANGED <<srvVars, shmVars, chanVars>>

(* uninit(): VD_END is posted, nobody waits for it to be taken, and the    *)
(* socket is closed; closing it with an unread wake-up resets it.          *)
uninit ==
  /\ cli = "idle"
  /\ word' = VD_END
  /\ toSrv' = (IF ServerGone THEN toSrv ELSE toSrv + 1)
  /\ cli' = "closed"
  /\ reset' = (Transport = "socket" /\ toCli > 0)
  /\ UNCHANGED <<call, kind, missed, shown, pts, data, fedPts, fedData>>
  /\ UNCHANGED <<toCli, conn, names>>
  /\ UNCHANGED srvVars

(* The player is killed, or ends after uninit() or a failed init().        *)
playerDies ==
  /\ cli \notin {"start", "dead"}
  /\ cli' = "dead"
  /\ reset' = (reset \/ (Transport = "socket" /\ (toCli > 0 \/ conn = "backlog")))
  /\ UNCHANGED <<call, kind, missed, shown, toSrv, toCli, conn, names>>
  /\ UNCHANGED <<srvVars, shmVars>>
---------------------------------------------------------------------------
(* The server, up to its command loop.                                     *)

(* get_shared_mem.  The mingw build tests `! hFile == -1', which is never   *)
(* true: it goes on without the player's memory.                           *)
get_shared_mem ==
  /\ srv = "shm"
  /\ IF "shm" \in names \/ Mingw
       THEN srv' = "open" /\ why' = why
       ELSE Exit("shm")
  /\ names' = names \ {"shm"}
  /\ UNCHANGED <<heldPts, heldData, res, staleErrno, toSrv, toCli, conn, reset>>
  /\ UNCHANGED <<cliVars, shmVars>>

(* DS_VideoDecoder_Open, SetDestFmt and StartInternal: the codec is found  *)
(* and started, or the server exits.                                       *)
openCodec ==
  /\ srv = "open"
  /\ \/ srv' = "connect" /\ why' = why
     \/ Exit("codec")
  /\ UNCHANGED <<heldPts, heldData, res, staleErrno>>
  /\ UNCHANGED <<cliVars, shmVars, chanVars>>

(* Mutant: "we are awake" is posted on the socket too. *)
timed_seminit_awakeTwice ==
  /\ srv = "connect" /\ Transport = "socket"
  /\ \/ ~Gone /\ conn' = "backlog" /\ srv' = "wait" /\ why' = why
        /\ toCli' = toCli + 1
     \/ Gone /\ Exit("seminit") /\ UNCHANGED <<conn, toCli>>
  /\ UNCHANGED <<heldPts, heldData, res, staleErrno, toSrv, reset, names>>
  /\ UNCHANGED <<cliVars, shmVars>>

(* timed_seminit with is_host = 0: connect to the listening player, or     *)
(* open and unlink the two semaphores and post "we are awake".             *)
timed_seminit ==
  /\ srv = "connect"
  /\ \/ /\ Transport = "socket" /\ ~Gone
        /\ conn' = "backlog" /\ srv' = "wait"
        /\ UNCHANGED <<toCli, names, why>>
     \/ /\ Transport = "semaphore" /\ "sem" \in names
        /\ names' = names \ {"sem"} /\ toCli' = toCli + 1 /\ srv' = "wait"
        /\ UNCHANGED <<conn, why>>
     \/ /\ IF Transport = "socket" THEN Gone ELSE "sem" \notin names
        /\ Exit("seminit")
        /\ UNCHANGED <<conn, toCli, names>>
  /\ UNCHANGED <<heldPts, heldData, res, staleErrno, toSrv, reset>>
  /\ UNCHANGED <<cliVars, shmVars>>
---------------------------------------------------------------------------
(* The server's command loop.                                              *)

(* Mutant: an expired wait is taken for a command. *)
timed_semwait_expired ==
  /\ srv = "wait"
  /\ toSrv' = toSrv - 1 /\ srv' = "switch"
  /\ UNCHANGED <<heldPts, heldData, res, staleErrno, why, toCli, conn, reset, names>>
  /\ UNCHANGED <<cliVars, shmVars>>

timed_semwait ==
  /\ srv = "wait" /\ toSrv > 0
  /\ toSrv' = toSrv - 1 /\ srv' = "switch"
  /\ UNCHANGED <<heldPts, heldData, res, staleErrno, why, toCli, conn, reset, names>>
  /\ UNCHANGED <<cliVars, shmVars>>

HungUp == Transport = "socket" /\ Gone    \* recv() returns without a byte

(* Mutant: the parent is never looked at. *)
parentCheck_none == UNCHANGED <<srv, why>>

(* After DS_TIMEOUT, kill(ppid, 0) - which the mingw build does not have.  *)
parentCheck ==
  IF ~Mingw /\ cli = "dead" THEN Exit("parent") ELSE UNCHANGED <<srv, why>>

(* Ten seconds without a command: errno is set, DS_TIMEOUT is returned.    *)
waitExpires ==
  /\ srv = "wait" /\ toSrv = 0 /\ ~HungUp
  /\ staleErrno' = TRUE
  /\ parentCheck
  /\ UNCHANGED <<heldPts, heldData, res>>
  /\ UNCHANGED <<cliVars, shmVars, chanVars>>

(* recv() fails or sees the end of the stream.  A reset sets errno (not on *)
(* winsock); the end of the stream does not, so `!ok && errno == ETIMEDOUT'*)
(* takes it for a timeout when an earlier wait has expired.                *)
waitHungUp ==
  /\ srv = "wait" /\ toSrv = 0 /\ HungUp
  /\ IF staleErrno /\ (Mingw \/ ~reset) THEN parentCheck ELSE Exit("semwait")
  /\ UNCHANGED <<heldPts, heldData, res, staleErrno>>
  /\ UNCHANGED <<cliVars, shmVars, chanVars>>

(* switch(vd->cmd).  VD_END destroys the decoder and exits without a post; *)
(* the default branch posts and then exits.  (VD_RELOAD_BIH is sent by no  *)
(* player of the repository.)                                              *)
switchCmd ==
  /\ srv = "switch"
  /\ \/ /\ word = VD_END
        /\ Exit("end")
     \/ /\ word = VD_DECODE
        /\ srv' = "setpts" /\ why' = why
     \/ /\ word = VD_SEEK
        /\ srv' = "seek" /\ why' = why
     \/ /\ word \notin {VD_END, VD_DECODE, VD_SEEK}
        /\ srv' = "post" /\ why' = "illegal"
  /\ UNCHANGED <<heldPts, heldData, res, staleErrno>>
  /\ UNCHANGED <<cliVars, shmVars, chanVars>>

(* FreeFrame and SetPTS: vd->pts is read. *)
SetPTS ==
  /\ srv = "setpts"
  /\ heldPts' = pts /\ srv' = "decode"
  /\ UNCHANGED <<heldData, res, staleErrno, why>>
  /\ UNCHANGED <<cliVars, shmVars, chanVars>>

(* DecodeInternal copies the frame and runs the codec, whose system calls  *)
(* may leave any errno behind; without a sample it does neither.           *)
DecodeInternal ==
  /\ srv = "decode"
  /\ res' \in Results
  /\ heldData' = IF res' = NO_SAMPLE THEN heldData ELSE data
  /\ staleErrno' \in {staleErrno, FALSE}
  /\ srv' = "ret"
  /\ UNCHANGED <<heldPts, why>>
  /\ UNCHANGED <<cliVars, shmVars, chanVars>>

(* vd->ret = ..., over whatever the union held. *)
writeRet ==
  /\ srv = "ret"
  /\ word' = res /\ fedPts' = heldPts /\ fedData' = heldData
  /\ srv' = "pts" /\ why' = IF res = NO_SAMPLE THEN "sample" ELSE why
  /\ UNCHANGED <<heldPts, heldData, res, staleErrno, pts, data>>
  /\ UNCHANGED <<cliVars, chanVars>>

(* vd->pts = GetPTS(), a time of the codec's. *)
writePts ==
  /\ srv = "pts"
  /\ pts' = 0 /\ srv' = "post"
  /\ UNCHANGED <<heldPts, heldData, res, staleErrno, why, word, data, fedPts, fedData>>
  /\ UNCHANGED <<cliVars, chanVars>>

(* Mutant: a seek is not acknowledged. *)
SeekInternal_noPost ==
  /\ srv = "seek"
  /\ word' = 0 /\ srv' = "wait"
  /\ UNCHANGED <<heldPts, heldData, res, staleErrno, why, pts, data, fedPts, fedData>>
  /\ UNCHANGED <<cliVars, chanVars>>

SeekInternal ==
  /\ srv = "seek"
  /\ word' = 0 /\ srv' = "post"
  /\ UNCHANGED <<heldPts, heldData, res, staleErrno, why, pts, data, fedPts, fedData>>
  /\ UNCHANGED <<cliVars, chanVars>>

afterPost == IF why \in {"illegal", "sample"} THEN Exit(why)
                                              ELSE srv' = "wait" /\ why' = why

(* timed_sempost, then exit(1) after -1, of an illegal command or of a     *)
(* decoder without a sample.  A byte sent to a closed socket resets it;    *)
(* sending on a reset one raises SIGPIPE, or sets errno to EPIPE where     *)
(* SIGPIPE is ignored.                                                     *)
sempost ==
  /\ srv = "post"
  /\ toCli' = (IF HungUp THEN toCli ELSE toCli + 1)
  /\ reset' = (reset \/ HungUp)
  /\ IF HungUp /\ reset /\ ~Mingw
       THEN \/ Exit("sigpipe") /\ UNCHANGED staleErrno
            \/ staleErrno' = FALSE /\ afterPost
       ELSE staleErrno' = staleErrno /\ afterPost
  /\ UNCHANGED <<heldPts, heldData, res, toSrv, conn, names>>
  /\ UNCHANGED <<cliVars, shmVars>>

(* The codec is foreign code: it may take the server down while it runs.   *)
codecCrash ==
  /\ srv \in {"open", "setpts", "decode", "seek"}
  /\ Exit("crash")
  /\ UNCHANGED <<heldPts, heldData, res, staleErrno>>
  /\ UNCHANGED <<cliVars, shmVars, chanVars>>
---------------------------------------------------------------------------
Init ==
  /\ build \in Builds
  /\ cli = "start" /\ call = 0 /\ kind = VD_SEEK /\ missed = 0 /\ shown = NoFrame
  /\ srv = "none" /\ heldPts = 0 /\ heldData = 0 /\ res = 0
  /\ staleErrno = FALSE /\ why = "running"
  /\ word = 0 /\ pts = 0 /\ data = 0 /\ fedPts = 0 /\ fedData = 0
  /\ toSrv = 0 /\ toCli = 0 /\ conn = "none" /\ reset = FALSE /\ names = {}

(* The player inside a call, and the calls it may or may not make.         *)
PlayerStep == initAwake \/ initFails \/ decodeFill \/ timed_sempost
              \/ waitOk \/ waitFails \/ collect
PlayerCall == init \/ decode \/ seek \/ uninit
ServerStep ==
  \/ get_shared_mem \/ openCodec \/ timed_seminit
  \/ timed_semwait \/ waitExpires \/ waitHungUp \/ switchCmd
  \/ SetPTS \/ DecodeInternal \/ writeRet \/ writePts \/ SeekInternal \/ sempost

Next == PlayerStep \/ PlayerCall \/ playerDies \/ ServerStep \/ codecCrash

Spec == Init /\ [][Next]_vars

(* The scheduler runs both processes, and a wait of ten seconds ends.      *)
(* Nobody obliges the player to send a command, to finish, or to die.      *)
Fairness == WF_vars(PlayerStep) /\ WF_vars(ServerStep)
FairSpec == Spec /\ Fairness
---------------------------------------------------------------------------
Reasons == {"running", "shm", "codec", "seminit", "parent", "semwait", "end",
            "illegal", "sample", "sigpipe", "crash"}
Words   == {0, VD_END, VD_DECODE, VD_SEEK, VD_HAS_BIH} \cup Results

(* Types; no semaphore is taken below zero, the shared cell holds a        *)
(* command or a result.                                                    *)
TypeOK ==
  /\ build \in Builds
  /\ cli \in {"start", "spawned", "idle", "fill", "post", "wait", "reply",
              "failed", "closed", "dead"}
  /\ call \in 0 .. MaxCalls /\ kind \in {VD_DECODE, VD_SEEK}
  /\ missed \in Nat
  /\ shown \in [call : Nat, pts : Nat, data : Nat, page : -1 .. 255]
  /\ srv \in {"none", "shm", "open", "connect", "wait", "switch", "setpts",
              "decode", "ret", "pts", "seek", "post", "exited"}
  /\ heldPts \in Nat /\ heldData \in Nat /\ res \in Results
  /\ staleErrno \in BOOLEAN /\ why \in Reasons
  /\ word \in Words /\ pts \in Nat /\ data \in Nat
  /\ fedPts \in Nat /\ fedData \in Nat
  /\ toSrv \in Nat /\ toCli \in Nat
  /\ conn \in {"none", "backlog", "accepted"} /\ reset \in BOOLEAN
  /\ names \subseteq {"shm", "sem"}

(* No wake-up is created or lost between two live processes: what is on    *)
(* its way to the server, being served, or on its way back are exactly the *)
(* call now waited for and the calls given up (mplayer decode()/control()  *)
(* go on after a failed timed_semwait without draining the semaphore).  So *)
(* a player that gave up k times collects every later answer k calls late. *)
Count(b) == IF b THEN 1 ELSE 0
Lag ==
  Serving /\ Running =>
    toSrv + Count(Busy) + toCli = missed + Count(cli = "wait")

(* Until a wait is given up, a picture handed out by decode() was decoded  *)
(* from the frame and the pts of that very call, and lies where the result *)
(* of DecodeInternal said.                                                 *)
AnswerMatches ==
  missed = 0 /\ cli = "idle" /\ shown # NoFrame /\ shown.call = call =>
    /\ shown.pts = call /\ shown.data = call
    /\ res # 0 /\ shown.page = PageOf(res)

(* Until a wait is given up, the server never takes its own result for a   *)
(* command: no illegal command, and it ends only for a player in uninit(). *)
CommandsUnderstood ==
  missed = 0 => why # "illegal" /\ (why = "end" => Gone)

(* Both: until a wait is given up, each side reads what the other has      *)
(* written for it into the one cell of vd->cmd and vd->ret.                *)
InStep == AnswerMatches /\ CommandsUnderstood

(* server.c:353 "Got illegal command": the server never gets one.          *)
NoIllegalCommand == why # "illegal"

(* Until a wait is given up, the two processes never touch the shared      *)
(* struct at the same time, although nothing but the semaphore guards it.  *)
Exclusive ==
  [][missed = 0 =>
       /\ cli' # cli /\ Busy => UNCHANGED shmVars
       /\ srv' # srv /\ cli \in {"idle", "fill", "post", "reply"}
            => UNCHANGED shmVars]_vars

(* A call of the player returns, whatever happens to the server.           *)
CallReturns == (cli = "wait") ~> (cli # "wait")

(* man/dshowserver.1, -p: "dshowserver will exit if this pid is terminated"*)
DeadParentStopsServer == (cli = "dead") ~> (srv \in {"none", "exited"})

(* The builds that have kill(): there it does.                             *)
DeathIsSeen == (cli = "dead" /\ ~Mingw) ~> (srv \in {"none", "exited"})

(* uninit() only posts VD_END, which a late answer may overwrite before    *)
(* the server reads it.  If no wait was given up the command arrives; if   *)
(* one was, the POSIX server still sees its socket hang up.                *)
UninitStopsServer ==
  (cli = "closed" /\ (build = "socket" \/ missed = 0))
     ~> (srv \in {"none", "exited"})

(* A server that comes up after the player gave up on it does not stay:    *)
(* it finds the semaphores unlinked.  (The socket stays until the player   *)
(* ends: there the server does connect, and waits for the player to die.)  *)
FailedInitStopsServer ==
  (cli = "failed" /\ Transport = "semaphore") ~> (srv = "exited")

(* No server stays behind: not after the player's death, nor after its     *)
(* uninit(), nor after an init() that gave up.                             *)
NoOrphan == DeathIsSeen /\ UninitStopsServer /\ FailedInitStopsServer
---------------------------------------------------------------------------
(* As long as no wait is given up, shared memory, wake-ups and a second    *)
(* process are not visible: the player has a synchronous decoder.  A wait  *)
(* given up ends that.                                                     *)
Phase ==
  IF missed > 0 THEN "over" ELSE
  CASE cli \in {"start", "spawned"}              -> "off"
    [] cli \in {"failed", "closed", "dead"}      -> "over"
    [] cli = "idle"                              -> "ready"
    [] cli \in {"fill", "post", "wait", "reply"} -> "asked"

Sync == INSTANCE SyncDecoder WITH
          phase <- Phase,
          call  <- IF missed = 0 THEN call ELSE 0,
          kind  <- IF missed = 0 THEN kind ELSE VD_SEEK,
          shown <- IF missed = 0 THEN shown ELSE NoFrame,
          Kinds <- {VD_DECODE, VD_SEEK}, Places <- -1 .. 255, NoPicture <- NoFrame

(* Until a wait is given up, the session implements the synchronous        *)
(* decoder, in every build: calls are answered, each by its own answer.    *)
ImplementsSync == Sync!FairSpec
===========================================================================
