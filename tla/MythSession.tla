---------------------------- MODULE MythSession ----------------------------
(***************************************************************************)
(* The same server, forked by MythTV (mythtv/dshowserver-0.22.patch,       *)
(* class AvFormatDecoderPrivate).  The variables and the server's actions  *)
(* are those of DshowSession; `build' stands for the kind of semaphore the *)
(* command line asks for: server.c takes "--port 0" for the semaphores.    *)
(* MythTV itself always waits on the socket it listens on.                 *)
(*                                                                         *)
(* cli = "idle" says that ds_mpi is set.  An InitDirectShow that gave up   *)
(* leaves it set, so HasDirectShow() sends every frame here all the same.  *)
(***************************************************************************)
EXTENDS DshowSession

(* The value of `port' when the command line is printed: timed_seminit     *)
(* stores the port it listens on only after that.                          *)
PrintedPort == 0

(* InitDirectShow up to myth_system(): zeroed shared memory, a listening   *)
(* socket, and the server in the background.                               *)
InitDirectShow ==
  /\ cli = "start"
  /\ word' = 0 /\ names' = {"shm"}
  /\ cli' = "spawned" /\ srv' = "shm"
  /\ UNCHANGED <<build, call, kind, missed, shown, heldPts, heldData, res,
                 staleErrno, why, pts, data, fedPts, fedData, toSrv, toCli, conn, reset>>

(* mmap fails: the caller is told to use another decoder, but ds_mpi stays *)
(* set and nothing in it is.  What the player does to it next, in any call,*)
(* is undefined; that ends it here (playerDies).                           *)
InitDirectShowUnmapped ==
  /\ cli = "start"
  /\ names' = {"shm"} /\ cli' = "failed"
  /\ UNCHANGED <<call, kind, missed, shown, toSrv, toCli, conn, reset>>
  /\ UNCHANGED <<srvVars, shmVars>>

(* Its wait: the server connected, or ten seconds are over and the caller  *)
(* is told to use another decoder.  The shared memory is unlinked.         *)
InitDirectShowWait ==
  /\ cli = "spawned"
  /\ conn' = (IF conn = "backlog" THEN "accepted" ELSE conn)
  /\ names' = {} /\ cli' = "idle"
  /\ UNCHANGED <<call, kind, missed, shown, toSrv, toCli, reset>>
  /\ UNCHANGED <<srvVars, shmVars>>

(* DecodeDirectShowVideo: the command is stored first, then frame and pts. *)
DecodeDirectShowVideo ==
  /\ cli = "idle" /\ call < MaxCalls
  /\ call' = call + 1 /\ kind' = VD_DECODE
  /\ word' = VD_DECODE /\ cli' = "fill"
  /\ UNCHANGED <<missed, shown, pts, data, fedPts, fedData>>
  /\ UNCHANGED <<srvVars, chanVars>>

DecodeDirectShowFill ==
  /\ cli = "fill"
  /\ data' = call /\ pts' = call /\ cli' = "post"
  /\ UNCHANGED <<call, kind, missed, shown, word, fedPts, fedData>>
  /\ UNCHANGED <<srvVars, chanVars>>

ResetDirectShow == seek

(* timed_sempost: with nobody connected the byte goes nowhere (where       *)
(* SIGPIPE is not ignored, this is playerDies).                            *)
Arrived == IF conn = "accepted" /\ ~ServerGone THEN toSrv + 1 ELSE toSrv

MythPost ==
  /\ cli = "post"
  /\ toSrv' = Arrived /\ cli' = "wait"
  /\ UNCHANGED <<call, kind, missed, shown, toCli, conn, reset, names>>
  /\ UNCHANGED <<srvVars, shmVars>>

(* timed_semwait of a semaphore that is not initialized accepts: a server  *)
(* that comes up late is taken for an answer.                              *)
MythAccepts ==
  /\ cli = "wait" /\ conn = "backlog"
  /\ conn' = "accepted" /\ cli' = "reply"
  /\ UNCHANGED <<call, kind, missed, shown, toSrv, toCli, reset, names>>
  /\ UNCHANGED <<srvVars, shmVars>>

MythAnswered  == conn = "accepted" /\ waitOk
MythWaitFails == conn # "backlog" /\ waitFails

(* A picture is taken when the wait returned 1 and vd->ret is positive;    *)
(* without --numpages it lies in `picture'.                                *)
MythCollect ==
  /\ cli = "reply" /\ cli' = "idle"
  /\ shown' = IF kind = VD_DECODE /\ word > 0
                THEN [call |-> call, pts |-> fedPts, data |-> fedData, page |-> -1]
                ELSE NoFrame
  /\ UNCHANGED <<call, kind, missed>>
  /\ UNCHANGED <<srvVars, shmVars, chanVars>>

(* DestroyDirectShow: VD_END, and the socket is closed.                    *)
DestroyDirectShow ==
  /\ cli = "idle" /\ cli' = "closed"
  /\ word' = VD_END /\ toSrv' = Arrived
  /\ reset' = (toCli > 0 \/ conn = "backlog")
  /\ UNCHANGED <<call, kind, missed, shown, pts, data, fedPts, fedData>>
  /\ UNCHANGED <<toCli, conn, names>>
  /\ UNCHANGED srvVars

MythInit ==
  /\ Init
  /\ build = IF PrintedPort = 0 THEN "semaphore" ELSE "socket"

MythNext ==
  \/ InitDirectShow \/ InitDirectShowUnmapped \/ InitDirectShowWait
  \/ DecodeDirectShowVideo \/ DecodeDirectShowFill \/ ResetDirectShow
  \/ MythPost \/ MythAccepts \/ MythAnswered \/ MythWaitFails \/ MythCollect
  \/ DestroyDirectShow \/ playerDies
  \/ ServerStep \/ codecCrash

MythSpec == MythInit /\ [][MythNext]_vars
---------------------------------------------------------------------------
(* README:34, "the mplayer and mythtv patches should work properly": a     *)
(* server that has found and started its codec while the player waits for  *)
(* it is not turned away.                                                  *)
ServerIsTaken == why = "seminit" => cli # "spawned"
============================================================================
