------------------------------ MODULE MCLoops ------------------------------
(***************************************************************************)
(* Six components that share no state, in one run: what is asked of each   *)
(* is that something of it ends.  Only one component takes steps, so that  *)
(* the instances add up instead of multiplying; its fairness is the one    *)
(* its module states.                                                      *)
(***************************************************************************)
EXTENDS RoundRobin, StreamReader, AuthSession, DanmakuClient, FallbackClient,
        RoomCache

VARIABLE part   \* the component that runs

allVars == <<part, vars, readerVars, authVars, wsVars, fbVars, roomVars>>

\* A component that does not run has one initial state.
MCInit ==
    /\ Init /\ ReaderInit /\ AuthInit /\ WsInit /\ FbInit /\ RoomInit
    /\ part \in {"round robin", "reader", "auth", "danmaku", "fallback", "rooms"}
    /\ part # "round robin" => ready = [p \in Participants |-> FALSE]
    /\ part # "auth" => mode = Controller
    /\ part # "danmaku" => policy = "drop"
    /\ part # "fallback" => ~riskControl

MCNext ==
    /\ UNCHANGED part
    /\ \/ /\ part = "round robin" /\ Next
          /\ UNCHANGED <<readerVars, authVars, wsVars, fbVars, roomVars>>
       \/ /\ part = "reader" /\ ReaderNext
          /\ UNCHANGED <<vars, authVars, wsVars, fbVars, roomVars>>
       \/ /\ part = "auth" /\ AuthNext
          /\ UNCHANGED <<vars, readerVars, wsVars, fbVars, roomVars>>
       \/ /\ part = "danmaku" /\ WsNext
          /\ UNCHANGED <<vars, readerVars, authVars, fbVars, roomVars>>
       \/ /\ part = "fallback" /\ FbNext
          /\ UNCHANGED <<vars, readerVars, authVars, wsVars, roomVars>>
       \/ /\ part = "rooms" /\ RoomNext
          /\ UNCHANGED <<vars, readerVars, authVars, wsVars, fbVars>>

OnLoops(A) == part = "round robin" /\ A
OnReader(A) == part = "reader" /\ A
OnAuth(A) == part = "auth" /\ A
OnDanmaku(A) == part = "danmaku" /\ A
OnFallback(A) == part = "fallback" /\ A
OnRooms(A) == part = "rooms" /\ A

MCFairness ==
    /\ \A l \in Loops : WF_vars(OnLoops(loop(l))) /\ SF_vars(OnLoops(LoopStops(l)))
    /\ \A p \in Participants : WF_vars(OnLoops(Receive(p)))
    /\ WF_readerVars(OnReader(BeginRead \/ SelectDone)) /\ WF_readerVars(OnReader(LeaveReader))
    /\ WF_readerVars(OnReader(SendChunk \/ SendCancelled))
    /\ WF_readerVars(OnReader((ctxDone \/ ~bodyOpen) /\ ReaderFails))
    /\ WF_readerVars(OnReader(TimerExpires)) /\ WF_readerVars(OnReader(Fire))
    /\ WF_readerVars(OnReader(ReceiveChunk)) /\ WF_readerVars(OnReader(ProcessChunk))
    /\ \A r \in InitRequests : WF_authVars(OnAuth(Refused(r) \/ Hold(r) \/ NoCode(r) \/ Code(r)))
    /\ WF_authVars(OnAuth(PerformQRLogin))
    /\ WF_wsVars(OnDanmaku(Connection)) /\ WF_wsVars(OnDanmaku(HeartbeatCloses))
    /\ WF_wsVars(OnDanmaku(beat = "failed" /\ ServerCloses))
    /\ WF_fbVars(OnFallback(TimePasses))
    /\ \A c \in Callers :
          /\ WF_fbVars(OnFallback(Do(c))) /\ WF_fbVars(OnFallback(ShouldProbe(c)))
          /\ WF_fbVars(OnFallback(Answer(c))) /\ WF_fbVars(OnFallback(OnProbe(c)))
          /\ WF_fbVars(OnFallback(OnPrimary(c))) /\ WF_fbVars(OnFallback(OnAccount(c)))
    /\ \A i \in RoomIds :
          WF_roomVars(OnRooms(SoftExpires(i))) /\ WF_roomVars(OnRooms(HardExpires(i)))

MCSpec == MCInit /\ [][MCNext]_allVars /\ MCFairness
=============================================================================
