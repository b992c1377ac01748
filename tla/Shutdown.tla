------------------------------ MODULE Shutdown ------------------------------
(***************************************************************************)
(* The commands that run until a signal: serve (cmd/langstream/main.go),   *)
(* duplex (duplex.go) and webrtc (webrtc.go).  serve and duplex keep a      *)
(* session and, in a goroutine, the dashboard; serveDashboard runs its      *)
(* HTTP server in another.  webrtc waits for its HTTP server itself; its     *)
(* rooms open and close sessions while the server's sockets last.  Each     *)
(* goroutine hands one result over in a channel of capacity one.           *)
(*                                                                         *)
(* Session.Close is synchronous and waits for the streams of the recogniser *)
(* (session.go:388-393), as long as they take: its return is a step of its   *)
(* own, which nothing makes happen.                                        *)
(***************************************************************************)
EXTENDS Naturals

VARIABLES
  command,    \* "serve", "duplex" or "webrtc"
  addr,       \* whether the dashboard has an address (duplex may do without)
  signalled,  \* the context of the signal is done
  main,       \* where the command is
  session,    \* "none", "open", "closing" (in its Close) or "closed"; of webrtc
              \* whether any room has one, "none" or "open"
  legs,       \* the DuplexSession: "none", "built", "started" or "stopped"
  dash,       \* where serveDashboard is
  server,     \* where the goroutine of ListenAndServe is
  listening,  \* http.Server: "no", "yes", "down" (Shutdown was called)
  failed,     \* history: the address could not be listened on
  serveErr,   \* the channel serveErr: "empty", "nil" or "error"
  dashErr,    \* the channel dashboardErr
  result      \* what the command returns: "none", "nil" or where its first error is from

shutdownVars == <<command, addr, signalled, main, session, legs, dash, server,
                  listening, failed, serveErr, dashErr, result>>

ShutdownInit ==
  /\ command \in {"serve", "duplex", "webrtc"}
  /\ addr \in IF command = "duplex" THEN BOOLEAN ELSE {TRUE}
  /\ signalled = FALSE
  /\ main = "build"
  /\ session = "none" /\ legs = "none"
  /\ dash = "none" /\ server = "none"
  /\ listening = "no" /\ failed = FALSE
  /\ serveErr = "empty" /\ dashErr = "empty"
  /\ result = "nil"

\* The first error is kept.
FirstErr(err) == result' = IF result = "nil" THEN err ELSE result

http == <<server, listening, failed, serveErr>>

-----------------------------------------------------------------------------
(* The command.                                                            *)

Signal ==
  /\ ~signalled /\ signalled' = TRUE
  /\ UNCHANGED <<command, addr, main, session, legs, dash, http, dashErr, result>>

\* newSession: unknown or unready backends.
BuildFails ==
  /\ main = "build" /\ command # "webrtc"
  /\ main' = "done" /\ FirstErr("build")
  /\ UNCHANGED <<command, addr, signalled, session, legs, dash, http, dashErr>>

BuildsSession ==
  /\ main = "build" /\ command # "webrtc"
  /\ session' = "open"
  /\ main' = IF command = "duplex" THEN "legs" ELSE "launch"
  /\ UNCHANGED <<command, addr, signalled, legs, dash, http, dashErr, result>>

\* buildDuplexSession: a suppressor or the RTP legs cannot be made, and the session
\* is closed again.
LegsFail ==
  /\ main = "legs"
  /\ main' = "undo" /\ FirstErr("legs") /\ session' = "closing"
  /\ UNCHANGED <<command, addr, signalled, legs, dash, http, dashErr>>

BuildsLegs ==
  /\ main = "legs" /\ legs' = "built"
  /\ main' = "launch"
  /\ UNCHANGED <<command, addr, signalled, session, dash, http, dashErr, result>>

\* The goroutine of the dashboard, then the legs; webrtc starts its server.
Launches ==
  /\ \/ main = "launch" /\ dash' = (IF addr THEN "start" ELSE "none") /\ UNCHANGED server
     \/ main = "build" /\ command = "webrtc" /\ server' = "run" /\ UNCHANGED dash
  /\ legs' = IF legs = "built" THEN "started" ELSE legs
  /\ main' = "wait"
  /\ UNCHANGED <<command, addr, signalled, session, listening, failed, serveErr, dashErr, result>>

\* The call of Session.Close.
ClosesSession ==
  /\ main = "wait" /\ command # "webrtc" /\ signalled
  /\ session' = "closing" /\ main' = "close"
  /\ UNCHANGED <<command, addr, signalled, legs, dash, http, dashErr, result>>

\* It returns, maybe with an error, which counts unless there is one already.
SessionCloseReturns ==
  /\ session = "closing" /\ session' = "closed"
  /\ \/ main = "undo" /\ main' = "done" /\ UNCHANGED result
     \/ /\ main = "close" /\ main' = (IF command = "duplex" THEN "stop" ELSE "join")
        /\ UNCHANGED result \/ FirstErr("session")
  /\ UNCHANGED <<command, addr, signalled, legs, dash, http, dashErr>>

\* The grace for the last chunk, then DuplexSession.Stop.
StopsLegs ==
  /\ main = "stop"
  /\ legs' = "stopped"
  /\ UNCHANGED result \/ FirstErr("legs")
  /\ main' = IF addr THEN "join" ELSE "done"
  /\ UNCHANGED <<command, addr, signalled, session, dash, http, dashErr>>

JoinsDashboard ==
  /\ main = "join" /\ dashErr # "empty"
  /\ dashErr' = "empty"
  /\ IF dashErr = "error" THEN FirstErr("dashboard") ELSE UNCHANGED result
  /\ main' = "done"
  /\ UNCHANGED <<command, addr, signalled, session, legs, dash, http>>

\* duplexShutdownGrace; serve waits without a limit.
GivesDashboardUp ==
  /\ main = "join" /\ command = "duplex"
  /\ FirstErr("dashboard") /\ main' = "done"
  /\ UNCHANGED <<command, addr, signalled, session, legs, dash, http, dashErr>>

\* serveWebRTC: the error of the server, or the signal and Shutdown.
WebServerFails ==
  /\ main = "wait" /\ command = "webrtc" /\ serveErr = "error"
  /\ serveErr' = "empty" /\ FirstErr("server") /\ main' = "done"
  /\ UNCHANGED <<command, addr, signalled, session, legs, dash, server, listening, failed, dashErr>>

WebShutsDown ==
  /\ main = "wait" /\ command = "webrtc" /\ signalled
  /\ listening' = "down"
  /\ UNCHANGED result \/ FirstErr("server")
  /\ main' = "done"
  /\ UNCHANGED <<command, addr, signalled, session, legs, dash, server, failed, serveErr, dashErr>>

\* The rooms of webrtc: one opens or the last one closes (Rooms).  A socket outlives
\* http.Server.Shutdown, which does not know of it any more.
RoomsChange ==
  /\ command = "webrtc" /\ main # "done" /\ listening # "no"
  /\ session' = IF session = "open" THEN "none" ELSE "open"
  /\ UNCHANGED <<command, addr, signalled, main, legs, dash, http, dashErr, result>>

\* What the command does by itself.
MainStep ==
  \/ BuildFails \/ BuildsSession \/ LegsFail \/ BuildsLegs \/ Launches \/ ClosesSession
  \/ StopsLegs \/ JoinsDashboard \/ GivesDashboardUp \/ WebServerFails \/ WebShutsDown

-----------------------------------------------------------------------------
(* serveDashboard.                                                         *)

dashFrame == <<command, addr, signalled, main, session, legs, failed, result>>

DashStarts ==
  /\ dash = "start" /\ dash' = "wait" /\ server' = "run"
  /\ UNCHANGED <<dashFrame, listening, serveErr, dashErr>>

\* The server stopped on its own.
DashSeesError ==
  /\ dash = "wait" /\ serveErr = "error"
  /\ serveErr' = "empty"
  /\ dashErr' = "error" /\ dash' = "done"
  /\ UNCHANGED <<dashFrame, server, listening>>

\* Shutdown: all connections end within the grace, or not.
DashShutsDown ==
  /\ dash = "wait" /\ signalled
  /\ listening' = "down"
  /\ \/ dash' = "drain" /\ UNCHANGED dashErr
     \/ dash' = "done" /\ dashErr' = "error"
  /\ UNCHANGED <<dashFrame, server, serveErr>>

\* return <-serveErr.
DashDrains ==
  /\ dash = "drain" /\ serveErr # "empty"
  /\ dashErr' = serveErr /\ serveErr' = "empty" /\ dash' = "done"
  /\ UNCHANGED <<dashFrame, server, listening>>

DashStep == DashStarts \/ DashSeesError \/ DashShutsDown \/ DashDrains

-----------------------------------------------------------------------------
(* The goroutine of ListenAndServe.                                        *)

serverFrame == <<command, addr, signalled, main, session, legs, dash, dashErr, result>>

Listens ==
  /\ server = "run" /\ listening = "no" /\ listening' = "yes"
  /\ UNCHANGED <<serverFrame, server, failed, serveErr>>

CannotListen ==
  /\ server = "run" /\ listening = "no"
  /\ failed' = TRUE /\ serveErr' = "error" /\ server' = "done"
  /\ UNCHANGED <<serverFrame, listening>>

\* Mutant: a channel without a buffer, which the sender waits on for a reader.
ServerEndsRead ==
  /\ server = "run" /\ listening = "down"
  /\ dash = "drain"
  /\ serveErr' = IF command = "webrtc" THEN serveErr ELSE "nil"
  /\ server' = "done"
  /\ UNCHANGED <<serverFrame, listening, failed>>

\* ErrServerClosed; webrtc's goroutine has nothing to say then.
ServerEnds ==
  /\ server = "run" /\ listening = "down"
  /\ serveErr' = IF command = "webrtc" THEN serveErr ELSE "nil"
  /\ server' = "done"
  /\ UNCHANGED <<serverFrame, listening, failed>>

ServerStep == Listens \/ CannotListen \/ ServerEnds

ShutdownNext ==
  Signal \/ RoomsChange \/ MainStep \/ SessionCloseReturns \/ DashStep \/ ServerStep

-----------------------------------------------------------------------------
(* Properties.                                                             *)

\* Nothing is left of serve and duplex: no session, no legs.  The sessions of
\* webrtc's rooms are left to the end of the process (webrtc.go:161-178).
NothingLeft ==
  /\ main = "done"
  /\ legs # "started"
  /\ command # "webrtc" => session \in {"none", "closed"}

\* The goroutines of the dashboard and of the HTTP server are gone.
ServersEnded == dash \in {"none", "done"} /\ server \in {"none", "done"}

\* serve and duplex report that their dashboard never listened.
FailureReported == failed /\ command # "webrtc" => result # "nil"

\* After the signal the servers of a command end for good, whatever failed and
\* whichever of its channels nobody reads any more; and the command ends, leaves
\* nothing behind and reports a dashboard that could not listen, unless it stays in
\* Session.Close, whose "(or timed out)" of main.go:423-424 the streams do not keep
\* (main.go:432-487, duplex.go:184-297, webrtc.go:161-178).
RunEnds ==
  <>[](signalled => /\ ServersEnded
                    /\ session = "closing" \/ (NothingLeft /\ FailureReported))

=============================================================================
