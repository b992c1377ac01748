----------------------------- MODULE AsrVendors -----------------------------
(***************************************************************************)
(* The streaming recognition session of AsrStream together with what it    *)
(* owes its recognizer's circuit breaker (settleBreaker): Deepgram's, with *)
(* a keepalive goroutine, and Sarvam's (pkg/asr/sarvam.go), without.  The  *)
(* breaker admitted the stream when it was opened, and waits to be told    *)
(* once how the first connection went - by whichever goroutine knows.      *)
(***************************************************************************)
EXTENDS AsrStream, Sequences

VARIABLES
  vendor,   \* "deepgram" or "sarvam"
  settled,  \* s.breakerSettled
  owed,     \* ensureConnected has still to call recordSuccess
  told      \* history: what the breaker was told, in order

vendorVars == <<vendor, settled, owed, told>>

Report == {"success", "failure", "abort"}

VendorsInit ==
  /\ Init
  /\ vendor \in {"deepgram", "sarvam"}
  /\ settled = FALSE /\ owed = FALSE /\ told = <<>>

Tell(report) == told' = Append(told, report)

\* settleBreaker: reports what the first caller has to say.
SettleBreaker(reports) ==
  IF settled THEN UNCHANGED <<settled, told>>
  ELSE settled' = TRUE /\ \E r \in reports : Tell(r)

\* A failure met before anything settled, unless the dial was cancelled or ran
\* into its own deadline, which says nothing of the vendor.
GaveUp == {"failure", "abort"}

\* failAndClose of the pushing goroutine settles in the same breath: nobody else
\* dials, and a Close that finds the stream closed leaves it alone.
FailSettles ==
  /\ IF closed THEN UNCHANGED <<settled, told>> ELSE SettleBreaker(GaveUp)
  /\ UNCHANGED owed

\* Mutant: a connection made after the outcome was settled is reported too.
DialledReportsAgain(from, to) ==
  /\ DialSucceeds(from, to)
  /\ owed' = TRUE /\ settled' = TRUE
  /\ UNCHANGED <<vendor, told>>

\* firstConnect is decided under s.mu ...
Dialled(from, to) ==
  /\ DialSucceeds(from, to)
  /\ owed' = ~settled /\ settled' = TRUE
  /\ UNCHANGED <<vendor, told>>

\* ... and reported once s.mu is released, just before the workers start.
WorkersStart(from, to) ==
  /\ StartWorkers(from, to)
  /\ gen \in keepAlive' <=> vendor = "deepgram"
  /\ IF owed THEN Tell("success") ELSE UNCHANGED told
  /\ owed' = FALSE
  /\ UNCHANGED <<vendor, settled>>

PushFailsAndSettles ==
  /\ \/ ConnectRefused("connect") \/ ConnectRefused("reconnect")
     \/ DialFails("dial") \/ DialFails("redial")
     \/ SecondWriteFails
  /\ FailSettles
  /\ UNCHANGED vendor

PushGoesOn ==
  /\ \/ PushBegins
     \/ ConnectNoop("reconnect", "rewrite")
     \/ Dial("connect", "dial") \/ Dial("reconnect", "redial")
     \/ WriteOk("write") \/ WriteOk("rewrite")
     \/ FirstWriteFails
  /\ UNCHANGED vendorVars

VendorPush ==
  \/ PushGoesOn \/ PushFailsAndSettles
  \/ Dialled("dial", "dialled") \/ Dialled("redial", "redialled")
  \/ WorkersStart("dialled", "write") \/ WorkersStart("redialled", "rewrite")

\* The reader's failAndClose comes after the connection was reported or, if the
\* recordSuccess is still owed, leaves it to its goroutine.
VendorWorkers(g) ==
  \/ (Workers(g) \/ VendorDrops(g)) /\ UNCHANGED vendorVars
  \/ ReadsError(g) /\ FailSettles /\ UNCHANGED vendor

\* Close settles once it has let go of s.mu: a dial may have succeeded meanwhile.
CloseSettles ==
  /\ CloseFlushes \/ CloseCancels
  /\ SettleBreaker({"abort"})
  /\ UNCHANGED <<vendor, owed>>

CloseGoesOn ==
  /\ CloseBegins \/ CloseShuts \/ CloseWaits \/ CloseEnds \/ Finish
  /\ UNCHANGED vendorVars

VendorsNext ==
  \/ VendorPush
  \/ \E g \in Gen : VendorWorkers(g)
  \/ CloseSettles \/ CloseGoesOn
  \/ (Take \/ ParentCancels) /\ UNCHANGED vendorVars

VendorsSpec == VendorsInit /\ [][VendorsNext]_<<vars, vendorVars>>

-----------------------------------------------------------------------------
\* Every goroutine of the stream runs, as in AsrStream's IdleSpec.
VendorsFairness ==
  /\ WF_<<vars, vendorVars>>(VendorPush /\ ~PushBegins)
  /\ WF_<<vars, vendorVars>>(CloseSettles)
  /\ WF_<<vars, vendorVars>>(CloseGoesOn /\ ~CloseBegins)
  /\ \A g \in Gen : /\ WF_<<vars, vendorVars>>(SendAbandoned(g) /\ UNCHANGED vendorVars)
                    /\ WF_<<vars, vendorVars>>(ReaderEnds(g) /\ UNCHANGED vendorVars)
                    /\ WF_<<vars, vendorVars>>(KeepAliveEnds(g) /\ UNCHANGED vendorVars)
                    /\ WF_<<vars, vendorVars>>(closed /\ VendorDrops(g) /\ UNCHANGED vendorVars)

\* The comment on breakerSettled: the breaker hears of a stream once, whichever
\* of the dial, a fatal error and Close comes first.  Twice would count one
\* stream as two; never would hold the probe slot for good.  And a stream that
\* connected is never held against the vendor.
ToldOnce ==
  /\ Len(told) <= 1
  /\ closes > 0 /\ pusher = "idle" => Len(told) = 1
  /\ told = <<"failure">> => gen = 0
=============================================================================
