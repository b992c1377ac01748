------------------------------ MODULE MCParts ------------------------------
(* The parts around a session, checked in one run: a behaviour is about one *)
(* of them, its subject, and leaves the others as they start.              *)
EXTENDS Recorder, Media, Frames, Shutdown, Quality, MockCall, Selection

VARIABLE subject

Load(a, b, c) == [packets |-> a, chunks |-> b, candidates |-> c]
SomeLoads == {Load(3, 0, 0), Load(0, 2, 0), Load(1, 1, 0), Load(1, 0, 2)}

\* Around the limits of the two short lengths, and over the limit of a frame.
SomeSizes == {125, 126, 65536, 16 * 1024 * 1024 + 1}

\* Base and cap in milliseconds: the vendors' retries, and a reconnection of ASR.
SomeDelays == {[base |-> 150, cap |-> 1200], [base |-> 250, cap |-> 5000]}

\* The languages of a call, one that no backend knows among them.
SomeWanted == {[caller |-> "hi", agent |-> "en"], [caller |-> "ta", agent |-> "en"]}

Env(a, b, c) == [asr |-> a, mt |-> b, tts |-> c]
SomeEnvs == {Env("", "", ""), Env("deepgram", "", ""), Env("deepgram", "gpt4o", "cartesia"),
             Env("sarvam", "gemini", "elevenlabs")}

\* On the roster, not on it, the zero value, and in a language without voices.
Persona(key, lang) == [voice |-> key, lang |-> lang]
SomePersonas == {Persona(<<"agent-female", "hi">>, "hi"), Persona(<<"custom", "">>, "hi"),
                 Persona(<<"", "">>, ""), Persona(<<"custom", "">>, "ta")}

partsVars == <<subject, recorderVars, mediaVars, framesVars, shutdownVars, qualityVars, mockVars,
               selectionVars>>

PartsInit ==
  /\ subject \in {"recorder", "media", "frames", "shutdown", "quality", "mocks", "selection"}
  /\ RecorderInit /\ MediaInit /\ FramesInit /\ ShutdownInit /\ QualityInit
  /\ MockInit /\ SelectionInit
  /\ subject # "media" => load = Load(3, 0, 0)
  /\ subject # "shutdown" => command = "serve"
  /\ subject # "quality" => measured = "latencies"
  /\ subject # "mocks" => use = "call"
  /\ subject # "selection" => keys = {}
  /\ measured # "delays" => delay.base = 150

PartsNext ==
  \/ /\ subject = "recorder" /\ RecorderNext
     /\ UNCHANGED <<subject, mediaVars, framesVars, shutdownVars, qualityVars, mockVars, selectionVars>>
  \/ /\ subject = "media" /\ MediaNext
     /\ UNCHANGED <<subject, recorderVars, framesVars, shutdownVars, qualityVars, mockVars, selectionVars>>
  \/ /\ subject = "frames" /\ FramesNext
     /\ UNCHANGED <<subject, recorderVars, mediaVars, shutdownVars, qualityVars, mockVars, selectionVars>>
  \/ /\ subject = "shutdown" /\ ShutdownNext
     /\ UNCHANGED <<subject, recorderVars, mediaVars, framesVars, qualityVars, mockVars, selectionVars>>
  \/ /\ subject = "quality" /\ QualityNext
     /\ UNCHANGED <<subject, recorderVars, mediaVars, framesVars, shutdownVars, mockVars, selectionVars>>
  \/ /\ subject = "mocks" /\ MockNext
     /\ UNCHANGED <<subject, recorderVars, mediaVars, framesVars, shutdownVars, qualityVars, selectionVars>>
  \/ /\ subject = "selection" /\ SelectionNext
     /\ UNCHANGED <<subject, recorderVars, mediaVars, framesVars, shutdownVars, qualityVars, mockVars>>

\* The goroutines of a command go on, but for the return of Session.Close; nobody
\* has to send the signal.
PartsSpec ==
  /\ PartsInit /\ [][PartsNext]_partsVars
  /\ WF_partsVars(subject = "shutdown" /\ PartsNext /\ MainStep)
  /\ WF_partsVars(subject = "shutdown" /\ PartsNext /\ DashStep)
  /\ WF_partsVars(subject = "shutdown" /\ PartsNext /\ ServerStep)
=============================================================================
