------------------------------ MODULE Selection ------------------------------
(***************************************************************************)
(* What a call is made of: the backend of each leg of the pipeline, by name *)
(* (pkg/langstream/backends.go, newSession of cmd/langstream/main.go), the  *)
(* language each recogniser listens for, the persona of each language       *)
(* (personas.go) and the voice a synthesizer takes for it                   *)
(* (pkg/tts/cartesia_voices.go, elevenlabs_voices.go).                      *)
(*                                                                         *)
(* A name such as "agent-male-hi" is a pair of a role and a language.  Of   *)
(* the commands a call is started by, only what they select is here.        *)
(***************************************************************************)
EXTENDS Integers

CONSTANTS
  Wanted,    \* the pairs of languages of a call
  Envs,      \* the variables of the environment, "" when not set
  Personas,  \* the personas somebody sets
  MaxSets    \* bound: registrations before a call, and personas set in it

ASSUME SelectionAssumption ==
  /\ \A w \in Wanted : w.caller # "" /\ w.agent # ""  \* SessionConfig.validate
  /\ \A e \in Envs : DOMAIN e = {"asr", "mt", "tts"}
  /\ \A p \in Personas : DOMAIN p = {"voice", "lang"}
  /\ MaxSets \in Nat

VARIABLES
  registry,  \* defaultRegistry: of each leg, the constructor under a name
  keys,      \* the vendors whose API key is in the environment
  sets,      \* registrations, then personas set
  call,      \* the session, or what became of it
  personas,  \* PersonaManager.personas
  asked,     \* history: the personas set, each with the language it was set for
  holds,     \* the persona each side's leg has looked up, and not used yet
  said       \* the last request for a synthesis

selectionVars == <<registry, keys, sets, call, personas, asked, holds, said>>

None == [none |-> TRUE]
Stages == {"asr", "mt", "tts"}
Sides == {"caller", "agent"}
Known == {"en", "hi"}

-----------------------------------------------------------------------------
(* Voices.                                                                 *)

NoVoice == <<"", "">>

Roster(lang) == {"default", "agent-male", "agent-female"} \X {lang}

\* cartesiaVoices: no voice has two names.
CartesiaVoices == [lang \in Known |-> [key \in Roster(lang) |-> key]]

\* elevenlabsVoices: two voices for all of them, George and Sarah.
ElevenLabsVoices ==
  [lang \in Known |-> [key \in Roster(lang) |->
     IF key \in {<<"default", "en">>} \cup ({"agent-male"} \X Known) 
       THEN <<"George", "en">> ELSE <<"Sarah", "hi">>]]

VoicesOf(vendor) == IF vendor = "elevenlabs" THEN ElevenLabsVoices ELSE CartesiaVoices

\* The language a persona is spoken in.
SpokenIn(p) == IF p.lang = "" THEN "en" ELSE p.lang

voiceFor(vendor, p) ==
  LET table == VoicesOf(vendor)
      lang == IF SpokenIn(p) \in DOMAIN table THEN SpokenIn(p) ELSE "en"
  IN  IF p.voice \in DOMAIN table[lang] THEN table[lang][p.voice] ELSE table[lang][<<"default", lang>>]

\* The mock has no language to fall back to.
CanSpeak(vendor, p) == IF vendor = "mock" THEN p.lang \in Known ELSE SpokenIn(p) \in Known

-----------------------------------------------------------------------------
(* Backends.                                                               *)

Vendors == [asr |-> {"deepgram", "sarvam"}, mt |-> {"gpt4o", "gemini"},
            tts |-> {"cartesia", "elevenlabs"}]
AllVendors == UNION {Vendors[s] : s \in Stages}

\* newBackendRegistry and the init of the command line.
Registered == [s \in Stages |-> [name \in Vendors[s] \cup {"mock"} |-> name]]

\* The name of a stage: the flag, else its variable, else the mock.
resolveBackend(flag, env) ==
  IF flag # "" THEN flag ELSE IF env # "" THEN env ELSE "mock"

\* newASR, newTranslator, newTTS, and the constructor they call.
Constructs(s, name) ==
  /\ name \in DOMAIN registry[s]
  /\ registry[s][name] \in keys \cup {"mock"}

\* The language a recogniser listens for, when none is hinted at.
Hinted(vendor, hint) ==
  IF hint # "" THEN hint ELSE IF vendor = "sarvam" THEN "hi" ELSE "en"

\* The languages it then understands: Sarvam transcribes a mix, and so does the
\* model Deepgram is connected with for Hindi.
Understands(vendor, hint) ==
  IF vendor = "sarvam" \/ (vendor = "deepgram" /\ Hinted(vendor, hint) = "hi")
    THEN Known ELSE {Hinted(vendor, hint)}

\* The pairs of a translator: MockTranslator.supports and its kin.
Supports(source, target) == <<source, target>> \in {<<"hi", "en">>, <<"en", "hi">>}

Other(side) == IF side = "caller" THEN "agent" ELSE "caller"

\* What StartStream is told of the language of a side.
Hint(c, side) == IF c.switching THEN "" ELSE c.lang[side]

-----------------------------------------------------------------------------
(* A call.                                                                 *)

SelectionInit ==
  /\ registry = Registered
  /\ keys \in {{}, AllVendors}
  /\ sets = 0 /\ call = None
  /\ personas = [lang \in {} |-> None] /\ asked = {}
  /\ holds = [side \in Sides |-> None]
  /\ said = None

\* RegisterASRBackend and its kin: a name that is taken is taken over.
Registers ==
  /\ call = None /\ sets < MaxSets
  /\ \E s \in Stages : \E name \in Vendors[s] :
       registry' = [registry EXCEPT ![s][name] = "mock"]
  /\ sets' = sets + 1
  /\ UNCHANGED <<keys, call, personas, asked, holds, said>>

\* Mutant: a persona is kept under its own language.
SetUnderItsOwn(lang, p) == [l \in DOMAIN personas \cup {p.lang} |-> IF l = p.lang THEN p ELSE personas[l]]

\* PersonaManager.Set.
Set(lang, p) == [l \in DOMAIN personas \cup {lang} |-> IF l = lang THEN p ELSE personas[l]]

\* PersonaManager.Get.
Get(lang) ==
  IF lang \in DOMAIN personas THEN personas[lang]
  ELSE [voice |-> <<"default", lang>>, lang |-> lang]

\* newSession and NewSession: no synthesizer is asked for its languages.
StartsCall ==
  /\ call = None
  /\ \E flag \in {"", "mock"} \cup AllVendors, wanted \in Wanted, switching \in BOOLEAN,
        env \in Envs, voice \in Personas \cup {None} :
       LET name == [s \in Stages |-> resolveBackend(flag, env[s])]
           made == [flag |-> flag, env |-> env, switching |-> switching, lang |-> wanted,
                    uses |-> [s \in Stages |-> registry[s][name[s]]]]
       IN  /\ \A s \in Stages : Constructs(s, name[s])
           /\ \A side \in Sides : Hinted(made.uses.asr, Hint(made, side)) \in Known
           /\ call' = made
           /\ personas' = IF voice = None THEN personas ELSE Set(voice.lang, voice)
           /\ asked' = IF voice = None THEN asked ELSE asked \cup {<<voice.lang, voice>>}
  /\ sets' = 0
  /\ UNCHANGED <<registry, keys, holds, said>>

\* Session.Personas and Set, while the legs run.
SetsPersona ==
  /\ call # None /\ sets < MaxSets
  /\ \E side \in Sides, p \in Personas :
       /\ personas' = Set(call.lang[side], p)
       /\ asked' = asked \cup {<<call.lang[side], p>>}
  /\ sets' = sets + 1
  /\ UNCHANGED <<registry, keys, call, holds, said>>

\* A leg has a translation, and takes the persona of the language it is in.
TakesPersona(side) ==
  /\ call # None /\ holds[side] = None
  /\ Supports(call.lang[side], call.lang[Other(side)])
  /\ holds' = [holds EXCEPT ![side] = Get(call.lang[Other(side)])]
  /\ UNCHANGED <<registry, keys, sets, call, personas, asked, said>>

\* SynthesizeStream: the request of the vendor, or no request.
Requests(side) ==
  LET p == holds[side]
      vendor == call.uses.tts
  IN  /\ p # None
      /\ said' = [side |-> side, persona |-> p, lang |-> SpokenIn(p),
                  voice |-> IF CanSpeak(vendor, p) THEN voiceFor(vendor, p) ELSE NoVoice]
      /\ holds' = [holds EXCEPT ![side] = None]
      /\ UNCHANGED <<registry, keys, sets, call, personas, asked>>

SelectionNext ==
  \/ Registers \/ StartsCall \/ SetsPersona
  \/ \E side \in Sides : TakesPersona(side) \/ Requests(side)

SelectionSpec == SelectionInit /\ [][SelectionNext]_selectionVars

-----------------------------------------------------------------------------
(* Properties.                                                             *)

\* A side is understood in its own language unless nobody knows it or the call
\* switches languages: then Sarvam still does, and any other recogniser takes the
\* missing hint for English, and not for a language to detect, as session.go:66-71
\* has it (deepgram.go, MockRecognizer.StartStream).
SidesUnderstood ==
  call # None =>
    \A side \in Sides :
      LET lang == call.lang[side] IN
      lang \in Understands(call.uses.asr, Hint(call, side))
        <=> lang \in Known /\ (call.switching => call.uses.asr = "sarvam" \/ lang = "en")

\* Whatever personas are set before the call and in it, for either side and in
\* between a leg's lookup and its request: a side is heard in the default voice of
\* its listener's language, or in a persona that somebody set for that very
\* language (PersonaManager.Get and Set, session.go:651, voiceFor).  Setting the
\* zero persona counts: it does not revert to the default voice, as
\* personas.go:49-53 begins by saying, but is spoken in English.
VoicesAskedFor ==
  said # None =>
    LET lang == call.lang[Other(said.side)] IN
    \/ said.voice = VoicesOf(call.uses.tts)[lang][<<"default", lang>>]
    \/ <<lang, said.persona>> \in asked

\* Each side is understood, and heard, as the call was configured.
CallFits == SidesUnderstood /\ VoicesAskedFor
=============================================================================
