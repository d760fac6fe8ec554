-------------------------- MODULE WizardPage_proofs --------------------------
(* Theorems about WizardPage, for every set of images and any number of     *)
(* changes and requests.                                                    *)
EXTENDS WizardPage, FiniteSetTheorems, TLAPS

(* The records that the page and the server keep.                           *)
Message(m) ==
  /\ m = [kind |-> m.kind, body |-> m.body, heard |-> m.heard, answer |-> m.answer]
  /\ m.kind \in {"autosave", "annotation", "final", "launch"}
  /\ m.kind # "launch" => DOMAIN m.body \subseteq Fields
PageShape ==
  /\ draft = [status |-> draft.status, payload |-> draft.payload]
  /\ DOMAIN draft.payload = Fields /\ DOMAIN form = Fields
  /\ quote = [shown |-> quote.shown, loading |-> quote.loading, awaited |-> quote.awaited]
  /\ \A m \in flight : Message(m)

(* The quote that is awaited is the one for what the form says.             *)
QuoteAwaited ==
  /\ \A i \in quoting : i.type # Unset
  /\ form.kind # Unset => quote.awaited = InputsOf(form)
  /\ form.kind = Unset => quote.awaited = NoInputs /\ quote.shown = NoInputs
  /\ ~quote.loading => quote.shown \in {NoInputs, quote.awaited}

(* The candidates shown are those of the image in the selector.             *)
CandidatesShown ==
  /\ shownOf \in {Unset, Selector(form)}
  /\ \A pair \in drawn : pair[1] = pair[2]

(* Nothing got in between: what is in flight says what was clicked, and     *)
(* after the last patch was accepted the draft says it too.                 *)
Saved == \A f \in DOMAIN Body(clicked) : draft.payload[f] = clicked[f]
SentAsClicked(m) ==
  \/ m.kind = "launch"
  \/ m.kind = "final" /\ m.body = Body(clicked)
  \/ m.kind = "autosave" /\ m.body = Sanitized(clicked)
QuietLaunch ==
  quiet =>
    /\ form = clicked
    /\ \A m \in flight : SentAsClicked(m)
    /\ \A m \in flight : m.kind = "launch" \/ (m.kind = "final" /\ m.answer = "ok") => Saved

LaunchedQuietly ==
  \A l \in launched : l.quiet => \A f \in DOMAIN Body(l.clicked) : l.payload[f] = l.clicked[f]

PageInv == PageShape /\ QuoteAwaited /\ CandidatesShown /\ QuietLaunch /\ LaunchedQuietly

-----------------------------------------------------------------------------
(* The form changes.                                                        *)
LEMMA TypeOfTest ==
  ASSUME NEW p
  PROVE  InputsOf(p).type = Unset <=> p.kind = Unset
  BY DEF InputsOf, Unset

LEMMA RequoteKeeps ==
  ASSUME quote = [shown |-> quote.shown, loading |-> quote.loading, awaited |-> quote.awaited],
         QuoteAwaited, NEW p, form' = p, Requote(p)
  PROVE  /\ quote' = [shown |-> quote'.shown, loading |-> quote'.loading, awaited |-> quote'.awaited]
         /\ QuoteAwaited'
<1>1. CASE InputsOf(p) = InputsOf(form)
  <2>1. p.kind = Unset <=> form.kind = Unset
    BY <1>1, TypeOfTest
  <2>2. UNCHANGED <<quote, quoting>>
    BY <1>1 DEF Requote
  <2>3. InputsOf(form)' = InputsOf(form)
    BY <1>1 DEF InputsOf
  <2>4. QED
    BY <2>1, <2>2, <2>3 DEF QuoteAwaited
<1>2. CASE InputsOf(p) # InputsOf(form) /\ p.kind = Unset
  <2>1. quote' = [shown |-> NoInputs, loading |-> quote.loading, awaited |-> NoInputs] /\ quoting' = quoting
    BY <1>2 DEF Requote
  <2>2. QED
    BY <1>2, <2>1 DEF QuoteAwaited
<1>3. CASE InputsOf(p) # InputsOf(form) /\ p.kind # Unset
  <2>1. /\ quote' = [shown |-> quote.shown, loading |-> TRUE, awaited |-> InputsOf(p)]
        /\ quoting' = quoting \cup {InputsOf(p)}
    BY <1>3 DEF Requote
  <2>2. InputsOf(form)' = InputsOf(p)
    BY DEF InputsOf
  <2>3. QED
    BY <1>3, <2>1, <2>2, TypeOfTest DEF QuoteAwaited
<1>4. QED
  BY <1>1, <1>2, <1>3

LEMMA AnalyseKeeps ==
  ASSUME CandidatesShown, NEW p, form' = p, Analyse(p), drawn' = drawn
  PROVE  CandidatesShown'
  BY DEF CandidatesShown, Analyse, Selector

(* Every step after which something has got in between.                     *)
LEMMA NoLongerQuiet ==
  ASSUME LaunchedQuietly, ~quiet', launched' = launched
  PROVE  QuietLaunch' /\ LaunchedQuietly'
  BY DEF QuietLaunch, LaunchedQuietly

LEMMA FieldsStay ==
  ASSUME NEW p
  PROVE  DOMAIN Cleaned(p) = DOMAIN p /\ DOMAIN Annotated(Cleaned(p)) = DOMAIN p
<1>1. DOMAIN Cleaned(p) = DOMAIN p
  BY DEF Cleaned, Reset
<1>2. QED
  BY <1>1 DEF Annotated

LEMMA FormChanges ==
  ASSUME PageInv, NEW q, DOMAIN q = Fields, Becomes(q), ~quiet', UNCHANGED <<flight, draft, launched, drawn>>
  PROVE  PageInv'
<1>1. form' = q /\ Requote(q) /\ Analyse(q) /\ DOMAIN q = Fields
  BY DEF Becomes
<1>2. /\ quote' = [shown |-> quote'.shown, loading |-> quote'.loading, awaited |-> quote'.awaited]
      /\ QuoteAwaited'
  BY <1>1, RequoteKeeps DEF PageInv, PageShape
<1>3. PageShape'
  BY <1>1, <1>2 DEF PageInv, PageShape, Message
<1>4. CandidatesShown'
  BY <1>1, AnalyseKeeps DEF PageInv
<1>5. QED
  BY <1>2, <1>3, <1>4, NoLongerQuiet DEF PageInv

LEMMA Edits ==
  ASSUME PageInv, Edit \/ RemoveDesign \/ \E d \in Designs : UploadEnds(d)
  PROVE  PageInv'
<1>1. ASSUME NEW p, DOMAIN p = Fields, HandleChange(p)
      PROVE  PageInv'
  BY <1>1, FieldsStay, FormChanges DEF HandleChange
<1>2. DOMAIN form = Fields
  BY DEF PageInv, PageShape
<1>3. ASSUME NEW d, DesignBecomes(d)
      PROVE  PageInv'
  <2> DEFINE p == [form EXCEPT !.design = d]
  <2>1. /\ Becomes(Cleaned(p)) \/ Becomes(Annotated(Cleaned(p)))
        /\ ~quiet' /\ UNCHANGED <<flight, draft, launched, drawn>>
    BY <1>3 DEF DesignBecomes
  <2>2. DOMAIN p = Fields
    BY <1>2
  <2> HIDE DEF p
  <2>3. QED
    BY <2>1, <2>2, FieldsStay, FormChanges
<1>4. CASE Edit
  BY <1>1, <1>2, <1>4 DEF Edit
<1>5. QED
  BY <1>3, <1>4 DEF RemoveDesign, UploadEnds

(* A request whose answer finds nobody.                                     *)
LEMMA Unheard ==
  ASSUME NEW m, Message(m)
  PROVE  /\ [m EXCEPT !.heard = FALSE] =
              [kind |-> m.kind, body |-> m.body, heard |-> FALSE, answer |-> m.answer]
         /\ Message([m EXCEPT !.heard = FALSE])
<1> DEFINE n == [kind |-> m.kind, body |-> m.body, heard |-> FALSE, answer |-> m.answer]
<1>1. [m EXCEPT !.heard = FALSE] = n
  <2>1. ASSUME NEW heard
        PROVE  [m EXCEPT !.heard = heard] =
                 [kind |-> m.kind, body |-> m.body, heard |-> heard, answer |-> m.answer]
    BY DEF Message
  <2>2. QED
    BY <2>1
<1>2. Message(n)
  BY DEF Message
<1>3. QED
  BY <1>1, <1>2

(* The page is opened again.                                                *)
LEMMA FirstQuoteAwaited ==
  ASSUME NEW p, form' = p, quote' = FirstQuote(p), quoting' = Asked(p)
  PROVE  /\ quote' = [shown |-> quote'.shown, loading |-> quote'.loading, awaited |-> quote'.awaited]
         /\ QuoteAwaited'
<1>1. CASE p.kind = Unset
  BY <1>1 DEF FirstQuote, Asked, QuoteAwaited
<1>2. CASE p.kind # Unset
  <2>1. quote' = [shown |-> NoInputs, loading |-> TRUE, awaited |-> InputsOf(p)] /\ quoting' = {InputsOf(p)}
    BY <1>2 DEF FirstQuote, Asked
  <2>2. InputsOf(form)' = InputsOf(p)
    BY DEF InputsOf
  <2>3. QED
    BY <1>2, <2>1, <2>2, TypeOfTest DEF QuoteAwaited
<1>3. QED
  BY <1>1, <1>2

LEMMA PageReloads ==
  ASSUME PageInv, Reload
  PROVE  PageInv'
<1>1. /\ form' = draft.payload /\ quote' = FirstQuote(draft.payload) /\ quoting' = Asked(draft.payload)
      /\ flight' = {[m EXCEPT !.heard = FALSE] : m \in {n \in flight : n.answer = "none"}}
      /\ shownOf' = Unset /\ ~quiet' /\ UNCHANGED <<draft, launched, drawn>>
  BY DEF Reload
<1>2. /\ quote' = [shown |-> quote'.shown, loading |-> quote'.loading, awaited |-> quote'.awaited]
      /\ QuoteAwaited'
  BY <1>1, FirstQuoteAwaited
<1>3. ASSUME NEW m \in flight
      PROVE  Message([m EXCEPT !.heard = FALSE])
  BY Unheard DEF PageInv, PageShape
<1>4. PageShape'
  BY <1>1, <1>2, <1>3 DEF PageInv, PageShape
<1>5. CandidatesShown'
  BY <1>1 DEF PageInv, CandidatesShown
<1>6. QED
  BY <1>1, <1>2, <1>4, <1>5, NoLongerQuiet DEF PageInv

-----------------------------------------------------------------------------
(* Requests leave.                                                          *)
LEMMA BodiesAreFields ==
  /\ DOMAIN Body(form) \subseteq Fields
  /\ DOMAIN Sanitized(form) \subseteq DOMAIN Body(form)
  BY DEF Body, Sanitized

LEMMA RequestsLeave ==
  ASSUME PageInv,
         Autosave \/ ConfirmCandidate \/ PressLaunch
  PROVE  PageInv'
<1>1. CASE Autosave
  <2> DEFINE m == Request("autosave", Sanitized(form))
  <2>1. flight' = flight \cup {m} /\ UNCHANGED <<form, askVars, draft, history>>
    BY <1>1 DEF Autosave, Dispatch
  <2>2. Message(m) /\ m.kind = "autosave" /\ m.body = Sanitized(form)
    BY BodiesAreFields DEF Message, Request
  <2> HIDE DEF m
  <2>3. PageShape'
    BY <2>1, <2>2 DEF PageInv, PageShape, askVars, Message
  <2>4. QuoteAwaited' /\ CandidatesShown' /\ LaunchedQuietly'
    BY <2>1 DEF PageInv, QuoteAwaited, CandidatesShown, LaunchedQuietly, askVars, history, Selector, InputsOf
  <2>5. QuietLaunch'
    BY <2>1, <2>2 DEF PageInv, QuietLaunch, SentAsClicked, Saved, history, Body, Sanitized
  <2>6. QED
    BY <2>3, <2>4, <2>5 DEF PageInv
<1>2. CASE ConfirmCandidate
  <2> DEFINE m == Request("annotation", [f \in {"cta"} |-> form.design])
  <2>1. /\ flight' = flight \cup {m} /\ UNCHANGED <<form, askVars, draft, launched>> /\ ~quiet'
        /\ Selector(form) # Unset /\ shownOf # Unset
        /\ drawn' = drawn \cup {<<form.design, shownOf>>}
    BY <1>2 DEF ConfirmCandidate, Dispatch, formVars
  <2>2. Message(m)
    BY DEF Message, Request, Fields
  <2> HIDE DEF m
  <2>3. PageShape'
    BY <2>1, <2>2 DEF PageInv, PageShape, askVars, Message
  <2>4. QuoteAwaited'
    BY <2>1 DEF PageInv, QuoteAwaited, askVars, InputsOf
  <2>5. form.design = shownOf
    BY <2>1 DEF PageInv, CandidatesShown, Selector
  <2>6. CandidatesShown'
    BY <2>1, <2>5 DEF PageInv, CandidatesShown, Selector, askVars
  <2>7. QED
    BY <2>1, <2>3, <2>4, <2>6, NoLongerQuiet DEF PageInv
<1>3. CASE PressLaunch
  <2> DEFINE m == Request("final", Body(form))
  <2>1. /\ flight' = flight \cup {m} /\ UNCHANGED <<form, askVars, draft, launched, drawn>>
        /\ clicked' = form /\ quiet' = (flight = {})
    BY <1>3 DEF PressLaunch, Press, Dispatch, formVars
  <2>2. Message(m) /\ m.kind = "final" /\ m.body = Body(form) /\ m.answer = "none"
    BY BodiesAreFields DEF Message, Request
  <2> HIDE DEF m
  <2>3. PageShape'
    BY <2>1, <2>2 DEF PageInv, PageShape, askVars, Message
  <2>4. QuoteAwaited' /\ CandidatesShown' /\ LaunchedQuietly'
    BY <2>1 DEF PageInv, QuoteAwaited, CandidatesShown, LaunchedQuietly, askVars, Selector, InputsOf
  <2>5. QuietLaunch'
    BY <2>1, <2>2 DEF QuietLaunch, SentAsClicked, Body
  <2>6. QED
    BY <2>3, <2>4, <2>5 DEF PageInv
<1>4. QED
  BY <1>1, <1>2, <1>3

-----------------------------------------------------------------------------
(* The server.                                                              *)
LEMMA AnsweredMessages ==
  ASSUME PageShape, NEW m \in flight, NEW ok \in BOOLEAN, Answered(m, ok)
  PROVE  \A n \in flight' :
           /\ Message(n)
           /\ \/ n \in flight
              \/ /\ m.heard /\ n.kind = m.kind /\ n.body = m.body
                 /\ n.answer = IF ok THEN "ok" ELSE "refused"
<1> DEFINE n == [kind |-> m.kind, body |-> m.body, heard |-> m.heard,
                 answer |-> IF ok THEN "ok" ELSE "refused"]
<1>1. Message(m)
  BY DEF PageShape
<1>2. [m EXCEPT !.answer = IF ok THEN "ok" ELSE "refused"] = n
  BY <1>1 DEF Message
<1>3. Message(n)
  BY <1>1 DEF Message
<1>4. flight' \subseteq flight \cup {n} /\ (n \in flight' /\ n \notin flight => m.heard)
  BY <1>2 DEF Answered
<1>5. QED
  BY <1>3, <1>4 DEF PageShape

(* A patch with every field that was clicked saves it; an autosave of the   *)
(* same form does not undo it.                                              *)
LEMMA MergedKeeps ==
  ASSUME NEW body, DOMAIN body \subseteq Fields, DOMAIN draft.payload = Fields
  PROVE  /\ DOMAIN Merged(body) = Fields
         /\ \A f \in DOMAIN body : Merged(body)[f] = body[f]
         /\ \A f \in Fields \ DOMAIN body : f # "cta" => Merged(body)[f] = draft.payload[f]
<1> DEFINE merged == [f \in Fields |-> IF f \in DOMAIN body THEN body[f] ELSE draft.payload[f]]
<1>1. \/ Merged(body) = merged
      \/ "cta" \notin DOMAIN body /\ Merged(body) = [merged EXCEPT !.cta = "null"]
  BY DEF Merged
<1>2. QED
  BY <1>1

LEMMA ServerAnswersPatch ==
  ASSUME PageInv, NEW m \in flight, ServerPatches(m)
  PROVE  PageInv'
<1> DEFINE ok == draft.status = "draft" /\ Acceptable(m.body)
           payload == Merged(m.body)
<1>1. /\ m.kind # "launch" /\ Answered(m, ok)
      /\ draft' = IF ok THEN [draft EXCEPT !.payload = payload] ELSE draft
      /\ UNCHANGED <<form, askVars, clicked, quiet, launched, drawn>>
  BY DEF ServerPatches, formVars, history
<1>2. /\ DOMAIN payload = Fields
      /\ \A f \in DOMAIN m.body : payload[f] = m.body[f]
      /\ \A f \in Fields \ DOMAIN m.body : f # "cta" => payload[f] = draft.payload[f]
  BY <1>1, MergedKeeps DEF PageInv, PageShape, Message
<1> HIDE DEF ok, payload
<1>3. ok \in BOOLEAN
  BY DEF ok
<1>4. draft' = IF ok THEN [status |-> draft.status, payload |-> payload] ELSE draft
  BY <1>1 DEF PageInv, PageShape
<1>5. \A n \in flight' :
        /\ Message(n)
        /\ \/ n \in flight
           \/ /\ m.heard /\ n.kind = m.kind /\ n.body = m.body
              /\ n.answer = IF ok THEN "ok" ELSE "refused"
  BY <1>1, <1>3, AnsweredMessages DEF PageInv
<1>6. PageShape'
  <2>1. quote' = quote /\ form' = form
    BY <1>1 DEF askVars
  <2>2. QED
    BY <1>2, <1>4, <1>5, <2>1 DEF PageInv, PageShape
<1>7. QuoteAwaited' /\ CandidatesShown' /\ LaunchedQuietly'
  BY <1>1 DEF PageInv, QuoteAwaited, CandidatesShown, LaunchedQuietly, askVars, Selector, InputsOf
<1>8. ASSUME quiet
      PROVE  /\ Saved => Saved'
             /\ m.kind = "final" /\ ok => Saved'
  <2>1. SentAsClicked(m)
    BY <1>8 DEF PageInv, QuietLaunch
  <2>2. \A f \in DOMAIN m.body : f \in DOMAIN Body(clicked) /\ m.body[f] = clicked[f]
    BY <1>1, <2>1 DEF SentAsClicked, Body, Sanitized
  <2>3. m.kind = "final" => DOMAIN m.body = DOMAIN Body(clicked)
    BY <2>1 DEF SentAsClicked
  <2>4. \A f \in DOMAIN Body(clicked) : f \in Fields
    BY DEF Body
  <2>5. \A f \in DOMAIN Body(clicked) \ DOMAIN m.body : f # "cta"
    BY <1>1, <2>1 DEF SentAsClicked, Body, Sanitized
  <2>6. Saved' <=> \A f \in DOMAIN Body(clicked) : draft'.payload[f] = clicked[f]
    BY <1>1 DEF Saved, Body
  <2>7. QED
    BY <1>2, <1>4, <2>2, <2>3, <2>4, <2>5, <2>6 DEF Saved
<1>9. QuietLaunch'
  <2>1. ASSUME quiet
        PROVE  /\ form' = clicked'
               /\ \A n \in flight' : SentAsClicked(n)'
               /\ \A n \in flight' : n.kind = "launch" \/ (n.kind = "final" /\ n.answer = "ok") => Saved'
    <3>1. \A n \in flight' : SentAsClicked(n)'
      BY <1>1, <1>5, <2>1 DEF PageInv, QuietLaunch, SentAsClicked, Body, Sanitized
    <3>2. ASSUME NEW n \in flight', n.kind = "launch" \/ (n.kind = "final" /\ n.answer = "ok")
          PROVE  Saved'
      <4>1. CASE n \in flight
        BY <1>8, <2>1, <3>2, <4>1 DEF PageInv, QuietLaunch
      <4>2. CASE n \notin flight
        BY <1>1, <1>5, <1>8, <2>1, <3>2, <4>2
      <4>3. QED
        BY <4>1, <4>2
    <3>3. QED
      BY <1>1, <2>1, <3>1, <3>2 DEF PageInv, QuietLaunch
  <2>2. QED
    BY <1>1, <2>1 DEF QuietLaunch
<1>10. QED
  BY <1>6, <1>7, <1>9 DEF PageInv

LEMMA ServerAnswersLaunch ==
  ASSUME PageInv, NEW m \in flight, ServerLaunches(m)
  PROVE  PageInv'
<1> DEFINE starts == draft.status = "draft" /\ Launchable(draft.payload)
           ok == starts \/ draft.status = "launched"
           new == [payload |-> draft.payload, clicked |-> clicked, quiet |-> quiet]
<1>1. /\ m.kind = "launch" /\ Answered(m, ok)
      /\ draft' = IF starts THEN [draft EXCEPT !.status = "launched"] ELSE draft
      /\ launched' = IF starts THEN {new} ELSE launched
      /\ UNCHANGED <<form, askVars, clicked, quiet, drawn>>
  BY DEF ServerLaunches, formVars
<1>2. ok \in BOOLEAN
  OBVIOUS
<1> HIDE DEF ok, starts
<1>3. draft' = IF starts THEN [status |-> "launched", payload |-> draft.payload] ELSE draft
  BY <1>1 DEF PageInv, PageShape
<1>4. \A n \in flight' :
        /\ Message(n)
        /\ \/ n \in flight
           \/ n.kind = "launch"
  BY <1>1, <1>2, AnsweredMessages DEF PageInv
<1>5. draft'.payload = draft.payload
  BY <1>3
<1>6. PageShape'
  <2>1. quote' = quote /\ form' = form
    BY <1>1 DEF askVars
  <2>2. QED
    BY <1>3, <1>4, <1>5, <2>1 DEF PageInv, PageShape
<1>7. QuoteAwaited' /\ CandidatesShown'
  BY <1>1 DEF PageInv, QuoteAwaited, CandidatesShown, askVars, Selector, InputsOf
<1>8. quiet => Saved
  BY <1>1 DEF PageInv, QuietLaunch
<1>9. LaunchedQuietly'
  BY <1>1, <1>8 DEF PageInv, LaunchedQuietly, Saved
<1>10. QuietLaunch'
  BY <1>1, <1>4, <1>5, <1>8 DEF PageInv, QuietLaunch, SentAsClicked, Saved, Body, Sanitized
<1>11. QED
  BY <1>6, <1>7, <1>9, <1>10 DEF PageInv

-----------------------------------------------------------------------------
(* Answers and failures.                                                    *)
LEMMA FlightChanges ==
  ASSUME PageInv, UNCHANGED <<form, askVars, draft, history>>,
         \A n \in flight' :
           /\ Message(n)
           /\ \/ n \in flight
              \/ \E m \in flight : m.kind = n.kind /\ m.body = n.body /\ m.answer = n.answer
              \/ n.kind = "launch" /\ \E m \in flight : m.kind = "final" /\ m.answer = "ok"
  PROVE  PageInv'
<1>1. PageShape'
  BY DEF PageInv, PageShape, askVars
<1>2. QuoteAwaited' /\ CandidatesShown' /\ LaunchedQuietly'
  BY DEF PageInv, QuoteAwaited, CandidatesShown, LaunchedQuietly, askVars, history, Selector, InputsOf
<1>3. QuietLaunch'
  <2>1. Saved' = Saved /\ quiet' = quiet /\ clicked' = clicked
    BY DEF Saved, history, Body
  <2>2. ASSUME quiet, NEW n \in flight'
        PROVE  /\ SentAsClicked(n)'
               /\ n.kind = "launch" \/ (n.kind = "final" /\ n.answer = "ok") => Saved
    BY <2>1, <2>2 DEF PageInv, QuietLaunch, SentAsClicked, Body, Sanitized
  <2>3. QED
    BY <2>1, <2>2 DEF PageInv, QuietLaunch
<1>4. QED
  BY <1>1, <1>2, <1>3 DEF PageInv

LEMMA AnswersArrive ==
  ASSUME PageInv, NEW m \in flight,
         PatchIsAnswered(m) \/ LaunchIsAnswered(m) \/ RequestFails(m) \/ RequestIsLost(m)
  PROVE  PageInv'
<1>1. \A n \in flight : Message(n)
  BY DEF PageInv, PageShape
<1>2. CASE PatchIsAnswered(m)
  <2> DEFINE l == Request("launch", <<>>)
  <2>1. Message(l) /\ l.kind = "launch"
    BY DEF Message, Request
  <2>2. /\ flight' = flight \ {m} \/ (flight' = (flight \ {m}) \cup {l} /\ m.answer = "ok")
        /\ m.kind = "final" /\ UNCHANGED <<form, askVars, draft, history>>
    BY <1>2 DEF PatchIsAnswered, formVars
  <2> HIDE DEF l
  <2>3. QED
    BY <1>1, <2>1, <2>2, FlightChanges
<1>3. CASE LaunchIsAnswered(m)
  BY <1>1, <1>3, FlightChanges DEF LaunchIsAnswered
<1>4. CASE RequestFails(m)
  <2> DEFINE n == [kind |-> m.kind, body |-> m.body, heard |-> FALSE, answer |-> m.answer]
  <2>1. [m EXCEPT !.heard = FALSE] = n /\ Message(n)
    BY <1>1, Unheard
  <2>2. flight' \subseteq flight \cup {n} /\ UNCHANGED <<form, askVars, draft, history>>
    BY <1>4, <2>1 DEF RequestFails, formVars
  <2>3. n.kind = m.kind /\ n.body = m.body /\ n.answer = m.answer
    OBVIOUS
  <2> HIDE DEF n
  <2>4. QED
    BY <1>1, <2>1, <2>2, <2>3, FlightChanges
<1>5. CASE RequestIsLost(m)
  BY <1>1, <1>5, FlightChanges DEF RequestIsLost, formVars
<1>6. QED
  BY <1>2, <1>3, <1>4, <1>5

LEMMA AnnotationArrives ==
  ASSUME PageInv, NEW m \in flight, AnnotationIsAnswered(m)
  PROVE  PageInv'
<1>1. /\ flight' \subseteq flight /\ ~quiet' /\ UNCHANGED <<quote, quoting, shownOf, draft, launched, drawn>>
      /\ form' = form \/ form' = [form EXCEPT !.cta = m.body.cta]
  BY DEF AnnotationIsAnswered, askVars
<1>2. /\ DOMAIN form' = Fields /\ form'.kind = form.kind /\ form'.network = form.network
      /\ form'.source = form.source /\ form'.design = form.design
  BY <1>1 DEF PageInv, PageShape, Fields
<1>3. PageShape'
  BY <1>1, <1>2 DEF PageInv, PageShape
<1>4. QuoteAwaited' /\ CandidatesShown'
  BY <1>1, <1>2 DEF PageInv, QuoteAwaited, CandidatesShown, Selector, InputsOf
<1>5. QED
  BY <1>1, <1>3, <1>4, NoLongerQuiet DEF PageInv

LEMMA OtherAnswers ==
  ASSUME PageInv, (\E i \in quoting : QuoteArrives(i)) \/ (\E d \in analysing : AnalysisArrives(d))
  PROVE  PageInv'
<1>1. ASSUME UNCHANGED <<form, flight, draft, history>>,
             quote' = [shown |-> quote'.shown, loading |-> quote'.loading, awaited |-> quote'.awaited],
             QuoteAwaited', CandidatesShown'
      PROVE  PageInv'
  <2>1. PageShape' /\ LaunchedQuietly'
    BY <1>1 DEF PageInv, PageShape, LaunchedQuietly, history
  <2>2. QuietLaunch'
    BY <1>1 DEF PageInv, QuietLaunch, SentAsClicked, Saved, Body, Sanitized, history
  <2>3. QED
    BY <1>1, <2>1, <2>2 DEF PageInv
<1>2. ASSUME NEW i \in quoting, QuoteArrives(i)
      PROVE  PageInv'
  <2>1. /\ quoting' \subseteq quoting /\ UNCHANGED <<form, flight, draft, history, shownOf>>
        /\ \/ quote' = quote
           \/ /\ i = quote.awaited
              /\ \E shown \in {i, NoInputs} :
                   quote' = [shown |-> shown, loading |-> FALSE, awaited |-> quote.awaited]
    BY <1>2 DEF QuoteArrives, formVars, PageInv, PageShape
  <2>2. i.type # Unset /\ NoInputs.type = Unset
    BY DEF PageInv, QuoteAwaited, NoInputs
  <2>3. InputsOf(form)' = InputsOf(form)
    BY <2>1 DEF InputsOf
  <2>4. QuoteAwaited'
    BY <2>1, <2>2, <2>3 DEF PageInv, QuoteAwaited
  <2>5. CandidatesShown'
    BY <2>1 DEF PageInv, CandidatesShown, Selector, history
  <2>6. quote' = [shown |-> quote'.shown, loading |-> quote'.loading, awaited |-> quote'.awaited]
    BY <2>1 DEF PageInv, PageShape
  <2>7. QED
    BY <1>1, <2>1, <2>4, <2>5, <2>6
<1>3. ASSUME NEW d \in analysing, AnalysisArrives(d)
      PROVE  PageInv'
  <2>1. /\ UNCHANGED <<form, quote, quoting, flight, draft, history>>
        /\ shownOf' = IF d = Selector(form) THEN d ELSE shownOf
    BY <1>3 DEF AnalysisArrives, formVars
  <2>2. QuoteAwaited' /\ CandidatesShown'
    BY <2>1 DEF PageInv, QuoteAwaited, CandidatesShown, Selector, InputsOf, history
  <2>3. QED
    BY <1>1, <2>1, <2>2 DEF PageInv, PageShape
<1>4. QED
  BY <1>2, <1>3

LEMMA PageStep == PageInv /\ [PageNext]_pageVars => PageInv'
<1>1. ASSUME PageInv, UNCHANGED pageVars
      PROVE  PageInv'
  <2>1. UNCHANGED <<form, askVars, draft, history, flight>>
    BY <1>1 DEF pageVars, formVars
  <2>2. \A n \in flight : Message(n)
    BY <1>1 DEF PageInv, PageShape
  <2>3. QED
    BY <1>1, <2>1, <2>2, FlightChanges
<1>2. QED
  BY <1>1, Edits, PageReloads, RequestsLeave, ServerAnswersPatch, ServerAnswersLaunch,
     AnswersArrive, AnnotationArrives, OtherAnswers DEF PageNext, Answers

-----------------------------------------------------------------------------
(* Types and bounds.                                                        *)

(* What a form or a request says of an image and of its annotation.         *)
CtaValues == Designs \cup {Unset, "null"}
DesignValues == Designs \cup {Unset}
PayloadTyped(p) == DOMAIN p = Fields /\ p.cta \in CtaValues /\ p.design \in DesignValues
BodyTyped(m) ==
  /\ m.kind # "launch" => /\ "cta" \in DOMAIN m.body => m.body.cta \in CtaValues
                          /\ "design" \in DOMAIN m.body => m.body.design \in DesignValues
  /\ m.kind = "annotation" => "cta" \in DOMAIN m.body

(* A request takes the place of the one before it: the bound on those that  *)
(* are sent bounds all of them.                                             *)
FlightTyped ==
  /\ IsFiniteSet(flight) /\ Cardinality(flight) <= MaxFlight
  /\ \A m \in flight : BodyTyped(m)

AnalysisTyped == analysing \subseteq Designs /\ shownOf \in DesignValues
LaunchedOnce == launched = {} \/ \E l : launched = {l}
Timers == {"off", "due", "never"}
ButtonTyped ==
  /\ edits \in 0..MaxEdits /\ timer \in Timers /\ quiet \in BOOLEAN
  /\ button \in {"idle", "saving", "starting", "done"}

PageTyped ==
  /\ PageInv
  /\ PayloadTyped(form) /\ PayloadTyped(draft.payload) /\ draft.status \in {"draft", "launched"}
  /\ FlightTyped /\ AnalysisTyped /\ ButtonTyped /\ LaunchedOnce
  /\ removed \subseteq Designs

LEMMA FewerInFlight ==
  ASSUME NEW S, IsFiniteSet(S), NEW T \in SUBSET S
  PROVE  IsFiniteSet(T) /\ Cardinality(T) \in Nat /\ Cardinality(T) <= Cardinality(S)
  BY FS_Subset, FS_CardinalityType

LEMMA OneForAnother ==
  ASSUME NEW S, IsFiniteSet(S), NEW x \in S, NEW y, NEW T, T \subseteq (S \ {x}) \cup {y}
  PROVE  IsFiniteSet(T) /\ Cardinality(T) <= Cardinality(S)
<1>1. /\ IsFiniteSet(S \ {x}) /\ Cardinality(S \ {x}) = Cardinality(S) - 1
      /\ Cardinality(S) \in Nat
  BY FS_RemoveElement, FS_CardinalityType
<1>2. /\ IsFiniteSet((S \ {x}) \cup {y})
      /\ Cardinality((S \ {x}) \cup {y}) \in {Cardinality(S \ {x}), Cardinality(S \ {x}) + 1}
  BY <1>1, FS_AddElement
<1>3. /\ IsFiniteSet(T) /\ Cardinality(T) \in Nat
      /\ Cardinality(T) <= Cardinality((S \ {x}) \cup {y})
  BY <1>2, FewerInFlight
<1>4. QED
  BY <1>1, <1>2, <1>3

(* The form changes.                                                        *)
LEMMA ChangesTyped ==
  ASSUME NEW p, PayloadTyped(p)
  PROVE  PayloadTyped(Cleaned(p)) /\ PayloadTyped(Annotated(Cleaned(p)))
<1>1. PayloadTyped(Reset(p))
  BY DEF PayloadTyped, Reset, Fields
<1>2. PayloadTyped(Cleaned(p))
  BY <1>1 DEF PayloadTyped, Cleaned, Fields
<1>3. QED
  BY <1>2 DEF PayloadTyped, Annotated, Fields, CtaValues

LEMMA FormChangesTyped ==
  ASSUME PageTyped, PageInv', NEW q, PayloadTyped(q), Becomes(q), edits < MaxEdits,
         removed' \subseteq Designs, ~quiet', quiet' \in BOOLEAN, UNCHANGED <<button, flight, draft, launched>>
  PROVE  PageTyped'
<1>1. PayloadTyped(q) /\ form' = q /\ timer' \in Timers /\ edits' = edits + 1 /\ Analyse(q)
  BY DEF Becomes, Restarted, Timers
<1>2. Selector(q) \in DesignValues
  BY <1>1 DEF Selector, PayloadTyped, DesignValues
<1>3. AnalysisTyped'
  BY <1>1, <1>2 DEF Analyse, AnalysisTyped, PageTyped, DesignValues
<1>4. ButtonTyped'
  BY <1>1, PageAssumption DEF PageTyped, ButtonTyped
<1>5. PayloadTyped(form)' /\ PayloadTyped(draft.payload)'
  BY <1>1 DEF PageTyped, PayloadTyped, CtaValues, DesignValues
<1>6. FlightTyped' /\ LaunchedOnce'
  BY DEF PageTyped, FlightTyped, BodyTyped, CtaValues, DesignValues, LaunchedOnce
<1>7. QED
  BY <1>3, <1>4, <1>5, <1>6 DEF PageTyped

LEMMA EditsTyped ==
  ASSUME PageTyped, PageInv', Edit \/ RemoveDesign \/ \E d \in Designs : UploadEnds(d)
  PROVE  PageTyped'
<1>1. ASSUME NEW p, PayloadTyped(p), HandleChange(p)
      PROVE  PageTyped'
  BY <1>1, ChangesTyped, FormChangesTyped DEF HandleChange, Editable, PageTyped
<1>2. PayloadTyped(form)
  BY DEF PageTyped
<1>3. ASSUME NEW d \in DesignValues, DesignBecomes(d), removed' \subseteq Designs
      PROVE  PageTyped'
  <2> DEFINE p == [form EXCEPT !.design = d]
  <2>1. PayloadTyped(p)
    BY <1>2 DEF PayloadTyped, DesignValues, Fields
  <2>2. /\ Becomes(Cleaned(p)) \/ Becomes(Annotated(Cleaned(p)))
        /\ edits < MaxEdits /\ quiet' = FALSE /\ UNCHANGED <<button, flight, draft, launched>>
    BY <1>3 DEF DesignBecomes, Editable
  <2> HIDE DEF p
  <2>3. QED
    BY <1>3, <2>1, <2>2, ChangesTyped, FormChangesTyped
<1>4. CASE Edit
  <2>1. ASSUME NEW v
        PROVE  /\ PayloadTyped([form EXCEPT !.text = v]) /\ PayloadTyped([form EXCEPT !.kind = v])
               /\ PayloadTyped([form EXCEPT !.source = v]) /\ PayloadTyped([form EXCEPT !.network = v])
    BY <1>2 DEF PayloadTyped, Fields
  <2>2. QED
    BY <1>1, <1>4, <2>1 DEF Edit
<1>5. CASE RemoveDesign
  <2>1. removed' \subseteq Designs
    BY <1>2, <1>5 DEF RemoveDesign, PageTyped, PayloadTyped, DesignValues
  <2>2. QED
    BY <1>3, <1>5, <2>1 DEF RemoveDesign, DesignValues
<1>6. CASE \E d \in Designs : UploadEnds(d)
  <2>1. removed' \subseteq Designs
    BY <1>6 DEF UploadEnds, PageTyped
  <2>2. QED
    BY <1>3, <1>6, <2>1 DEF UploadEnds, DesignValues
<1>7. QED
  BY <1>4, <1>5, <1>6

(* Requests leave and are answered.                                         *)
LEMMA RequestsLeaveTyped ==
  ASSUME PageTyped, PageInv', Autosave \/ ConfirmCandidate \/ PressLaunch
  PROVE  PageTyped'
<1>1. ASSUME NEW m, BodyTyped(m), Dispatch({m})
      PROVE  FlightTyped'
  <2>1. flight' = flight \cup {m} /\ Cardinality(flight \cup {m}) <= MaxFlight
    BY <1>1 DEF Dispatch
  <2>2. IsFiniteSet(flight \cup {m})
    BY FS_AddElement DEF PageTyped, FlightTyped
  <2>3. QED
    BY <1>1, <2>1, <2>2 DEF PageTyped, FlightTyped, BodyTyped, CtaValues, DesignValues
<1>2. ASSUME UNCHANGED <<form, edits, draft, removed, shownOf, analysing, launched>>, FlightTyped',
             timer' \in Timers, quiet' \in BOOLEAN, button' \in {"saving", button}
      PROVE  PageTyped'
  BY <1>2 DEF PageTyped, PayloadTyped, AnalysisTyped, ButtonTyped, LaunchedOnce, CtaValues, DesignValues
<1>3. CASE Autosave
  <2> DEFINE m == Request("autosave", Sanitized(form))
  <2>1. BodyTyped(m)
    BY DEF BodyTyped, Request, Sanitized, Body, PageTyped, PayloadTyped
  <2>2. Dispatch({m}) /\ timer' = "off" /\ UNCHANGED <<form, edits, askVars, button, draft, removed, history>>
    BY <1>3 DEF Autosave
  <2> HIDE DEF m
  <2>3. FlightTyped'
    BY <1>1, <2>1, <2>2
  <2>4. quiet' \in BOOLEAN
    BY <2>2 DEF history, PageTyped, ButtonTyped
  <2>5. QED
    BY <1>2, <2>2, <2>3, <2>4 DEF askVars, history, Timers
<1>4. CASE ConfirmCandidate
  <2> DEFINE m == Request("annotation", [f \in {"cta"} |-> form.design])
  <2>1. form.design \in DesignValues
    BY DEF PageTyped, PayloadTyped
  <2>2. BodyTyped(m)
    BY <2>1 DEF BodyTyped, Request, CtaValues, DesignValues
  <2>3. Dispatch({m}) /\ quiet' = FALSE /\ UNCHANGED <<formVars, askVars, button, draft, removed, launched>>
    BY <1>4 DEF ConfirmCandidate
  <2> HIDE DEF m
  <2>4. FlightTyped'
    BY <1>1, <2>2, <2>3
  <2>5. timer' \in Timers
    BY <2>3 DEF formVars, PageTyped, ButtonTyped
  <2>6. QED
    BY <1>2, <2>3, <2>4, <2>5 DEF askVars, formVars
<1>5. CASE PressLaunch
  <2> DEFINE m == Request("final", Body(form))
  <2>1. BodyTyped(m)
    BY DEF BodyTyped, Request, Body, PageTyped, PayloadTyped
  <2>2. /\ Dispatch({m}) /\ button' = "saving" /\ UNCHANGED <<formVars, askVars, draft, removed, launched>>
    BY <1>5 DEF PressLaunch, Press
  <2>3. quiet' = (flight = {})
    BY <1>5 DEF PressLaunch, Press
  <2> HIDE DEF m
  <2>4. FlightTyped'
    BY <1>1, <2>1, <2>2
  <2>5. quiet' \in BOOLEAN
    BY <2>3, Zenon
  <2>6. timer' \in Timers
    BY <2>2 DEF formVars, PageTyped, ButtonTyped
  <2>7. QED
    BY <1>2, <2>2, <2>4, <2>5, <2>6 DEF askVars, formVars
<1>6. QED
  BY <1>3, <1>4, <1>5

LEMMA AnswersTyped ==
  ASSUME PageTyped, NEW m \in flight, NEW n, flight' \subseteq (flight \ {m}) \cup {n}, BodyTyped(n)
  PROVE  FlightTyped'
<1>1. IsFiniteSet(flight') /\ Cardinality(flight') <= Cardinality(flight)
  BY OneForAnother DEF PageTyped, FlightTyped
<1>2. IsFiniteSet(flight) /\ Cardinality(flight) \in Nat /\ Cardinality(flight') \in Nat
  BY <1>1, FS_CardinalityType DEF PageTyped, FlightTyped
<1>3. Cardinality(flight') <= MaxFlight
  BY <1>1, <1>2, PageAssumption DEF PageTyped, FlightTyped
<1>4. QED
  BY <1>1, <1>3 DEF PageTyped, FlightTyped, BodyTyped, CtaValues, DesignValues

LEMMA AnswerTyped ==
  ASSUME PageTyped, NEW m \in flight, NEW ok \in BOOLEAN, Answered(m, ok)
  PROVE  FlightTyped'
<1> DEFINE n == [kind |-> m.kind, body |-> m.body, heard |-> m.heard,
                 answer |-> IF ok THEN "ok" ELSE "refused"]
<1>1. [m EXCEPT !.answer = IF ok THEN "ok" ELSE "refused"] = n
  <2>1. Message(m)
    BY DEF PageTyped, PageInv, PageShape
  <2>2. QED
    BY <2>1 DEF Message
<1>2. BodyTyped(n)
  BY DEF BodyTyped, PageTyped, FlightTyped
<1>3. flight' \subseteq (flight \ {m}) \cup {n}
  BY <1>1 DEF Answered
<1>4. QED
  BY <1>2, <1>3, AnswersTyped

(* The server merges what it can have been sent.                            *)
LEMMA MergedTyped ==
  ASSUME PageTyped, NEW m \in flight, m.kind # "launch"
  PROVE  PayloadTyped(Merged(m.body))
<1> DEFINE body == m.body
           merged == [f \in Fields |-> IF f \in DOMAIN body THEN body[f] ELSE draft.payload[f]]
<1>1. PayloadTyped(draft.payload) /\ BodyTyped(m)
  BY DEF PageTyped, FlightTyped
<1>2. PayloadTyped(merged)
  BY <1>1 DEF PayloadTyped, BodyTyped, Fields
<1>3. Merged(body) \in {merged, [merged EXCEPT !.cta = "null"]}
  BY DEF Merged
<1> HIDE DEF merged
<1>4. PayloadTyped([merged EXCEPT !.cta = "null"])
  BY <1>2 DEF PayloadTyped, CtaValues, Fields
<1>5. QED
  BY <1>2, <1>3, <1>4

LEMMA ServerTyped ==
  ASSUME PageTyped, PageInv', NEW m \in flight, ServerPatches(m) \/ ServerLaunches(m)
  PROVE  PageTyped'
<1>1. draft = [status |-> draft.status, payload |-> draft.payload]
  BY DEF PageTyped, PageInv, PageShape
<1>2. ASSUME UNCHANGED <<form, edits, timer, quiet, button, removed, shownOf, analysing>>, FlightTyped',
             LaunchedOnce', PayloadTyped(draft'.payload), draft'.status \in {"draft", "launched"}
      PROVE  PageTyped'
  BY <1>2 DEF PageTyped, PayloadTyped, AnalysisTyped, ButtonTyped, CtaValues, DesignValues
<1>3. CASE ServerPatches(m)
  <2> DEFINE ok == draft.status = "draft" /\ Acceptable(m.body)
             payload == Merged(m.body)
  <2>1. /\ m.kind # "launch" /\ Answered(m, ok)
        /\ draft' = IF ok THEN [draft EXCEPT !.payload = payload] ELSE draft
        /\ UNCHANGED <<formVars, askVars, button, removed, history>>
    BY <1>3 DEF ServerPatches
  <2>2. ok \in BOOLEAN
    OBVIOUS
  <2>3. PayloadTyped(payload)
    BY <2>1, MergedTyped
  <2> HIDE DEF ok, payload
  <2>4. draft' = IF ok THEN [status |-> draft.status, payload |-> payload] ELSE draft
    BY <1>1, <2>1
  <2>5. PayloadTyped(draft'.payload) /\ draft'.status \in {"draft", "launched"}
    BY <2>3, <2>4 DEF PageTyped
  <2>6. FlightTyped'
    BY <2>1, <2>2, AnswerTyped
  <2>7. LaunchedOnce'
    BY <2>1 DEF history, PageTyped, LaunchedOnce
  <2>8. QED
    BY <1>2, <2>1, <2>5, <2>6, <2>7 DEF formVars, askVars, history
<1>4. CASE ServerLaunches(m)
  <2> DEFINE starts == draft.status = "draft" /\ Launchable(draft.payload)
             ok == starts \/ draft.status = "launched"
             new == [payload |-> draft.payload, clicked |-> clicked, quiet |-> quiet]
  <2>1. /\ Answered(m, ok)
        /\ draft' = IF starts THEN [draft EXCEPT !.status = "launched"] ELSE draft
        /\ launched' = IF starts THEN {new} ELSE launched
        /\ UNCHANGED <<formVars, askVars, button, removed, quiet>>
    BY <1>4 DEF ServerLaunches
  <2>2. ok \in BOOLEAN
    OBVIOUS
  <2> HIDE DEF ok, starts, new
  <2>3. draft' = IF starts THEN [status |-> "launched", payload |-> draft.payload] ELSE draft
    BY <1>1, <2>1
  <2>4. PayloadTyped(draft'.payload) /\ draft'.status \in {"draft", "launched"}
    BY <2>3 DEF PageTyped
  <2>5. FlightTyped'
    BY <2>1, <2>2, AnswerTyped
  <2>6. LaunchedOnce'
    BY <2>1 DEF PageTyped, LaunchedOnce
  <2>7. QED
    BY <1>2, <2>1, <2>4, <2>5, <2>6 DEF formVars, askVars
<1>5. QED
  BY <1>3, <1>4

LEMMA PageHears ==
  ASSUME PageTyped, PageInv', NEW m \in flight, Answers(m) \/ RequestFails(m) \/ RequestIsLost(m)
  PROVE  PageTyped'
<1>1. BodyTyped(m) /\ Message(m)
  BY DEF PageTyped, FlightTyped, PageInv, PageShape
<1>2. ASSUME UNCHANGED <<edits, draft, removed, shownOf, analysing, launched>>, FlightTyped', PayloadTyped(form'),
             timer' \in Timers, quiet' \in BOOLEAN, button' \in {"idle", "starting", "done", button}
      PROVE  PageTyped'
  BY <1>2 DEF PageTyped, PayloadTyped, AnalysisTyped, ButtonTyped, LaunchedOnce, CtaValues, DesignValues
<1>3. /\ timer \in Timers /\ quiet \in BOOLEAN /\ PayloadTyped(form)
  BY DEF PageTyped, ButtonTyped
<1>4. ASSUME flight' = flight \ {m}
      PROVE  FlightTyped'
  BY <1>1, <1>4, AnswersTyped
<1>5. CASE PatchIsAnswered(m)
  <2> DEFINE n == Request("launch", <<>>)
  <2>1. BodyTyped(n)
    BY DEF BodyTyped, Request
  <2>2. /\ flight' \subseteq (flight \ {m}) \cup {n} /\ button' \in {"starting", "idle"}
        /\ UNCHANGED <<formVars, askVars, draft, removed, history>>
    BY <1>5 DEF PatchIsAnswered
  <2> HIDE DEF n
  <2>3. FlightTyped'
    BY <2>1, <2>2, AnswersTyped
  <2>4. QED
    BY <1>2, <1>3, <2>2, <2>3 DEF formVars, askVars, history
<1>6. CASE LaunchIsAnswered(m)
  <2>1. timer' \in Timers
    BY <1>3, <1>6 DEF LaunchIsAnswered, Timers
  <2>2. /\ flight' = flight \ {m} /\ button' \in {"done", "idle"}
        /\ UNCHANGED <<form, edits, askVars, draft, removed, history>>
    BY <1>6 DEF LaunchIsAnswered
  <2>3. QED
    BY <1>2, <1>3, <1>4, <2>1, <2>2 DEF askVars, history
<1>7. CASE AnnotationIsAnswered(m)
  <2>1. /\ m.kind = "annotation" /\ flight' = flight \ {m} /\ quiet' = FALSE
        /\ UNCHANGED <<edits, askVars, button, draft, removed, launched>>
        /\ form' \in {form, [form EXCEPT !.cta = m.body.cta]}
    BY <1>7 DEF AnnotationIsAnswered
  <2>2. timer' \in Timers
    <3>1. timer' \in {timer, "never", "due"}
      BY <1>7 DEF AnnotationIsAnswered, Restarted
    <3>2. QED
      BY <1>3, <3>1 DEF Timers
  <2>3. m.body.cta \in CtaValues
    BY <1>1, <2>1 DEF BodyTyped
  <2>4. PayloadTyped([form EXCEPT !.cta = m.body.cta])
    BY <1>3, <2>3 DEF PayloadTyped, Fields
  <2>5. QED
    BY <1>2, <1>3, <1>4, <2>1, <2>2, <2>4 DEF askVars
<1>8. CASE RequestFails(m)
  <2> DEFINE n == [kind |-> m.kind, body |-> m.body, heard |-> FALSE, answer |-> m.answer]
  <2>1. [m EXCEPT !.heard = FALSE] = n /\ BodyTyped(n)
    BY <1>1, Unheard DEF BodyTyped
  <2>2. /\ flight' \subseteq (flight \ {m}) \cup {n} /\ button' \in {"idle", button}
        /\ UNCHANGED <<formVars, askVars, draft, removed, history>>
    BY <1>8, <2>1 DEF RequestFails
  <2> HIDE DEF n
  <2>3. FlightTyped'
    BY <2>1, <2>2, AnswersTyped
  <2>4. QED
    BY <1>2, <1>3, <2>2, <2>3 DEF formVars, askVars, history
<1>9. CASE RequestIsLost(m)
  BY <1>2, <1>3, <1>4, <1>9 DEF RequestIsLost, formVars, askVars, history
<1>10. QED
  BY <1>5, <1>6, <1>7, <1>8, <1>9 DEF Answers

LEMMA ReloadTyped ==
  ASSUME PageTyped, PageInv', Reload
  PROVE  PageTyped'
<1> DEFINE kept == {n \in flight : n.answer = "none"}
           Silent(m) == [m EXCEPT !.heard = FALSE]
<1>1. /\ edits < MaxEdits /\ edits' = edits + 1 /\ form' = draft.payload
      /\ button' = "idle"
      /\ flight' = {Silent(m) : m \in kept}
      /\ shownOf' = Unset /\ analysing' = {Selector(draft.payload)} \ {Unset}
      /\ quiet' = FALSE /\ UNCHANGED <<draft, removed, launched>>
  BY DEF Reload
<1>2. timer' \in Timers
  BY DEF Reload, Timers
<1>3. FlightTyped'
  <2>1. IsFiniteSet(kept) /\ Cardinality(kept) \in Nat /\ Cardinality(kept) <= Cardinality(flight)
    BY FewerInFlight DEF PageTyped, FlightTyped
  <2> HIDE DEF kept, Silent
  <2>2. IsFiniteSet(flight') /\ Cardinality(flight') <= Cardinality(kept)
    <3> DEFINE silenced == [m \in kept |-> Silent(m)]
    <3>1. silenced \in Surjection(kept, flight')
      BY <1>1 DEF Surjection
    <3> HIDE DEF silenced
    <3>2. QED
      BY <2>1, <3>1, FS_Surjection
  <2>3. Cardinality(flight') \in Nat /\ Cardinality(flight) \in Nat
    BY <2>2, FS_CardinalityType DEF PageTyped, FlightTyped
  <2>4. Cardinality(flight') <= MaxFlight
    BY <2>1, <2>2, <2>3, PageAssumption DEF PageTyped, FlightTyped
  <2>5. ASSUME NEW m \in kept
        PROVE  BodyTyped(Silent(m))
    <3>1. Message(m) /\ BodyTyped(m)
      BY DEF kept, PageTyped, PageInv, PageShape, FlightTyped
    <3>2. Silent(m) = [kind |-> m.kind, body |-> m.body, heard |-> FALSE, answer |-> m.answer]
      BY <3>1, Unheard DEF Silent
    <3>3. QED
      BY <3>1, <3>2 DEF BodyTyped
  <2>6. \A n \in flight' : BodyTyped(n)
    BY <1>1, <2>5
  <2>7. QED
    BY <2>2, <2>4, <2>6 DEF FlightTyped, BodyTyped, CtaValues, DesignValues
<1> HIDE DEF kept, Silent
<1>4. Selector(draft.payload) \in DesignValues
  BY DEF Selector, PageTyped, PayloadTyped, DesignValues
<1>5. AnalysisTyped'
  BY <1>1, <1>4 DEF AnalysisTyped, DesignValues
<1>6. ButtonTyped'
  <2>1. edits' \in 0..MaxEdits
    BY <1>1, PageAssumption DEF PageTyped, ButtonTyped
  <2>2. QED
    BY <1>1, <1>2, <2>1 DEF ButtonTyped
<1>7. QED
  BY <1>1, <1>3, <1>5, <1>6 DEF PageTyped, PayloadTyped, CtaValues, DesignValues, LaunchedOnce

LEMMA QuotesTyped ==
  ASSUME PageTyped, PageInv', (\E i \in quoting : QuoteArrives(i)) \/ (\E d \in analysing : AnalysisArrives(d))
  PROVE  PageTyped'
<1>1. /\ UNCHANGED <<formVars, button, flight, draft, removed, history>>
      /\ analysing' \subseteq analysing /\ (shownOf' = shownOf \/ shownOf' \in analysing)
  BY DEF QuoteArrives, AnalysisArrives
<1>2. AnalysisTyped'
  BY <1>1 DEF PageTyped, AnalysisTyped, DesignValues
<1>3. QED
  BY <1>1, <1>2 DEF formVars, history, PageTyped, PayloadTyped, FlightTyped, BodyTyped, ButtonTyped,
                    LaunchedOnce, CtaValues, DesignValues

LEMMA PageTypedStep == PageTyped /\ [PageNext]_pageVars => PageTyped'
<1> SUFFICES ASSUME PageTyped, [PageNext]_pageVars
             PROVE  PageTyped'
  OBVIOUS
<1>1. PageInv'
  BY PageStep DEF PageTyped
<1>2. CASE UNCHANGED pageVars
  <2>1. UNCHANGED <<form, edits, timer, quiet, button, flight, draft, removed, shownOf, analysing, launched>>
    BY <1>2 DEF pageVars, formVars, askVars, history
  <2>2. PayloadTyped(form)' /\ PayloadTyped(draft.payload)'
    BY <2>1 DEF PageTyped, PayloadTyped, CtaValues, DesignValues
  <2>3. FlightTyped' /\ AnalysisTyped' /\ ButtonTyped' /\ LaunchedOnce'
    BY <2>1 DEF PageTyped, FlightTyped, BodyTyped, AnalysisTyped, ButtonTyped, LaunchedOnce,
                CtaValues, DesignValues
  <2>4. QED
    BY <1>1, <2>1, <2>2, <2>3 DEF PageTyped
<1>3. QED
  BY <1>1, <1>2, EditsTyped, ReloadTyped, RequestsLeaveTyped, ServerTyped, PageHears, QuotesTyped
     DEF PageNext

(* The page is opened.                                                      *)
LEMMA PageInitial == PageInit => PageTyped
<1>1. ASSUME NEW p, PayloadTyped(p), PageOpens(p)
      PROVE  PageTyped
  <2>1. PageShape
    BY <1>1 DEF PageOpens, PageShape, FirstQuote, PayloadTyped
  <2>2. QuoteAwaited
    <3>1. InputsOf(form) = InputsOf(p) /\ form = p /\ quote = FirstQuote(p) /\ quoting = Asked(p)
      BY <1>1 DEF PageOpens
    <3>2. QED
      BY <3>1, TypeOfTest DEF QuoteAwaited, FirstQuote, Asked
  <2>3. CandidatesShown /\ QuietLaunch /\ LaunchedQuietly
    BY <1>1 DEF PageOpens, CandidatesShown, QuietLaunch, LaunchedQuietly
  <2>4. IsFiniteSet(flight) /\ Cardinality(flight) = 0 /\ flight = {}
    BY <1>1, FS_EmptySet DEF PageOpens
  <2>5. FlightTyped
    BY <2>4, PageAssumption DEF FlightTyped
  <2>6. timer \in Timers
    BY <1>1 DEF PageOpens, Timers
  <2>7. ButtonTyped
    <3>1. edits = 0 /\ quiet = FALSE /\ button = "idle"
      BY <1>1 DEF PageOpens
    <3>2. 0 \in 0..MaxEdits
      BY PageAssumption
    <3>3. QED
      BY <2>6, <3>1, <3>2, Zenon DEF ButtonTyped
  <2>8. AnalysisTyped /\ LaunchedOnce /\ removed \subseteq Designs
    BY <1>1 DEF PageOpens, AnalysisTyped, LaunchedOnce, DesignValues
  <2>9. form = p /\ draft.payload = p /\ draft.status = "draft"
    BY <1>1 DEF PageOpens
  <2>10. QED
    BY <1>1, <2>1, <2>2, <2>3, <2>5, <2>7, <2>8, <2>9 DEF PageTyped, PageInv
<1>2. PayloadTyped(NewForm)
  BY DEF PayloadTyped, NewForm, Fields, CtaValues, DesignValues
<1>3. PayloadTyped(DraftLeftOpen)
  BY <1>2 DEF PayloadTyped, DraftLeftOpen, Fields
<1>4. QED
  BY <1>1, <1>2, <1>3 DEF PageInit, PageOpensNew

LEMMA PageIsTyped == PageTyped => PageTypeOK
<1> SUFFICES ASSUME PageTyped
             PROVE  PageTypeOK
  OBVIOUS
<1>1. Cardinality(flight) <= MaxFlight + 1
  <2>1. Cardinality(flight) \in Nat
    BY FS_CardinalityType DEF PageTyped, FlightTyped
  <2>2. QED
    BY <2>1, PageAssumption DEF PageTyped, FlightTyped
<1>2. Cardinality(launched) <= 1
  <2>1. CASE launched = {}
    BY <2>1, FS_EmptySet
  <2>2. ASSUME NEW l, launched = {l}
        PROVE  Cardinality(launched) <= 1
    BY <2>2, FS_Singleton
  <2>3. QED
    BY <2>1, <2>2 DEF PageTyped, LaunchedOnce
<1>3. QED
  BY <1>1, <1>2 DEF PageTyped, PayloadTyped, AnalysisTyped, ButtonTyped, CtaValues, DesignValues, Timers, PageTypeOK

-----------------------------------------------------------------------------
(* PageIsSound: however requests overtake each other, fail or are repeated, *)
(* the price on the page is that of the chosen test, a confirmed candidate  *)
(* lies on the image it is sent for, and what is launched undisturbed is    *)
(* what was on the screen.                                                  *)
THEOREM PagesAreSound == PageSpec => []PageIsSound
<1>1. PageInit => PageInv
  BY PageInitial DEF PageTyped
<1>2. PageInv => PageIsSound
  <2>1. ASSUME QuoteAwaited, ~quote.loading
        PROVE  quote.shown \in {NoInputs, InputsOf(form)}
    BY <2>1 DEF QuoteAwaited
  <2>2. QED
    BY <2>1 DEF PageInv, CandidatesShown, LaunchedQuietly, PageIsSound
<1>3. QED
  BY <1>1, <1>2, PageStep, PTL DEF PageSpec

(* PageTypeOK: every part of the page and of its draft has its type, and    *)
(* what is in flight stays within the bound for any number of images.       *)
THEOREM PageTypeCorrect == PageSpec => []PageTypeOK
  BY PageInitial, PageTypedStep, PageIsTyped, PTL DEF PageSpec
=============================================================================
