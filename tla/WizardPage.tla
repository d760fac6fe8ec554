----------------------------- MODULE WizardPage -----------------------------
(* One open page of the test wizard (frontend/src/pages/wizard) and what    *)
(* its requests do to the draft on the server.  The page keeps a form of    *)
(* its own; half a second after a change it patches the draft with all of   *)
(* it.  Requests in flight are neither ordered nor cancelled, and nobody    *)
(* writes an answer to a patch back into the form, save for an annotation.  *)
(* Module Wizard has the server's side in full; here are tests of a single  *)
(* design (a comparison has the same fields twice), and one text field.     *)
EXTENDS Naturals, FiniteSets

CONSTANTS
  Designs,      \* images the user may upload
  MaxEdits,     \* bound: changes of the form
  MaxFlight     \* bound: patches and launches in flight

ASSUME PageAssumption == MaxEdits \in Nat /\ MaxFlight \in Nat

VARIABLES
  form,         \* payload of the page: field -> value, "unset" if undefined
  edits,        \* number of changes so far
  timer,        \* autosave of the last change: "off", "due", "never" (the page knows of a launch)
  button,       \* launch: "idle", "saving" (the last patch), "starting", "done"
  flight,       \* requests in flight and their answers
  draft,        \* the server's payload and status
  removed,      \* images deleted from the server
  quote,        \* what the page shows, whether it waits, what it asked for last
  quoting,      \* quote requests in flight
  shownOf,      \* the image whose analysis, with its candidates, is shown
  analysing,    \* images whose analysis was asked for and is awaited
  clicked,      \* the form when the launch button was last pressed (history)
  quiet,        \* nothing was in flight then, nothing has changed since (history)
  launched,     \* what was launched: payload, form clicked, quiet (history)
  drawn         \* annotations sent: their image, and the image of the box (history)

formVars == <<form, edits, timer>>
askVars == <<quote, quoting, shownOf, analysing>>
history == <<clicked, quiet, launched, drawn>>
pageVars == <<formVars, askVars, button, flight, draft, removed, history>>

Fields == {"text", "kind", "source", "design", "cta", "network"}
Unset == "unset"
Kinds == {"single", "accessibility"}
(* A field that was never set; an empty text is one that is not yet valid.  *)
NewForm == [f \in Fields |-> IF f = "network" THEN "off"
                             ELSE IF f = "source" THEN "url"
                             ELSE IF f = "text" THEN "invalid" ELSE Unset]
NoInputs == [type |-> Unset, network |-> "off"]

-----------------------------------------------------------------------------
(* The form.  Effects run as soon as what they depend on has changed.       *)

(* activeSourceTypes, isModuleCompatibleWithSources                         *)
NetworkFits(p) == p.source = "url"

(* handleChange: an accessibility test keeps no screenshot.  Then modules   *)
(* that do not fit go.                                                      *)
Reset(p) == [p EXCEPT !.source = IF p.kind = "accessibility" THEN "url" ELSE @]
Cleaned(p) == LET q == Reset(p) IN [q EXCEPT !.network = IF NetworkFits(q) THEN @ ELSE "off"]

InputsOf(p) == [type |-> CASE p.kind = Unset -> Unset
                           [] p.kind = "accessibility" -> "accessibility_precheck"
                           [] OTHER -> "basic_ux_test",
                network |-> p.network]

Asked(p) == IF p.kind = Unset THEN {} ELSE {InputsOf(p)}
FirstQuote(p) ==
  [shown |-> NoInputs, loading |-> Asked(p) # {}, awaited |-> IF Asked(p) = {} THEN NoInputs ELSE InputsOf(p)]

(* The page is opened on a new draft or on one that was left open.          *)
DraftLeftOpen ==
  [NewForm EXCEPT !.text = "valid", !.kind = "single", !.source = "screenshot"]

PageOpens(p) ==
  /\ form = p
  /\ edits = 0
  /\ timer = IF p = NewForm THEN "off" ELSE "due"
  /\ button = "idle"
  /\ flight = {}
  /\ draft = [status |-> "draft", payload |-> p]
  /\ removed = {}
  /\ quote = FirstQuote(p)
  /\ quoting = Asked(p)
  /\ shownOf = Unset
  /\ analysing = {}
  /\ clicked = NewForm
  /\ quiet = FALSE
  /\ launched = {}
  /\ drawn = {}
PageOpensNew == PageOpens(NewForm)
PageInit == PageOpensNew \/ PageOpens(DraftLeftOpen)

(* The quote effect: the last request is no longer awaited.                 *)
Requote(p) ==
  IF InputsOf(p) = InputsOf(form) THEN UNCHANGED <<quote, quoting>>
  ELSE IF p.kind = Unset
  THEN quote' = [quote EXCEPT !.shown = NoInputs, !.awaited = NoInputs] /\ UNCHANGED quoting
  ELSE /\ quote' = [quote EXCEPT !.loading = TRUE, !.awaited = InputsOf(p)]
       /\ quoting' = quoting \cup {InputsOf(p)}

(* The selector is on the page for screenshots only; it starts over for     *)
(* another image and when it comes back.                                    *)
Selector(p) == IF p.source = "screenshot" THEN p.design ELSE Unset
Analyse(p) ==
  IF Selector(p) = Selector(form) THEN UNCHANGED <<shownOf, analysing>>
  ELSE /\ shownOf' = Unset
       /\ analysing' = analysing \cup ({Selector(p)} \ {Unset})

(* Where the selector is on the page, an image that replaces another takes  *)
(* the annotation with it.                                                  *)
Annotated(p) ==
  [p EXCEPT !.cta = IF form.source = "screenshot" /\ form.design # Unset /\ p.design # form.design
                    THEN "null" ELSE @]

(* Nothing is saved once the page knows that the draft was launched.        *)
Restarted == IF timer = "never" THEN "never" ELSE "due"
Becomes(q) ==
  /\ form' = q
  /\ timer' = Restarted
  /\ edits' = edits + 1
  /\ Requote(q)
  /\ Analyse(q)

(* The form stays open while a launch is on its way.                        *)
Editable == button # "done" /\ edits < MaxEdits
HandleChange(p) ==
  /\ Editable /\ p # form
  /\ Becomes(Annotated(Cleaned(p)))
  /\ quiet' = FALSE
  /\ UNCHANGED <<button, flight, draft, removed, clicked, launched, drawn>>

Edit ==
  \/ HandleChange([form EXCEPT !.text = "valid"])
  \/ HandleChange([form EXCEPT !.text = "other"])
  \/ \E k \in Kinds : HandleChange([form EXCEPT !.kind = k])
  \/ form.kind # "accessibility" /\ \E s \in {"url", "screenshot"} : HandleChange([form EXCEPT !.source = s])
  \/ NetworkFits(form) /\ HandleChange([form EXCEPT !.network = "on"])
  \/ HandleChange([form EXCEPT !.network = "off"])

(* An upload or a removal ends whenever it ends.  By then the user may have *)
(* left the step with the selector: it comes back as for another image, and *)
(* the annotation stays.                                                    *)
DesignBecomes(d) ==
  /\ Editable /\ d # form.design
  /\ LET q == Cleaned([form EXCEPT !.design = d]) IN Becomes(q) \/ Becomes(Annotated(q))
  /\ quiet' = FALSE
  /\ UNCHANGED <<button, flight, draft, clicked, launched, drawn>>

UploadEnds(d) == d \notin removed /\ DesignBecomes(d) /\ UNCHANGED removed

(* handleRemove: the server deletes the image, the form forgets it.         *)
RemoveDesign ==
  /\ form.source = "screenshot" /\ form.design # Unset
  /\ removed' = removed \cup {form.design}
  /\ DesignBecomes(Unset)

-----------------------------------------------------------------------------
(* Requests.  JSON leaves out what is undefined.                            *)
Body(p) == [f \in {g \in Fields : p[g] # Unset} |-> p[f]]
Sanitized(p) == [f \in DOMAIN Body(p) \ (IF p.text = "invalid" THEN {"text"} ELSE {}) |-> p[f]]

(* heard: the page still waits for the answer.                              *)
Request(kind, body) ==
  [kind |-> kind, body |-> body, heard |-> kind # "autosave", answer |-> "none"]
Dispatch(requests) ==
  /\ Cardinality(flight \cup requests) <= MaxFlight
  /\ flight' = flight \cup requests
Waiting(kind) == \E m \in flight : m.kind = kind /\ m.heard

Autosave ==
  /\ timer = "due"
  /\ Dispatch({Request("autosave", Sanitized(form))})
  /\ timer' = "off"
  /\ UNCHANGED <<form, edits, askVars, button, draft, removed, history>>

(* saveAnnotation: the box comes from the analysis that is shown.           *)
ConfirmCandidate ==
  /\ button # "done" /\ ~Waiting("annotation")
  /\ Selector(form) # Unset /\ shownOf # Unset
  /\ Dispatch({Request("annotation", [f \in {"cta"} |-> form.design])})
  /\ drawn' = drawn \cup {<<form.design, shownOf>>}
  /\ quiet' = FALSE
  /\ UNCHANGED <<formVars, askVars, button, draft, removed, clicked, launched>>

(* handleLaunch: first the whole form, then the launch.  The last step asks *)
(* for nothing but the confirmation; the server refuses what is missing.    *)
Press(requests) ==
  /\ button = "idle"
  /\ Dispatch(requests)
  /\ button' = "saving"
  /\ clicked' = form
  /\ quiet' = (flight = {})
  /\ UNCHANGED <<formVars, askVars, draft, removed, launched, drawn>>

(* A mutant: the launch is sent along with the patch.                       *)
PressLaunchAtOnce == Press({Request("final", Body(form)), Request("launch", <<>>)})

PressLaunch == Press({Request("final", Body(form))})

-----------------------------------------------------------------------------
(* The server.                                                              *)
Answered(m, ok) ==
  flight' = (flight \ {m})
            \cup (IF m.heard THEN {[m EXCEPT !.answer = IF ok THEN "ok" ELSE "refused"]} ELSE {})

(* merge_payload, invalidate_stale_cta_annotations                          *)
Merged(body) ==
  LET merged == [f \in Fields |-> IF f \in DOMAIN body THEN body[f] ELSE draft.payload[f]] IN
  IF merged.design # draft.payload.design /\ "cta" \notin DOMAIN body
  THEN [merged EXCEPT !.cta = "null"] ELSE merged

(* What patch_draft checks of the fields sent and of the merged payload.    *)
Acceptable(body) ==
  LET p == Merged(body) IN
  /\ ("text" \in DOMAIN body) => body.text # "invalid"
  /\ p.kind = "accessibility" => p.source = "url"
  /\ p.source = "screenshot" => p.design \notin removed
  /\ ("cta" \in DOMAIN body) => (body.cta = "null" \/ (body.cta = p.design /\ body.cta \notin removed))

ServerPatches(m) ==
  /\ m.kind # "launch" /\ m.answer = "none"
  /\ LET ok == draft.status = "draft" /\ Acceptable(m.body) IN
     /\ draft' = IF ok THEN [draft EXCEPT !.payload = Merged(m.body)] ELSE draft
     /\ Answered(m, ok)
  /\ UNCHANGED <<formVars, askVars, button, removed, history>>

Launchable(p) ==
  /\ p.kind # Unset /\ p.text # "invalid"
  /\ p.source = "screenshot" => p.design \notin removed \cup {Unset}
  /\ p.network = "on" => NetworkFits(p)

(* A launched draft answers with what it launched.                          *)
ServerLaunches(m) ==
  /\ m.kind = "launch" /\ m.answer = "none"
  /\ LET starts == draft.status = "draft" /\ Launchable(draft.payload) IN
     /\ draft' = IF starts THEN [draft EXCEPT !.status = "launched"] ELSE draft
     /\ launched' = IF starts THEN {[payload |-> draft.payload, clicked |-> clicked, quiet |-> quiet]}
                    ELSE launched
     /\ Answered(m, starts \/ draft.status = "launched")
  /\ UNCHANGED <<formVars, askVars, button, removed, clicked, quiet, drawn>>

-----------------------------------------------------------------------------
(* What the page does with the answers.                                     *)

(* The patch went through: now the launch.                                  *)
PatchIsAnswered(m) ==
  /\ m.kind = "final" /\ m.heard /\ m.answer # "none"
  /\ LET rest == flight \ {m} IN
     IF m.answer = "ok" /\ button = "saving"
     THEN /\ flight' = rest \cup {Request("launch", <<>>)}
          /\ button' = "starting"
     ELSE /\ flight' = rest
          /\ button' = "idle"
  /\ UNCHANGED <<formVars, askVars, draft, removed, history>>

LaunchIsAnswered(m) ==
  /\ m.kind = "launch" /\ m.heard /\ m.answer # "none"
  /\ flight' = flight \ {m}
  /\ button' = IF m.answer = "ok" THEN "done" ELSE "idle"
  /\ timer' = IF m.answer = "ok" THEN "never" ELSE timer
  /\ UNCHANGED <<form, edits, askVars, draft, removed, history>>

(* onAnnotationChange: the form takes the annotation, whatever its image is *)
(* by now.                                                                  *)
AnnotationIsAnswered(m) ==
  /\ m.kind = "annotation" /\ m.heard /\ m.answer # "none"
  /\ flight' = flight \ {m}
  /\ IF m.answer = "ok"
     THEN form' = [form EXCEPT !.cta = m.body.cta] /\ timer' = Restarted
     ELSE UNCHANGED <<form, timer>>
  /\ quiet' = FALSE
  /\ UNCHANGED <<edits, askVars, button, draft, removed, clicked, launched, drawn>>

(* The connection fails: the server may get to see the request all the same. *)
RequestFails(m) ==
  /\ m.heard
  /\ flight' = (flight \ {m}) \cup (IF m.answer = "none" THEN {[m EXCEPT !.heard = FALSE]} ELSE {})
  /\ button' = IF m.kind = "annotation" THEN button ELSE "idle"
  /\ UNCHANGED <<formVars, askVars, draft, removed, history>>

RequestIsLost(m) ==
  /\ ~m.heard
  /\ flight' = flight \ {m}
  /\ UNCHANGED <<formVars, askVars, button, draft, removed, history>>

-----------------------------------------------------------------------------
(* Quotes and analyses, answered in any order.                              *)

(* A mutant: the answer that came last is shown.                            *)
QuoteArrivesUnasked(i) ==
  /\ i \in quoting
  /\ quoting' = quoting \ {i}
  /\ quote' = [quote EXCEPT !.shown = i, !.loading = FALSE]
  /\ UNCHANGED <<formVars, shownOf, analysing, button, flight, draft, removed, history>>

(* An answer that is no longer awaited is dropped; a failure shows none.    *)
QuoteArrives(i) ==
  /\ i \in quoting
  /\ quoting' = quoting \ {i}
  /\ \/ quote' = IF i = quote.awaited THEN [quote EXCEPT !.shown = i, !.loading = FALSE] ELSE quote
     \/ quote' = IF i = quote.awaited THEN [quote EXCEPT !.shown = NoInputs, !.loading = FALSE] ELSE quote
  /\ UNCHANGED <<formVars, shownOf, analysing, button, flight, draft, removed, history>>

(* A mutant: the late result of another image is shown.                     *)
AnalysisArrivesLate(d) ==
  /\ d \in analysing
  /\ analysing' = analysing \ {d}
  /\ shownOf' = d
  /\ UNCHANGED <<formVars, quote, quoting, button, flight, draft, removed, history>>

(* startedForAssetId: a result for another image is dropped.                *)
AnalysisArrives(d) ==
  /\ d \in analysing
  /\ analysing' = analysing \ {d}
  /\ shownOf' = IF d = Selector(form) THEN d ELSE shownOf
  /\ UNCHANGED <<formVars, quote, quoting, button, flight, draft, removed, history>>

(* The page is opened again on the same draft: answers to the old page find *)
(* nobody, the form is what the server has.  That of a launched draft shows *)
(* its form too, but does not save it.                                      *)
Reload ==
  /\ edits < MaxEdits
  /\ edits' = edits + 1
  /\ form' = draft.payload
  /\ timer' = IF draft.status = "draft" THEN "due" ELSE "never"
  /\ button' = "idle"
  /\ flight' = {[m EXCEPT !.heard = FALSE] : m \in {n \in flight : n.answer = "none"}}
  /\ quoting' = Asked(draft.payload)
  /\ quote' = FirstQuote(draft.payload)
  /\ shownOf' = Unset
  /\ analysing' = {Selector(draft.payload)} \ {Unset}
  /\ quiet' = FALSE
  /\ UNCHANGED <<draft, removed, clicked, launched, drawn>>

-----------------------------------------------------------------------------
Answers(m) == PatchIsAnswered(m) \/ LaunchIsAnswered(m) \/ AnnotationIsAnswered(m)
PageNext ==
  \/ Edit \/ RemoveDesign \/ Reload \/ (\E d \in Designs : UploadEnds(d))
  \/ Autosave \/ ConfirmCandidate \/ PressLaunch
  \/ \E m \in flight :
       ServerPatches(m) \/ ServerLaunches(m) \/ Answers(m) \/ RequestFails(m) \/ RequestIsLost(m)
  \/ (\E i \in quoting : QuoteArrives(i)) \/ (\E d \in analysing : AnalysisArrives(d))
PageSpec == PageInit /\ [][PageNext]_pageVars

PageTypeOK ==
  /\ DOMAIN form = Fields /\ DOMAIN draft.payload = Fields
  /\ form.cta \in Designs \cup {Unset, "null"}
  /\ form.design \in Designs \cup {Unset}
  /\ edits \in 0..MaxEdits /\ timer \in {"off", "due", "never"} /\ quiet \in BOOLEAN
  /\ button \in {"idle", "saving", "starting", "done"}
  /\ draft.status \in {"draft", "launched"}
  /\ Cardinality(flight) <= MaxFlight + 1
  /\ removed \subseteq Designs /\ analysing \subseteq Designs /\ shownOf \in Designs \cup {Unset}
  /\ Cardinality(launched) <= 1

(* What the page says and sends belongs to what the form shows: a price     *)
(* that is not being computed is the price of the chosen test and modules   *)
(* (TestWizard.tsx, the quote effect), a confirmed candidate is one of the  *)
(* image it is sent for (ScreenshotCtaSelector), and unless other requests  *)
(* or changes got in between, what is launched is what was on the screen    *)
(* when the button was pressed (handleLaunch).                              *)
PageIsSound ==
  /\ ~quote.loading => quote.shown \in {NoInputs, InputsOf(form)}
  /\ \A pair \in drawn : pair[1] = pair[2]
  /\ \A l \in launched : l.quiet => \A f \in DOMAIN Body(l.clicked) : l.payload[f] = l.clicked[f]

(* Not an invariant: an older autosave that is still in flight, or one of a *)
(* change made meanwhile, gets in between the last patch and the launch.    *)
LaunchedAsClicked ==
  \A l \in launched : \A f \in DOMAIN Body(l.clicked) : l.payload[f] = l.clicked[f]

(* Not an invariant: nobody is told that the draft names a deleted image    *)
(* while the form names none; every further autosave is refused.            *)
DraftNamesUsableImage ==
  draft.payload.source = "screenshot" => draft.payload.design \notin removed
=============================================================================
