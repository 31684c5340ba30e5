------------------------------ MODULE Extraction ------------------------------
(***************************************************************************)
(* How a document becomes fields: the text layer to Groq, a scan to        *)
(* Gemini's vision, each down a chain of pinned models and under a daily   *)
(* budget, with local patterns behind the one and nothing behind the       *)
(* other.  One document at a time; the requests made of every model and    *)
(* the budget spent outlive it.                                            *)
(***************************************************************************)
EXTENDS Integers, Sequences, FiniteSets

CONSTANTS
    TextModels, VisionModels,    \* the pinned models, best first
    TextBudget, VisionBudget,    \* DAILY_QUOTA_TEXT, DAILY_QUOTA_VISION
    LastDocument,                \* documents read in the day
    MaxFaults,                   \* times the counter of the budget is out of order
    Readings                     \* sets of fields a page may show, or a reader report

Fields   == {"vendor_name", "invoice_number", "total", "parts", "other"}
Required == {"vendor_name", "invoice_number", "total"}   \* and CONFIDENCE_GATED_FIELDS

Range(models) == {models[i] : i \in DOMAIN models}

Models == Range(TextModels) \cup Range(VisionModels)

(* No list names a model twice, and a provider's models are its own.       *)
ExtractionAssumption ==
    /\ TextModels \in Seq(Models) \ {<<>>} /\ VisionModels \in Seq(Models) \ {<<>>}
    /\ \A chain \in {TextModels, VisionModels} :
          \A i, j \in DOMAIN chain : chain[i] = chain[j] => i = j
    /\ Range(TextModels) \cap Range(VisionModels) = {}
    /\ TextBudget \in Nat /\ VisionBudget \in Nat /\ LastDocument \in Nat /\ MaxFaults \in Nat
    /\ Readings \subseteq SUBSET Fields

VARIABLES keys, spent, faults, asked, unbudgeted, documents, doc, at, tried, read, info
(* unbudgeted: text documents handed to Gemini, which charges them to no   *)
(* budget.  tried: the position in the chain of models.  In `read`, the    *)
(* fields reported, those reported without confidence, and the screen's    *)
(* finding; in `info`, the route and model a reviewer is told of.          *)

vars == <<keys, spent, faults, asked, unbudgeted, documents, doc, at, tried, read, info>>

NoDoc   == [opens |-> TRUE, text |-> TRUE, shows |-> {}, instructs |-> FALSE]
Unread  == [fields |-> {}, unsure |-> {}, flagged |-> FALSE]
NoRoute == [route |-> "none", model |-> "", exhausted |-> ""]

Init ==
    /\ keys \in [groq : BOOLEAN, gemini : BOOLEAN]
    /\ spent = [text |-> 0, vision |-> 0]
    /\ asked = [m \in Models |-> 0]
    /\ faults = 0 /\ unbudgeted = 0 /\ documents = 0
    /\ doc = NoDoc /\ at = "idle" /\ tried = 0 /\ read = Unread /\ info = NoRoute

day == <<keys, spent, faults, asked, unbudgeted>>

Receive ==
    /\ at \in {"idle", "screened", "aborted"}
    /\ documents < LastDocument
    /\ documents' = documents + 1
    /\ \E opens \in BOOLEAN, text \in BOOLEAN, shows \in Readings, instructs \in BOOLEAN :
          doc' = [opens |-> opens, text |-> text, shows |-> shows, instructs |-> instructs]
    /\ at' = "open" /\ tried' = 0 /\ read' = Unread /\ info' = NoRoute
    /\ UNCHANGED day

(* Encrypted, or no PDF at all: the pipeline ends here.                    *)
extract_text ==
    /\ at = "open"
    /\ at' = IF doc.opens THEN "route" ELSE "aborted"
    /\ UNCHANGED <<day, documents, doc, tried, read, info>>

(* Mutant of Spend: counted, and not held to the budget.                   *)
SpendUnchecked(kind, budget) == spent' = [spent EXCEPT ![kind] = @ + 1] /\ UNCHANGED faults

(* try_consume: DailyQuota, by a caller that has no rival.                 *)
Spend(kind, budget) ==
    \/ spent[kind] < budget /\ spent' = [spent EXCEPT ![kind] = @ + 1] /\ UNCHANGED faults
    \/ budget > 0 /\ faults < MaxFaults /\ faults' = faults + 1 /\ UNCHANGED spent

Exhausted(kind, budget) == spent[kind] >= budget /\ UNCHANGED <<spent, faults>>

(* With a text layer: Groq; without a Groq key, or with its budget gone,   *)
(* Gemini if there is a key to it; else the patterns.                      *)
RouteText ==
    \/ keys.groq /\ Spend("text", TextBudget) /\ at' = "groq" /\ UNCHANGED <<unbudgeted, info>>
    \/ /\ IF keys.groq THEN Exhausted("text", TextBudget) ELSE UNCHANGED <<spent, faults>>
       /\ info' = [info EXCEPT !.exhausted = IF keys.groq THEN "text" ELSE ""]
       /\ IF keys.gemini THEN at' = "gemini" /\ unbudgeted' = unbudgeted + 1
                         ELSE at' = "regex" /\ UNCHANGED unbudgeted

RouteScan ==
    \/ keys.gemini /\ Spend("vision", VisionBudget) /\ at' = "render" /\ UNCHANGED info
    \/ /\ IF keys.gemini THEN Exhausted("vision", VisionBudget) ELSE UNCHANGED <<spent, faults>>
       /\ info' = [info EXCEPT !.exhausted = IF keys.gemini THEN "vision" ELSE ""]
       /\ at' = "read"

_extract_invoice ==
    /\ at = "route"
    /\ \/ doc.text /\ RouteText
       \/ ~doc.text /\ RouteScan /\ UNCHANGED unbudgeted
    /\ tried' = 1
    /\ UNCHANGED <<keys, asked, documents, doc, read>>

render_pages_png ==
    /\ at = "render"
    /\ at' \in {"vision", "read"}
    /\ UNCHANGED <<day, documents, doc, tried, read, info>>

Chain    == IF at = "groq" THEN TextModels ELSE VisionModels
Model    == Chain[tried]
Fallback == IF at = "vision" THEN "read" ELSE "regex"
RouteOf  == CASE at = "groq" -> "groq-text"
              [] at = "gemini" -> "gemini-text"
              [] at = "vision" -> "gemini-vision"

Ask == at \in {"groq", "gemini", "vision"} /\ asked' = [asked EXCEPT ![Model] = @ + 1]

(* Mutant of Following: the model that declined is asked again.            *)
FollowingIsSame(i) == i

Following(i) == i + 1

(* 404, 429, 500 and 503 are the model's: the next one is tried.           *)
Decline ==
    /\ Ask
    /\ IF tried < Len(Chain) THEN tried' = Following(tried) /\ UNCHANGED at
                             ELSE at' = Fallback /\ UNCHANGED tried
    /\ UNCHANGED <<keys, spent, faults, unbudgeted, documents, doc, read, info>>

(* Any other refusal ends the chain, and so does a reply that does not     *)
(* parse, whose model stays on record as the one that answered.            *)
Refuse ==
    /\ Ask
    /\ at' = Fallback
    /\ info' \in {info, [info EXCEPT !.model = Model]}
    /\ UNCHANGED <<keys, spent, faults, unbudgeted, documents, doc, tried, read>>

(* A model reports whatever it will, each field with its own confidence;   *)
(* an amount that no column can hold is as good as none.                   *)
_invoice_from_payload(said, unusable, unsure) ==
    LET fields == IF unusable THEN said \ {"total"} ELSE said
    IN  [fields |-> fields, unsure |-> unsure \cap fields, flagged |-> FALSE]

Answer ==
    /\ Ask
    /\ \E said \in Readings, unusable \in BOOLEAN, unsure \in {{}, {"total"}} :
          read' = _invoice_from_payload(said, unusable, unsure)
    /\ info' = [info EXCEPT !.route = RouteOf, !.model = Model]
    /\ at' = "read"
    /\ UNCHANGED <<keys, spent, faults, unbudgeted, documents, doc, tried>>

(* The patterns find nothing that is not on the page, except a total that  *)
(* is the sum of its parts, and of that they are not confident.            *)
regex_extract ==
    /\ at = "regex"
    /\ \E found \in SUBSET doc.shows :
          read' = IF "total" \notin found /\ "parts" \in found
                  THEN [Unread EXCEPT !.fields = found \cup {"total"}, !.unsure = {"total"}]
                  ELSE [Unread EXCEPT !.fields = found]
    /\ info' = [info EXCEPT !.route = "regex"]
    /\ at' = "read"
    /\ UNCHANGED <<day, documents, doc, tried>>

(* Of a text layer and of each field the first 20,000 characters are       *)
(* screened, though a model reads 60,000: `instructs` is about the former. *)
(* Of a scan only what was transcribed is.                                 *)
validate_extracted_security ==
    /\ at = "read"
    /\ \E transcribed \in BOOLEAN :
          read' = [read EXCEPT !.flagged = doc.instructs
                       /\ (doc.text \/ (info.route # "none" /\ transcribed))]
    /\ at' = "screened"
    /\ UNCHANGED <<day, documents, doc, tried, info>>

Next ==
    \/ Receive \/ extract_text \/ _extract_invoice \/ render_pages_png
    \/ Decline \/ Refuse \/ Answer \/ regex_extract \/ validate_extracted_security

Spec == Init /\ [][Next]_vars
-----------------------------------------------------------------------------
TypeOK ==
    /\ keys \in [groq : BOOLEAN, gemini : BOOLEAN]
    /\ spent \in [text : 0..TextBudget, vision : 0..VisionBudget]
    /\ asked \in [Models -> Nat]
    /\ faults \in 0..MaxFaults /\ unbudgeted \in Nat /\ documents \in 0..LastDocument
    /\ doc \in [opens : BOOLEAN, text : BOOLEAN, shows : SUBSET Fields, instructs : BOOLEAN]
    /\ at \in {"idle", "open", "route", "render", "groq", "gemini", "vision", "regex", "read",
              "screened", "aborted"}
    /\ tried \in Nat
    /\ read \in [fields : SUBSET Fields, unsure : SUBSET Fields, flagged : BOOLEAN]
    /\ info \in [route : {"none", "regex", "groq-text", "gemini-text", "gemini-vision"},
                 model : Models \cup {""}, exhausted : {"", "text", "vision"}]

(* A document asks a model once, however many of the chain decline: no     *)
(* model gets more requests than were charged to its provider's budget,    *)
(* but for the texts Gemini reads unbudgeted and a counter out of order.   *)
EachAskIsCharged ==
    /\ \A i \in DOMAIN TextModels   : asked[TextModels[i]] <= spent.text + faults
    /\ \A i \in DOMAIN VisionModels : asked[VisionModels[i]] <= spent.vision + faults + unbudgeted

(* README.md: "When a budget is spent the provider is not called at all";  *)
(* "Groq falls back to regex (deliberately not to Gemini, which would      *)
(* spend the scarce budget)".  With both keys, a vision model is asked no  *)
(* more than the vision budget allows.                                     *)
ScansKeepTheirBudget ==
    keys.groq => \A i \in DOMAIN VisionModels : asked[VisionModels[i]] <= VisionBudget
=============================================================================
