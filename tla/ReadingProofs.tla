---------------------------- MODULE ReadingProofs ----------------------------
(***************************************************************************)
(* Proofs about the parts of Safeguards that read: field extraction, the   *)
(* verdict on a message, and the verdict on an invoice with the trail that *)
(* explains it, for any models, messages, invoices and orders.             *)
(***************************************************************************)
EXTENDS SafeguardsProofs

(* Extraction runs by its own specification; other parts leave it alone.   *)
LEMMA ReaderRuns == SafeSpec => X!Spec
  <1>1. SafeInit => X!Init
    BY DEF SafeInit
  <1>2. [SafeNext]_safeVars => [X!Next]_(X!vars)
    <2> SUFFICES ASSUME [SafeNext]_safeVars PROVE [X!Next]_(X!vars)
      OBVIOUS
    <2>1. CASE At("reader") /\ X!Next
      BY <2>1
    <2>2. ASSUME NEW part \in Parts \ {"reader"}, At(part) PROVE UNCHANGED X!vars
      BY <2>2 DEF At, readerVars, X!vars
    <2>3. CASE UNCHANGED safeVars
      BY <2>3 DEF safeVars, readerVars, X!vars
    <2> QED
      BY <2>1, <2>2, <2>3 DEF SafeNext, Parts
  <1> QED
    BY <1>1, <1>2, PTL DEF SafeSpec, X!Spec

-----------------------------------------------------------------------------
(* Extraction: the models still to be asked for this document have one     *)
(* request left each, of those that were charged.                          *)

Keyrings  == [groq : BOOLEAN, gemini : BOOLEAN]
Charges   == [text : 0 .. TextBudget, vision : 0 .. VisionBudget]
Documents == [opens : BOOLEAN, text : BOOLEAN, shows : SUBSET X!Fields, instructs : BOOLEAN]
Places    == {"idle", "open", "route", "render", "groq", "gemini", "vision", "regex", "read",
              "screened", "aborted"}
Reports   == [fields : SUBSET X!Fields, unsure : SUBSET X!Fields, flagged : BOOLEAN]
Routes    == [route : {"none", "regex", "groq-text", "gemini-text", "gemini-vision"},
              model : X!Models \cup {""}, exhausted : {"", "text", "vision"}]

ReaderTypes ==
    /\ keys \in Keyrings /\ spent \in Charges /\ calls \in [X!Models -> Nat]
    /\ blinks \in 0 .. MaxFaults /\ unbudgeted \in Nat /\ documents \in 0 .. LastDocument
    /\ doc \in Documents /\ at \in Places /\ tried \in Nat
    /\ read \in Reports /\ info \in Routes

TextCharged   == spent.text + blinks
VisionCharged == spent.vision + blinks + unbudgeted

Within(models, charged) == \A i \in DOMAIN models : calls[models[i]] <= charged

Left(models, from, charged) ==
    \A i \in DOMAIN models : i >= from => calls[models[i]] + 1 <= charged

ReaderInv ==
    /\ ReaderTypes
    /\ Within(TextModels, TextCharged) /\ Within(VisionModels, VisionCharged)
    /\ at = "render" => Left(VisionModels, 1, VisionCharged)
    /\ at = "render" => tried = 1
    /\ at = "groq" => tried \in DOMAIN TextModels /\ Left(TextModels, tried, TextCharged)
    /\ at \in {"gemini", "vision"} =>
          tried \in DOMAIN VisionModels /\ Left(VisionModels, tried, VisionCharged)

LEMMA TypesAre == X!TypeOK <=> ReaderTypes
  BY Zenon DEF X!TypeOK, ReaderTypes, Keyrings, Charges, Documents, Places, Reports, Routes

(* The models, each in one place of one chain.                             *)
LEMMA ChainsAre ==
  /\ DOMAIN TextModels = 1 .. Len(TextModels) /\ DOMAIN VisionModels = 1 .. Len(VisionModels)
  /\ Len(TextModels) \in Nat \ {0} /\ Len(VisionModels) \in Nat \ {0}
  /\ \A i \in DOMAIN TextModels : TextModels[i] \in X!Models
  /\ \A i \in DOMAIN VisionModels : VisionModels[i] \in X!Models
  /\ \A i, j \in DOMAIN TextModels : TextModels[i] = TextModels[j] => i = j
  /\ \A i, j \in DOMAIN VisionModels : VisionModels[i] = VisionModels[j] => i = j
  /\ \A i \in DOMAIN TextModels, j \in DOMAIN VisionModels : TextModels[i] # VisionModels[j]
  <1>1. /\ TextModels \in Seq(X!Models) /\ TextModels # <<>>
        /\ VisionModels \in Seq(X!Models) /\ VisionModels # <<>>
    BY ReaderConstants DEF X!ExtractionAssumption
  <1>2. /\ DOMAIN TextModels = 1 .. Len(TextModels) /\ DOMAIN VisionModels = 1 .. Len(VisionModels)
        /\ Len(TextModels) \in Nat \ {0} /\ Len(VisionModels) \in Nat \ {0}
    BY <1>1
  <1>3. /\ \A i \in DOMAIN TextModels : TextModels[i] \in X!Range(TextModels)
        /\ \A i \in DOMAIN VisionModels : VisionModels[i] \in X!Range(VisionModels)
    BY DEF X!Range
  <1>4. \A chain \in {TextModels, VisionModels} :
           \A i, j \in DOMAIN chain : chain[i] = chain[j] => i = j
    BY ReaderConstants DEF X!ExtractionAssumption
  <1>5. X!Range(TextModels) \cap X!Range(VisionModels) = {}
    BY ReaderConstants DEF X!ExtractionAssumption
  <1>6. /\ \A i, j \in DOMAIN TextModels : TextModels[i] = TextModels[j] => i = j
        /\ \A i, j \in DOMAIN VisionModels : VisionModels[i] = VisionModels[j] => i = j
    BY <1>4, Zenon
  <1>7. \A i \in DOMAIN TextModels, j \in DOMAIN VisionModels : TextModels[i] # VisionModels[j]
    BY <1>3, <1>5
  <1> QED
    BY <1>2, <1>3, <1>6, <1>7 DEF X!Models

LEMMA ReaderNumbers ==
  /\ TextBudget \in Nat /\ VisionBudget \in Nat /\ MaxFaults \in Nat /\ LastDocument \in Nat
  /\ ReaderTypes =>
        /\ spent.text \in Nat /\ spent.vision \in Nat /\ blinks \in Nat /\ unbudgeted \in Nat
        /\ \A m \in X!Models : calls[m] \in Nat
        /\ TextCharged \in Nat /\ VisionCharged \in Nat
        /\ spent.text <= TextBudget /\ spent.vision <= VisionBudget /\ blinks <= MaxFaults
        /\ documents \in Nat /\ documents <= LastDocument
  <1>1. /\ TextBudget \in Nat /\ VisionBudget \in Nat /\ MaxFaults \in Nat /\ LastDocument \in Nat
    BY ReaderConstants DEF X!ExtractionAssumption
  <1>2. ASSUME ReaderTypes
        PROVE  /\ spent.text \in 0 .. TextBudget /\ spent.vision \in 0 .. VisionBudget
               /\ blinks \in 0 .. MaxFaults /\ unbudgeted \in Nat
               /\ documents \in 0 .. LastDocument
               /\ \A m \in X!Models : calls[m] \in Nat
    BY <1>2 DEF ReaderTypes, Charges
  <1> QED
    BY <1>1, <1>2 DEF TextCharged, VisionCharged

LEMMA ReaderStarts == X!Init => ReaderInv
  <1> SUFFICES ASSUME X!Init PROVE ReaderInv
    OBVIOUS
  <1>1. ReaderTypes
    <2>1. /\ spent \in Charges /\ calls \in [X!Models -> Nat] /\ blinks \in 0 .. MaxFaults
          /\ unbudgeted \in Nat /\ documents \in 0 .. LastDocument /\ tried \in Nat
      BY ReaderNumbers DEF X!Init, Charges
    <2>2. doc \in Documents /\ read \in Reports /\ info \in Routes
      BY DEF X!Init, X!NoDoc, X!Unread, X!NoRoute, Documents, Reports, Routes
    <2> QED
      BY <2>1, <2>2 DEF X!Init, ReaderTypes, Keyrings, Places
  <1>2. Within(TextModels, TextCharged) /\ Within(VisionModels, VisionCharged)
    BY ChainsAre DEF X!Init, Within, TextCharged, VisionCharged
  <1> QED
    BY <1>1, <1>2 DEF ReaderInv, X!Init

(* A step that asks no model, and takes nothing back.                      *)
LEMMA NobodyAsked ==
  ASSUME ReaderInv, ReaderTypes', UNCHANGED <<calls, spent, blinks, unbudgeted>>,
         at' \notin {"render", "groq", "gemini", "vision"}
  PROVE  ReaderInv'
  <1>1. Within(TextModels, TextCharged)' /\ Within(VisionModels, VisionCharged)'
    BY DEF ReaderInv, Within, TextCharged, VisionCharged
  <1> QED
    BY <1>1 DEF ReaderInv

LEMMA ReceiveKeeps == ReaderInv /\ X!Receive => ReaderInv'
  <1> SUFFICES ASSUME ReaderInv, X!Receive PROVE ReaderInv'
    OBVIOUS
  <1>0. UNCHANGED <<keys, spent, blinks, calls, unbudgeted>> /\ ReaderTypes
    BY DEF X!Receive, X!day, ReaderInv
  <1>1. documents' \in 0 .. LastDocument
    BY <1>0, ReaderNumbers DEF X!Receive
  <1>2. PICK opens \in BOOLEAN, text \in BOOLEAN, shows \in Readings, instructs \in BOOLEAN :
          doc' = [opens |-> opens, text |-> text, shows |-> shows, instructs |-> instructs]
    BY DEF X!Receive
  <1>3. doc' \in Documents
    <2>1. shows \in SUBSET X!Fields
      BY ReaderConstants DEF X!ExtractionAssumption
    <2> QED
      BY <1>2, <2>1 DEF Documents
  <1>4. read' \in Reports /\ info' \in Routes
    BY DEF X!Receive, X!Unread, X!NoRoute, Reports, Routes
  <1>5. ReaderTypes'
    BY <1>0, <1>1, <1>3, <1>4 DEF X!Receive, ReaderTypes, Places
  <1> QED
    BY <1>0, <1>5, NobodyAsked DEF X!Receive

LEMMA OpenKeeps == ReaderInv /\ X!extract_text => ReaderInv'
  <1> SUFFICES ASSUME ReaderInv, X!extract_text PROVE ReaderInv'
    OBVIOUS
  <1>1. ReaderTypes'
    BY DEF ReaderInv, ReaderTypes, Places, X!extract_text, X!day
  <1> QED
    BY <1>1, NobodyAsked DEF X!extract_text, X!day

LEMMA RenderKeeps == ReaderInv /\ X!render_pages_png => ReaderInv'
  <1> SUFFICES ASSUME ReaderInv, X!render_pages_png PROVE ReaderInv'
    OBVIOUS
  <1>1. /\ at = "render" /\ at' \in {"vision", "read"}
        /\ UNCHANGED <<keys, spent, blinks, calls, unbudgeted, documents, doc, tried, read, info>>
    BY DEF X!render_pages_png, X!day
  <1>2. ReaderTypes'
    BY <1>1 DEF ReaderInv, ReaderTypes, Places
  <1>3. /\ Within(TextModels, TextCharged)' /\ Within(VisionModels, VisionCharged)'
        /\ Left(VisionModels, tried, VisionCharged)' /\ tried' \in DOMAIN VisionModels
    BY <1>1, ChainsAre DEF ReaderInv, Within, Left, TextCharged, VisionCharged
  <1> QED
    BY <1>1, <1>2, <1>3 DEF ReaderInv

(* A request charged, or a counter out of order.                           *)
LEMMA SpendText ==
  ASSUME ReaderTypes, UNCHANGED unbudgeted, X!Spend("text", TextBudget)
  PROVE  /\ spent' \in Charges /\ blinks' \in 0 .. MaxFaults
         /\ TextCharged' = TextCharged + 1 /\ VisionCharged' >= VisionCharged
         /\ TextCharged' \in Nat /\ VisionCharged' \in Nat
  <1>1. /\ spent \in Charges /\ blinks \in 0 .. MaxFaults /\ unbudgeted \in Nat
        /\ spent.text \in Nat /\ spent.vision \in Nat /\ blinks \in Nat
    BY ReaderNumbers DEF ReaderTypes
  <1>2. \/ UNCHANGED spent /\ blinks' = blinks + 1 /\ blinks < MaxFaults
        \/ UNCHANGED blinks /\ spent' = [spent EXCEPT !.text = @ + 1] /\ spent.text < TextBudget
    BY DEF X!Spend
  <1>3. spent' \in Charges /\ spent'.vision = spent.vision /\ blinks' \in 0 .. MaxFaults
    BY <1>1, <1>2, ReaderNumbers DEF Charges
  <1>4. \/ spent'.text = spent.text /\ blinks' = blinks + 1
        \/ blinks' = blinks /\ spent'.text = spent.text + 1
    BY <1>1, <1>2 DEF Charges
  <1>5. blinks' >= blinks
    BY <1>1, <1>2
  <1> QED
    BY <1>1, <1>3, <1>4, <1>5 DEF TextCharged, VisionCharged

LEMMA SpendVision ==
  ASSUME ReaderTypes, UNCHANGED unbudgeted, X!Spend("vision", VisionBudget)
  PROVE  /\ spent' \in Charges /\ blinks' \in 0 .. MaxFaults
         /\ VisionCharged' = VisionCharged + 1 /\ TextCharged' >= TextCharged
         /\ TextCharged' \in Nat /\ VisionCharged' \in Nat
  <1>1. /\ spent \in Charges /\ blinks \in 0 .. MaxFaults /\ unbudgeted \in Nat
        /\ spent.text \in Nat /\ spent.vision \in Nat /\ blinks \in Nat
    BY ReaderNumbers DEF ReaderTypes
  <1>2. \/ UNCHANGED spent /\ blinks' = blinks + 1 /\ blinks < MaxFaults
        \/ UNCHANGED blinks /\ spent' = [spent EXCEPT !.vision = @ + 1] /\ spent.vision < VisionBudget
    BY DEF X!Spend
  <1>3. spent' \in Charges /\ spent'.text = spent.text /\ blinks' \in 0 .. MaxFaults
    BY <1>1, <1>2, ReaderNumbers DEF Charges
  <1>4. \/ spent'.vision = spent.vision /\ blinks' = blinks + 1
        \/ blinks' = blinks /\ spent'.vision = spent.vision + 1
    BY <1>1, <1>2 DEF Charges
  <1>5. blinks' >= blinks
    BY <1>1, <1>2
  <1> QED
    BY <1>1, <1>3, <1>4, <1>5 DEF TextCharged, VisionCharged

(* The chain is chosen, and its one request charged.                       *)
LEMMA RouteKeeps == ReaderInv /\ X!_extract_invoice => ReaderInv'
  <1> SUFFICES ASSUME ReaderInv, X!_extract_invoice PROVE ReaderInv'
    OBVIOUS
  <1>0. /\ ReaderTypes /\ Within(TextModels, TextCharged) /\ Within(VisionModels, VisionCharged)
    BY DEF ReaderInv
  <1>1. /\ tried' = 1 /\ UNCHANGED <<keys, calls, documents, doc, read>>
        /\ TextCharged \in Nat /\ VisionCharged \in Nat
    BY <1>0, ReaderNumbers DEF X!_extract_invoice
  <1>2. /\ \A i \in DOMAIN TextModels : i \in Nat /\ calls[TextModels[i]] \in Nat
        /\ \A i \in DOMAIN VisionModels : i \in Nat /\ calls[VisionModels[i]] \in Nat
        /\ 1 \in DOMAIN TextModels /\ 1 \in DOMAIN VisionModels
    BY <1>0, ChainsAre, ReaderNumbers
  <1>3. ASSUME TextCharged' >= TextCharged, TextCharged' \in Nat
        PROVE  Within(TextModels, TextCharged)'
    BY <1>0, <1>1, <1>2, <1>3 DEF Within
  <1>4. ASSUME VisionCharged' >= VisionCharged, VisionCharged' \in Nat
        PROVE  Within(VisionModels, VisionCharged)'
    BY <1>0, <1>1, <1>2, <1>4 DEF Within
  <1>5. ASSUME at' = "groq", X!Spend("text", TextBudget), UNCHANGED <<unbudgeted, info>>
        PROVE  ReaderInv'
    <2>1. /\ spent' \in Charges /\ blinks' \in 0 .. MaxFaults
          /\ TextCharged' = TextCharged + 1 /\ VisionCharged' >= VisionCharged
          /\ TextCharged' \in Nat /\ VisionCharged' \in Nat
      BY <1>0, <1>5, SpendText
    <2>2. ReaderTypes'
      BY <1>0, <1>1, <1>5, <2>1 DEF ReaderTypes, Places
    <2>3. Within(TextModels, TextCharged)' /\ Within(VisionModels, VisionCharged)'
      BY <1>1, <1>3, <1>4, <2>1
    <2>4. Left(TextModels, tried, TextCharged)'
      BY <1>0, <1>1, <1>2, <2>1 DEF Within, Left
    <2> QED
      BY <1>1, <1>2, <1>5, <2>2, <2>3, <2>4 DEF ReaderInv
  <1>6. ASSUME at' = "render", X!Spend("vision", VisionBudget), UNCHANGED <<unbudgeted, info>>
        PROVE  ReaderInv'
    <2>1. /\ spent' \in Charges /\ blinks' \in 0 .. MaxFaults
          /\ VisionCharged' = VisionCharged + 1 /\ TextCharged' >= TextCharged
          /\ TextCharged' \in Nat /\ VisionCharged' \in Nat
      BY <1>0, <1>6, SpendVision
    <2>2. ReaderTypes'
      BY <1>0, <1>1, <1>6, <2>1 DEF ReaderTypes, Places
    <2>3. Within(TextModels, TextCharged)' /\ Within(VisionModels, VisionCharged)'
      BY <1>1, <1>3, <1>4, <2>1
    <2>4. Left(VisionModels, 1, VisionCharged)'
      BY <1>0, <1>1, <1>2, <2>1 DEF Within, Left
    <2> QED
      BY <1>1, <1>6, <2>2, <2>3, <2>4 DEF ReaderInv
  <1>7. ASSUME UNCHANGED <<spent, blinks>>, info' \in Routes, at' = "gemini",
               unbudgeted' = unbudgeted + 1
        PROVE  ReaderInv'
    <2>1. spent.vision \in Nat /\ blinks \in Nat /\ unbudgeted \in Nat
      BY <1>0, ReaderNumbers
    <2>2. /\ TextCharged' = TextCharged /\ VisionCharged' = VisionCharged + 1
          /\ unbudgeted' \in Nat
      BY <1>7, <2>1 DEF TextCharged, VisionCharged
    <2>3. ReaderTypes'
      BY <1>0, <1>1, <1>7, <2>2 DEF ReaderTypes, Places
    <2>4. Within(TextModels, TextCharged)' /\ Within(VisionModels, VisionCharged)'
      BY <1>1, <1>3, <1>4, <2>2
    <2>5. Left(VisionModels, tried, VisionCharged)'
      BY <1>0, <1>1, <1>2, <2>2 DEF Within, Left
    <2> QED
      BY <1>1, <1>2, <1>7, <2>3, <2>4, <2>5 DEF ReaderInv
  <1>8. ASSUME UNCHANGED <<spent, blinks, unbudgeted>>, info' \in Routes, at' \in {"regex", "read"}
        PROVE  ReaderInv'
    <2>1. ReaderTypes'
      BY <1>0, <1>1, <1>8 DEF ReaderTypes, Places
    <2> QED
      BY <1>1, <1>8, <2>1, NobodyAsked
  <1>9. info \in Routes /\ \A kind \in {"", "text", "vision"} : [info EXCEPT !.exhausted = kind] \in Routes
    BY <1>0 DEF ReaderTypes, Routes
  <1>10. CASE X!RouteText
    BY <1>5, <1>7, <1>8, <1>9, <1>10 DEF X!RouteText, X!Exhausted
  <1>11. CASE X!RouteScan /\ UNCHANGED unbudgeted
    BY <1>6, <1>8, <1>9, <1>11 DEF X!RouteScan, X!Exhausted
  <1> QED
    BY <1>10, <1>11 DEF X!_extract_invoice

(* A model is asked, of those that had a request left.                     *)
LEMMA AskIsCharged ==
  ASSUME ReaderInv, X!Ask, UNCHANGED <<spent, blinks, unbudgeted>>
  PROVE  /\ calls' \in [X!Models -> Nat] /\ X!Model \in X!Models
         /\ Within(TextModels, TextCharged)' /\ Within(VisionModels, VisionCharged)'
         /\ tried \in DOMAIN X!Chain
         /\ at = "groq" => \A i \in DOMAIN TextModels :
               i >= tried + 1 => calls'[TextModels[i]] + 1 <= TextCharged
         /\ at # "groq" => \A i \in DOMAIN VisionModels :
               i >= tried + 1 => calls'[VisionModels[i]] + 1 <= VisionCharged
  <1>0. /\ ReaderTypes /\ at \in {"groq", "gemini", "vision"}
        /\ Within(TextModels, TextCharged) /\ Within(VisionModels, VisionCharged)
        /\ calls' = [calls EXCEPT ![X!Model] = @ + 1] /\ calls \in [X!Models -> Nat]
        /\ X!Model = X!Chain[tried] /\ X!Chain = IF at = "groq" THEN TextModels ELSE VisionModels
    BY DEF X!Ask, X!Model, X!Chain, ReaderInv, ReaderTypes
  <1>1. TextCharged' = TextCharged /\ VisionCharged' = VisionCharged
    BY DEF TextCharged, VisionCharged
  <1>2. CASE at = "groq"
    <2>1. /\ tried \in DOMAIN TextModels /\ Left(TextModels, tried, TextCharged)
          /\ X!Model = TextModels[tried] /\ X!Model \in X!Models /\ tried \in Nat
      BY <1>0, <1>2, ChainsAre DEF ReaderInv
    <2>2. /\ \A i \in DOMAIN TextModels : calls'[TextModels[i]] =
                IF i = tried THEN calls[TextModels[i]] + 1 ELSE calls[TextModels[i]]
          /\ \A i \in DOMAIN VisionModels : calls'[VisionModels[i]] = calls[VisionModels[i]]
      BY <1>0, <2>1, ChainsAre
    <2>3. calls[TextModels[tried]] + 1 <= TextCharged
      BY <2>1, ReaderNumbers DEF Left
    <2>4. Within(TextModels, TextCharged)' /\ Within(VisionModels, VisionCharged)'
      BY <1>0, <1>1, <2>2, <2>3 DEF Within
    <2>5. \A i \in DOMAIN TextModels : i >= tried + 1 => calls'[TextModels[i]] + 1 <= TextCharged
      BY <2>1, <2>2, ChainsAre DEF Left
    <2> QED
      BY <1>0, <1>2, <2>1, <2>4, <2>5
  <1>3. CASE at \in {"gemini", "vision"}
    <2>1. /\ tried \in DOMAIN VisionModels /\ Left(VisionModels, tried, VisionCharged)
          /\ X!Model = VisionModels[tried] /\ X!Model \in X!Models /\ tried \in Nat
      BY <1>0, <1>3, ChainsAre DEF ReaderInv
    <2>2. /\ \A i \in DOMAIN VisionModels : calls'[VisionModels[i]] =
                IF i = tried THEN calls[VisionModels[i]] + 1 ELSE calls[VisionModels[i]]
          /\ \A i \in DOMAIN TextModels : calls'[TextModels[i]] = calls[TextModels[i]]
      BY <1>0, <2>1, ChainsAre
    <2>3. calls[VisionModels[tried]] + 1 <= VisionCharged
      BY <2>1, ReaderNumbers DEF Left
    <2>4. Within(TextModels, TextCharged)' /\ Within(VisionModels, VisionCharged)'
      BY <1>0, <1>1, <2>2, <2>3 DEF Within
    <2>5. \A i \in DOMAIN VisionModels : i >= tried + 1 => calls'[VisionModels[i]] + 1 <= VisionCharged
      BY <2>1, <2>2, ChainsAre DEF Left
    <2> QED
      BY <1>0, <1>3, <2>1, <2>4, <2>5
  <1> QED
    BY <1>0, <1>2, <1>3

LEMMA DeclineKeeps == ReaderInv /\ X!Decline => ReaderInv'
  <1> SUFFICES ASSUME ReaderInv, X!Decline PROVE ReaderInv'
    OBVIOUS
  <1>0. /\ X!Ask /\ ReaderTypes /\ at \in {"groq", "gemini", "vision"}
        /\ UNCHANGED <<keys, spent, blinks, unbudgeted, documents, doc, read, info>>
    BY DEF X!Decline, X!Ask, ReaderInv
  <1>1. /\ calls' \in [X!Models -> Nat] /\ tried \in DOMAIN X!Chain
        /\ Within(TextModels, TextCharged)' /\ Within(VisionModels, VisionCharged)'
        /\ at = "groq" => \A i \in DOMAIN TextModels :
              i >= tried + 1 => calls'[TextModels[i]] + 1 <= TextCharged
        /\ at # "groq" => \A i \in DOMAIN VisionModels :
              i >= tried + 1 => calls'[VisionModels[i]] + 1 <= VisionCharged
    BY <1>0, AskIsCharged
  <1>2. X!Chain = IF at = "groq" THEN TextModels ELSE VisionModels
    BY DEF X!Chain
  <1>3. TextCharged' = TextCharged /\ VisionCharged' = VisionCharged
    BY <1>0 DEF TextCharged, VisionCharged
  <1>4. CASE tried < Len(X!Chain)
    <2>1. tried' = tried + 1 /\ at' = at
      BY <1>4 DEF X!Decline, X!Following
    <2>2. tried' \in DOMAIN X!Chain /\ tried' \in Nat
      BY <1>1, <1>2, <1>4, <2>1, ChainsAre
    <2>3. ReaderTypes'
      BY <1>0, <1>1, <2>1, <2>2 DEF ReaderTypes
    <2>4. CASE at = "groq"
      <3>1. tried' \in DOMAIN TextModels /\ Left(TextModels, tried, TextCharged)'
        BY <1>1, <1>2, <1>3, <2>1, <2>2, <2>4 DEF Left
      <3> QED
        BY <1>1, <2>1, <2>3, <2>4, <3>1 DEF ReaderInv
    <2>5. CASE at \in {"gemini", "vision"}
      <3>1. tried' \in DOMAIN VisionModels /\ Left(VisionModels, tried, VisionCharged)'
        BY <1>1, <1>2, <1>3, <2>1, <2>2, <2>5 DEF Left
      <3> QED
        BY <1>1, <2>1, <2>3, <2>5, <3>1 DEF ReaderInv
    <2> QED
      BY <1>0, <2>4, <2>5
  <1>5. CASE ~(tried < Len(X!Chain))
    <2>1. tried' = tried /\ at' \in {"read", "regex"}
      BY <1>5 DEF X!Decline, X!Fallback
    <2>2. ReaderTypes'
      BY <1>0, <1>1, <2>1 DEF ReaderTypes, Places
    <2> QED
      BY <1>1, <2>1, <2>2 DEF ReaderInv
  <1> QED
    BY <1>4, <1>5

LEMMA ChainEnds == ReaderInv /\ (X!Refuse \/ X!Answer) => ReaderInv'
  <1> SUFFICES ASSUME ReaderInv, X!Refuse \/ X!Answer PROVE ReaderInv'
    OBVIOUS
  <1>0. /\ X!Ask /\ ReaderTypes /\ info \in Routes /\ at \in {"groq", "gemini", "vision"}
        /\ at' \in {"read", "regex"}
        /\ UNCHANGED <<keys, spent, blinks, unbudgeted, documents, doc, tried>>
    BY DEF X!Refuse, X!Answer, X!Fallback, X!Ask, ReaderInv, ReaderTypes
  <1>1. calls' \in [X!Models -> Nat] /\ X!Model \in X!Models
        /\ Within(TextModels, TextCharged)' /\ Within(VisionModels, VisionCharged)'
    BY <1>0, AskIsCharged
  <1>2. info' \in Routes
    <2>1. X!RouteOf \in {"groq-text", "gemini-text", "gemini-vision"}
      BY <1>0 DEF X!RouteOf
    <2> QED
      BY <1>0, <1>1, <2>1 DEF X!Refuse, X!Answer, Routes
  <1>3. read' \in Reports
    <2>1. CASE X!Refuse
      BY <1>0, <2>1 DEF X!Refuse, ReaderTypes, Places
    <2>2. CASE X!Answer
      <3>1. PICK said \in Readings, unusable \in BOOLEAN, unsure \in {{}, {"total"}} :
              read' = X!_invoice_from_payload(said, unusable, unsure)
        BY <2>2 DEF X!Answer
      <3>2. said \in SUBSET X!Fields /\ unsure \in SUBSET X!Fields
        BY ReaderConstants DEF X!ExtractionAssumption, X!Fields
      <3> QED
        BY <3>1, <3>2 DEF X!_invoice_from_payload, Reports
    <2> QED
      BY <2>1, <2>2
  <1>4. ReaderTypes'
    BY <1>0, <1>1, <1>2, <1>3 DEF ReaderTypes, Places
  <1> QED
    BY <1>0, <1>1, <1>4 DEF ReaderInv

LEMMA PatternsKeep == ReaderInv /\ X!regex_extract => ReaderInv'
  <1> SUFFICES ASSUME ReaderInv, X!regex_extract PROVE ReaderInv'
    OBVIOUS
  <1>0. /\ ReaderTypes /\ info \in Routes /\ doc \in Documents
        /\ UNCHANGED <<keys, spent, blinks, calls, unbudgeted, documents, doc, tried>>
    BY DEF X!regex_extract, X!day, ReaderInv, ReaderTypes
  <1>1. read' \in Reports
    <2>1. PICK found \in SUBSET doc.shows :
            read' = IF "total" \notin found /\ "parts" \in found
                    THEN [X!Unread EXCEPT !.fields = found \cup {"total"}, !.unsure = {"total"}]
                    ELSE [X!Unread EXCEPT !.fields = found]
      BY DEF X!regex_extract
    <2>2. found \subseteq X!Fields /\ "total" \in X!Fields
      BY <1>0 DEF Documents, X!Fields
    <2> QED
      BY <2>1, <2>2 DEF X!Unread, Reports
  <1>2. info' \in Routes
    BY <1>0 DEF X!regex_extract, Routes
  <1>3. ReaderTypes'
    BY <1>0, <1>1, <1>2 DEF X!regex_extract, ReaderTypes, Places
  <1> QED
    BY <1>0, <1>3, NobodyAsked DEF X!regex_extract

LEMMA ScreenKeeps == ReaderInv /\ X!validate_extracted_security => ReaderInv'
  <1> SUFFICES ASSUME ReaderInv, X!validate_extracted_security PROVE ReaderInv'
    OBVIOUS
  <1>0. /\ ReaderTypes /\ read \in Reports /\ doc \in Documents
        /\ UNCHANGED <<keys, spent, blinks, calls, unbudgeted, documents, doc, tried, info>>
    BY DEF X!validate_extracted_security, X!day, ReaderInv, ReaderTypes
  <1>1. read' \in Reports
    <2>1. PICK transcribed \in BOOLEAN :
            read' = [read EXCEPT !.flagged = doc.instructs
                       /\ (doc.text \/ (info.route # "none" /\ transcribed))]
      BY DEF X!validate_extracted_security
    <2> QED
      BY <1>0, <2>1 DEF Reports, Documents
  <1>2. ReaderTypes'
    BY <1>0, <1>1 DEF X!validate_extracted_security, ReaderTypes, Places
  <1> QED
    BY <1>0, <1>2, NobodyAsked DEF X!validate_extracted_security

(* Each model of the chain from the one being asked on has a request left  *)
(* of those charged.                                                       *)
THEOREM ReaderInvariant == SafeSpec => []ReaderInv
  <1>1. ReaderInv /\ [X!Next]_(X!vars) => ReaderInv'
    <2> SUFFICES ASSUME ReaderInv, [X!Next]_(X!vars) PROVE ReaderInv'
      OBVIOUS
    <2>1. CASE UNCHANGED X!vars
      <3>1. ReaderTypes'
        BY <2>1 DEF X!vars, ReaderInv, ReaderTypes
      <3>2. /\ UNCHANGED <<at, tried, calls>>
            /\ TextCharged' = TextCharged /\ VisionCharged' = VisionCharged
        BY <2>1 DEF X!vars, TextCharged, VisionCharged
      <3> QED
        BY <3>1, <3>2 DEF ReaderInv, Within, Left
    <2> QED
      BY <2>1, ReceiveKeeps, OpenKeeps, RouteKeeps, RenderKeeps, DeclineKeeps, ChainEnds,
         PatternsKeep, ScreenKeeps DEF X!Next
  <1> QED
    BY <1>1, ReaderRuns, ReaderStarts, PTL DEF X!Spec

(* No model is asked more often than was charged to the budget of its      *)
(* provider, but for texts that Gemini reads, and a counter out of order.  *)
THEOREM AsksAreCharged == SafeSpec => []EachAskIsCharged
  <1>1. ReaderInv => EachAskIsCharged
    BY DEF ReaderInv, Within, TextCharged, VisionCharged, EachAskIsCharged, X!EachAskIsCharged
  <1> QED
    BY <1>1, ReaderInvariant, PTL

(* Documents, chains, counters and results keep their types.               *)
THEOREM ReaderTyped == SafeSpec => []X!TypeOK
  <1>1. ReaderInv => X!TypeOK
    BY TypesAre DEF ReaderInv
  <1> QED
    BY <1>1, ReaderInvariant, PTL

-----------------------------------------------------------------------------
(* EmailVerdict: what is on file carries the verdict on the message, by    *)
(* the list in force when it was read.                                     *)

LEMMA MailRuns == SafeSpec => E!Spec
  <1>1. SafeInit => E!Init
    BY DEF SafeInit
  <1>2. [SafeNext]_safeVars => [E!Next]_(E!vars)
    <2> SUFFICES ASSUME [SafeNext]_safeVars PROVE [E!Next]_(E!vars)
      OBVIOUS
    <2>1. CASE At("mail") /\ E!Next
      BY <2>1
    <2>2. ASSUME NEW part \in Parts \ {"mail"}, At(part) PROVE UNCHANGED E!vars
      BY <2>2 DEF At, mailVars, E!vars
    <2>3. CASE UNCHANGED safeVars
      BY <2>3 DEF safeVars, mailVars, E!vars
    <2> QED
      BY <2>1, <2>2, <2>3 DEF SafeNext, Parts
  <1> QED
    BY <1>1, <1>2, PTL DEF SafeSpec, E!Spec

(* The least of a set of places is one of them.                            *)
LEMMA LeastIsIn ==
  ASSUME NEW S \in SUBSET Nat, S # {} PROVE E!Min(S) \in S
  <1>1. IsWellFoundedOn(OpToRel(<, Nat), Nat)
    BY NatLessThanWellFounded
  <1>2. PICK x \in S : \A y \in S : ~(<<y, x>> \in OpToRel(<, Nat))
    BY <1>1, WFMin
  <1>3. \A y \in S : x <= y
    <2> TAKE y \in S
    <2>1. <<y, x>> \in OpToRel(<, Nat) <=> y < x
      BY DEF OpToRel
    <2>2. ~(y < x) /\ x \in Nat /\ y \in Nat
      BY <1>2, <2>1
    <2> QED
      BY <2>2
  <1> QED
    BY <1>3 DEF E!Min

(* The result believed of a mechanism is stamped by a server of ours.      *)
LEMMA RelayedIsOurs ==
  ASSUME message \in Mail, NEW mechanism, E!Relayed(message, mechanism).state # "unsaid"
  PROVE  \E i \in E!Saying(message, mechanism) :
            E!Relayed(message, mechanism).state =
               E!StateOf(message.results[i].says[mechanism].word)
  <1>1. E!Saying(message, mechanism) \in SUBSET Nat
    <2>1. message.results \in Seq(E!ToSet(message.results))
      BY MailConstants DEF E!MailAssumption
    <2>2. DOMAIN message.results \subseteq Nat
      BY <2>1
    <2> QED
      BY <2>2 DEF E!Saying, E!collect_authentication_results
  <1>2. E!Saying(message, mechanism) # {}
    BY DEF E!Relayed
  <1>3. E!Min(E!Saying(message, mechanism)) \in E!Saying(message, mechanism)
    BY <1>1, <1>2, LeastIsIn
  <1>4. E!Relayed(message, mechanism).state =
           E!StateOf(message.results[E!Min(E!Saying(message, mechanism))].says[mechanism].word)
    BY <1>2 DEF E!Relayed
  <1> QED
    BY <1>3, <1>4

(* The state of the signatures, as this process computed it.               *)
LEMMA LocalIsFirst ==
  ASSUME message \in Mail, NEW state, E!LocallyIn(message, state) # {}
  PROVE  LET i == E!Min(E!LocallyIn(message, state))
         IN  /\ i \in DOMAIN message.signatures /\ E!verify_dkim(message.signatures[i]) = state
             /\ E!Local(message)[i] = [state |-> state, domain |-> message.signatures[i].domain]
  <1>1. DOMAIN message.signatures \subseteq Nat
    <2>1. message.signatures \in Seq(E!ToSet(message.signatures))
      BY MailConstants DEF E!MailAssumption
    <2> QED
      BY <2>1
  <1>2. E!LocallyIn(message, state) \in SUBSET Nat
    BY <1>1 DEF E!LocallyIn
  <1>3. E!Min(E!LocallyIn(message, state)) \in E!LocallyIn(message, state)
    BY <1>2, LeastIsIn
  <1> QED
    BY <1>3 DEF E!LocallyIn, E!Local

Own  == {m \in E!ToSet(message.results) : m.server \in TrustedServers}
Good == {s \in E!ToSet(message.signatures) : E!verify_dkim(s) = "pass"}

Attributed(list) ==
    /\ message.froms = 1
    /\ \/ \E s \in Good : Organisation[s.domain] = Organisation[message.domain]
       \/ \E h \in Own : \E k \in DOMAIN h.says : h.says[k].word = "pass"
    /\ \A h \in Own : "dmarc" \in DOMAIN h.says => E!StateOf(h.says["dmarc"].word) # "fail"
    /\ Good # {} \/ \A s \in E!ToSet(message.signatures) : E!verify_dkim(s) # "fail"
    /\ \/ list = <<>>
       \/ \E e \in E!ToSet(list) : e.status = "trusted" /\ E!Covers(e, message)

(* What a verdict of VERIFIED went through.                                *)
LEMMA VerifiedMeans ==
  ASSUME NEW list, E!classify(message, list) = "VERIFIED"
  PROVE  /\ ~E!structural_spoof(message) /\ ~E!conflicts(message)
         /\ E!dmarc(message) = "pass" /\ E!dkim(message).state # "fail"
         /\ list = <<>> \/ E!_trusted_sender_match(message, list)
  <1>1. ~(E!structural_spoof(message)
            \/ "fail" \in {E!dmarc(message), E!dkim(message).state, E!spf(message).state})
    BY DEF E!classify
  <1>2. ~E!conflicts(message)
    BY <1>1 DEF E!classify
  <1>3. E!dmarc(message) = "pass"
    BY <1>1, <1>2 DEF E!classify
  <1>4. list = <<>> \/ E!_trusted_sender_match(message, list)
    BY <1>1, <1>2, <1>3 DEF E!classify
  <1> QED
    BY <1>1, <1>2, <1>3, <1>4

(* A word that passes, said of a mechanism by a server of ours.            *)
LEMMA PassIsSaid ==
  ASSUME message \in Mail, NEW mechanism, E!Relayed(message, mechanism).state = "pass"
  PROVE  \E h \in Own : \E k \in DOMAIN h.says : h.says[k].word = "pass"
  <1>1. PICK i \in E!Saying(message, mechanism) :
           E!StateOf(message.results[i].says[mechanism].word) = "pass"
    BY RelayedIsOurs
  <1>2. /\ message.results[i] \in Own /\ mechanism \in DOMAIN message.results[i].says
        /\ message.results[i].says[mechanism].word = "pass"
    BY <1>1 DEF E!Saying, E!collect_authentication_results, Own, E!ToSet, E!StateOf
  <1> QED
    BY <1>2

(* A signature that was computed here outranks what was said of it.        *)
LEMMA DkimIsComputed ==
  ASSUME message \in Mail
  PROVE  /\ E!LocallyIn(message, "pass") # {} =>
              \E s \in Good : E!dkim(message) = [state |-> "pass", domain |-> s.domain]
         /\ E!LocallyIn(message, "pass") = {} /\ E!LocallyIn(message, "fail") # {} =>
              E!dkim(message).state = "fail"
         /\ /\ E!LocallyIn(message, "pass") = {}
            /\ E!dkim(message).state = "pass"
            => E!Relayed(message, "dkim").state = "pass"
  <1>1. ASSUME E!LocallyIn(message, "pass") # {}
        PROVE  \E s \in Good : E!dkim(message) = [state |-> "pass", domain |-> s.domain]
    <2>1. PICK i \in DOMAIN message.signatures :
             /\ E!verify_dkim(message.signatures[i]) = "pass"
             /\ E!dkim(message) = [state |-> "pass", domain |-> message.signatures[i].domain]
      BY <1>1, LocalIsFirst DEF E!dkim
    <2>2. message.signatures[i] \in Good
      BY <2>1 DEF Good, E!ToSet
    <2> QED
      BY <2>1, <2>2
  <1>2. ASSUME E!LocallyIn(message, "pass") = {}, E!LocallyIn(message, "fail") # {}
        PROVE  E!dkim(message).state = "fail"
    <2>1. PICK i : E!dkim(message) = [state |-> "fail", domain |-> message.signatures[i].domain]
      BY <1>2, LocalIsFirst DEF E!dkim
    <2> QED
      BY <2>1
  <1>3. ASSUME E!LocallyIn(message, "pass") = {}, E!dkim(message).state = "pass"
        PROVE  E!Relayed(message, "dkim").state = "pass"
    <2>1. E!LocallyIn(message, "fail") = {}
      BY <1>2, <1>3
    <2>2. CASE E!Relayed(message, "dkim").state # "unsaid"
      BY <1>3, <2>1, <2>2 DEF E!dkim
    <2>3. CASE E!Relayed(message, "dkim").state = "unsaid" /\ message.signatures # <<>>
      <3>1. 1 \in DOMAIN message.signatures
        <4>1. message.signatures \in Seq(E!ToSet(message.signatures))
          BY MailConstants DEF E!MailAssumption
        <4> QED
          BY <2>3, <4>1
      <3>2. E!Local(message)[1].state = E!verify_dkim(message.signatures[1])
        BY <3>1 DEF E!Local
      <3>3. E!dkim(message) = E!Local(message)[1]
        BY <1>3, <2>1, <2>3 DEF E!dkim
      <3> QED
        BY <1>3, <3>1, <3>2, <3>3 DEF E!LocallyIn
    <2>4. CASE E!Relayed(message, "dkim").state = "unsaid" /\ message.signatures = <<>>
      <3>1. E!dkim(message) = [state |-> "unavailable", domain |-> None]
        BY <1>3, <2>1, <2>4 DEF E!dkim
      <3> QED
        BY <1>3, <3>1
    <2> QED
      BY <2>2, <2>3, <2>4
  <1> QED
    BY <1>1, <1>2, <1>3

(* Behind DMARC that passes there is a signature that verifies for the     *)
(* organisation of the From, or a passing result of ours.                  *)
LEMMA PassIsEvidence ==
  ASSUME message \in Mail, E!dmarc(message) = "pass"
  PROVE  \/ \E s \in Good : Organisation[s.domain] = Organisation[message.domain]
         \/ \E h \in Own : \E k \in DOMAIN h.says : h.says[k].word = "pass"
  <1>1. CASE E!LocalDmarc(message) # "pass"
    <2>1. E!Relayed(message, "dmarc").state = "pass"
      BY <1>1 DEF E!dmarc
    <2> QED
      BY <2>1, PassIsSaid
  <1>2. CASE E!LocalDmarc(message) = "pass"
    <2>1. \E strict \in {StrictDkim, StrictSpf} :
             \E r \in {E!dkim(message), E!spf(message)} :
                r.state = "pass" /\ E!alignment(message.domain, r.domain, strict)
      BY <1>2 DEF E!LocalDmarc, E!Aligned
    <2>a. PICK strict \in {StrictDkim, StrictSpf}, r \in {E!dkim(message), E!spf(message)} :
             r.state = "pass" /\ E!alignment(message.domain, r.domain, strict)
      BY <2>1
    <2>2. CASE r = E!spf(message)
      <3>1. E!Relayed(message, "spf").state = "pass"
        BY <2>a, <2>2 DEF E!spf
      <3> QED
        BY <3>1, PassIsSaid
    <2>3. CASE r = E!dkim(message) /\ E!LocallyIn(message, "pass") # {}
      <3>1. PICK s \in Good : r.domain = s.domain
        BY <2>3, DkimIsComputed
      <3>2. Organisation[s.domain] = Organisation[message.domain]
        BY <2>a, <3>1 DEF E!alignment
      <3> QED
        BY <3>2
    <2>4. CASE r = E!dkim(message) /\ E!LocallyIn(message, "pass") = {}
      <3>1. E!Relayed(message, "dkim").state = "pass"
        BY <2>a, <2>4, DkimIsComputed
      <3> QED
        BY <3>1, PassIsSaid
    <2> QED
      BY <2>a, <2>2, <2>3, <2>4
  <1> QED
    BY <1>1, <1>2

(* Servers of ours that disagree on DMARC make a conflict; so does one     *)
(* that disagrees with what was computed here.                             *)
LEMMA NoneSaysFail ==
  ASSUME message \in Mail, E!dmarc(message) = "pass", ~E!conflicts(message),
         NEW h \in Own, "dmarc" \in DOMAIN h.says
  PROVE  E!StateOf(h.says["dmarc"].word) # "fail"
  <1>1. PICK i \in E!Saying(message, "dmarc") : h = message.results[i]
    BY DEF Own, E!ToSet, E!Saying, E!collect_authentication_results
  <1>2. E!Saying(message, "dmarc") # {}
    BY <1>1
  <1>3. E!Relayed(message, "dmarc").state # "unsaid"
    BY <1>2 DEF E!Relayed, E!StateOf
  <1>4. PICK j \in E!Saying(message, "dmarc") :
           E!Relayed(message, "dmarc").state = E!StateOf(message.results[j].says["dmarc"].word)
    BY <1>3, RelayedIsOurs
  <1>5. message.results[i].says["dmarc"].word = message.results[j].says["dmarc"].word
    <2>1. \A a, b \in E!DmarcWords(message) : a = b
      BY DEF E!conflicts
    <2> QED
      BY <2>1 DEF E!DmarcWords
  <1>6. E!Relayed(message, "dmarc").state # "fail"
    <2>1. CASE E!LocalDmarc(message) = "unavailable"
      BY <1>3, <2>1 DEF E!dmarc
    <2>2. CASE E!LocalDmarc(message) # "unavailable"
      BY <1>3, <2>2 DEF E!dmarc, E!conflicts
    <2> QED
      BY <2>1, <2>2
  <1> QED
    BY <1>1, <1>4, <1>5, <1>6

LEMMA VerifiedIsAttributed ==
  ASSUME message \in Mail, NEW list, E!classify(message, list) = "VERIFIED"
  PROVE  Attributed(list)
  <1>1. /\ ~E!structural_spoof(message) /\ ~E!conflicts(message)
        /\ E!dmarc(message) = "pass" /\ E!dkim(message).state # "fail"
        /\ list = <<>> \/ E!_trusted_sender_match(message, list)
    BY VerifiedMeans
  <1>2. message.froms = 1
    BY <1>1 DEF E!structural_spoof
  <1>3. \/ \E s \in Good : Organisation[s.domain] = Organisation[message.domain]
        \/ \E h \in Own : \E k \in DOMAIN h.says : h.says[k].word = "pass"
    BY <1>1, PassIsEvidence
  <1>4. \A h \in Own : "dmarc" \in DOMAIN h.says => E!StateOf(h.says["dmarc"].word) # "fail"
    BY <1>1, NoneSaysFail
  <1>5. Good # {} \/ \A s \in E!ToSet(message.signatures) : E!verify_dkim(s) # "fail"
    <2>1. CASE E!LocallyIn(message, "pass") # {}
      BY <2>1, DkimIsComputed
    <2>2. CASE E!LocallyIn(message, "pass") = {}
      <3>1. E!LocallyIn(message, "fail") = {}
        BY <1>1, <2>2, DkimIsComputed
      <3> QED
        BY <3>1 DEF E!LocallyIn, E!ToSet
    <2> QED
      BY <2>1, <2>2
  <1>6. \/ list = <<>>
        \/ \E e \in E!ToSet(list) : e.status = "trusted" /\ E!Covers(e, message)
    BY <1>1 DEF E!_trusted_sender_match
  <1> QED
    BY <1>2, <1>3, <1>4, <1>5, <1>6 DEF Attributed

Verdicts   == {"VERIFIED", "UNVERIFIED", "SUSPICIOUS", "FAILED"}
Lists      == SenderLists \cup {<<>>}
Submitted  == [pc : {"idle", "look", "save", "done"}, verdict : Verdicts \cup {None}, list : Lists]
MailRows   == [source : {"SUBMITTED", "POLLED"}, classification : Verdicts,
               status : {"ADMITTED", "QUARANTINED"}, list : SenderLists]

MailInv ==
    /\ message \in Mail /\ senders \in SenderLists
    /\ submission \in [Requests -> Submitted] /\ mailbox \in Seq(MailRows)
    /\ \A r \in Requests : submission[r].pc \in {"look", "save"} =>
          /\ submission[r].list \in SenderLists
          /\ submission[r].verdict = E!classify(message, submission[r].list)
    /\ \A i \in DOMAIN mailbox : mailbox[i].status = "ADMITTED" =>
          E!classify(message, mailbox[i].list) = "VERIFIED"

LEMMA VerdictsAre == \A m, list : E!classify(m, list) \in Verdicts
  BY DEF E!classify, Verdicts

(* A row that carries the verdict by the list it names.                    *)
LEMMA RowKeeps ==
  ASSUME MailInv, UNCHANGED <<message, senders>>,
         submission' \in [Requests -> Submitted],
         \A r \in Requests : submission'[r].pc \in {"look", "save"} => submission'[r] = submission[r],
         NEW source \in {"SUBMITTED", "POLLED"}, NEW verdict \in Verdicts, NEW list \in SenderLists,
         verdict = "VERIFIED" => verdict = E!classify(message, list),
         mailbox' = Append(mailbox, E!Row(source, verdict, list))
  PROVE  MailInv'
  <1> DEFINE row == E!Row(source, verdict, list)
  <1>1. /\ row \in MailRows /\ row.list = list
        /\ row.status = "ADMITTED" => verdict = "VERIFIED"
    BY DEF E!Row, E!Status, MailRows
  <1>2. mailbox' \in Seq(MailRows) /\ mailbox \in Seq(MailRows)
    BY <1>1 DEF MailInv
  <1>3. \A i \in DOMAIN mailbox' : mailbox'[i] = row \/ (i \in DOMAIN mailbox /\ mailbox'[i] = mailbox[i])
    BY <1>1, <1>2, AppendProperties
  <1>4. \A i \in DOMAIN mailbox' : mailbox'[i].status = "ADMITTED" =>
           E!classify(message, mailbox'[i].list) = "VERIFIED"
    BY <1>1, <1>3 DEF MailInv
  <1> QED
    BY <1>2, <1>4 DEF MailInv

LEMMA MailStarts == E!Init => MailInv
  BY DEF E!Init, E!Unjudged, MailInv, Submitted, Lists, Verdicts

LEMMA MailKeeps == MailInv /\ [E!Next]_(E!vars) => MailInv'
  <1> SUFFICES ASSUME MailInv, [E!Next]_(E!vars) PROVE MailInv'
    OBVIOUS
  <1>0. senders \in SenderLists /\ submission \in [Requests -> Submitted]
    BY DEF MailInv
  <1>1. ASSUME NEW r \in Requests, E!submit_email_message(r) PROVE MailInv'
    <2>1. UNCHANGED <<message, senders, mailbox>>
      BY <1>1 DEF E!submit_email_message
    <2>2. submission' = [submission EXCEPT ![r] =
             [pc |-> "look", verdict |-> E!classify(message, senders), list |-> senders]]
      BY <1>1 DEF E!submit_email_message
    <2>3. submission' \in [Requests -> Submitted]
      BY <1>0, <2>2, VerdictsAre DEF Submitted, Lists
    <2>4. \A q \in Requests : submission'[q].pc \in {"look", "save"} =>
             /\ submission'[q].list \in SenderLists
             /\ submission'[q].verdict = E!classify(message, submission'[q].list)
      BY <1>0, <2>2 DEF MailInv
    <2> QED
      BY <2>1, <2>3, <2>4 DEF MailInv
  <1>2. ASSUME NEW r \in Requests, E!find_email_by_sha256(r) PROVE MailInv'
    <2>1. UNCHANGED <<message, senders, mailbox>>
      BY <1>2 DEF E!find_email_by_sha256
    <2>2. PICK pc \in {"save", "done"} :
             submission[r].pc = "look" /\ submission' = [submission EXCEPT ![r].pc = pc]
      BY <1>2 DEF E!find_email_by_sha256
    <2>3. submission' \in [Requests -> Submitted]
      BY <1>0, <2>2 DEF Submitted
    <2>4. \A q \in Requests : submission'[q].pc \in {"look", "save"} =>
             /\ submission[q].pc \in {"look", "save"}
             /\ submission'[q].list = submission[q].list
             /\ submission'[q].verdict = submission[q].verdict
      BY <1>0, <2>2 DEF Submitted
    <2> QED
      BY <2>1, <2>3, <2>4 DEF MailInv
  <1>3. ASSUME NEW r \in Requests, E!save_email_message(r) PROVE MailInv'
    <2>1. /\ submission[r].pc = "save" /\ UNCHANGED <<message, senders>>
          /\ submission' = [submission EXCEPT ![r].pc = "done"]
          /\ mailbox' = Append(mailbox, E!Row("SUBMITTED", submission[r].verdict, submission[r].list))
      BY <1>3 DEF E!save_email_message
    <2>2. submission' \in [Requests -> Submitted]
      BY <1>0, <2>1 DEF Submitted
    <2>3. \A q \in Requests : submission'[q].pc \in {"look", "save"} => submission'[q] = submission[q]
      BY <1>0, <2>1 DEF Submitted
    <2>4. /\ submission[r].list \in SenderLists
          /\ submission[r].verdict = E!classify(message, submission[r].list)
      BY <2>1 DEF MailInv
    <2>5. submission[r].verdict \in Verdicts
      BY <2>4, VerdictsAre
    <2> QED
      BY <2>1, <2>2, <2>3, <2>4, <2>5, RowKeeps
  <1>4. CASE E!ingest_message
    <2>1. PICK verdict \in {E!classify(message, senders), "UNVERIFIED"} :
             mailbox' = Append(mailbox, E!Row("POLLED", verdict, senders))
      BY <1>4 DEF E!ingest_message
    <2>2. /\ verdict \in Verdicts
          /\ verdict = "VERIFIED" => verdict = E!classify(message, senders)
      BY <2>1, VerdictsAre DEF Verdicts
    <2>3. UNCHANGED <<message, senders>> /\ submission' = submission
      BY <1>4 DEF E!ingest_message
    <2>4. /\ submission' \in [Requests -> Submitted]
          /\ \A q \in Requests : submission'[q] = submission[q]
      BY <1>0, <2>3
    <2> QED
      BY <1>0, <2>1, <2>2, <2>3, <2>4, RowKeeps
  <1>5. CASE E!Restart
    <2>1. /\ senders' \in SenderLists /\ UNCHANGED <<message, mailbox>>
          /\ submission' = [r \in Requests |-> IF submission[r].pc = "done" THEN submission[r]
                                                                          ELSE E!Unjudged]
      BY <1>5 DEF E!Restart
    <2>2. E!Unjudged \in Submitted /\ E!Unjudged.pc = "idle"
      BY DEF E!Unjudged, Submitted, Lists
    <2>3. /\ submission' \in [Requests -> Submitted]
          /\ \A q \in Requests : submission'[q].pc \notin {"look", "save"}
      BY <1>0, <2>1, <2>2
    <2> QED
      BY <2>1, <2>3 DEF MailInv
  <1>6. CASE UNCHANGED E!vars
    BY <1>6 DEF E!vars, MailInv
  <1> QED
    BY <1>1, <1>2, <1>3, <1>4, <1>5, <1>6 DEF E!Next

(* Every row carries the verdict on the message by the list it names.      *)
THEOREM MailInvariant == SafeSpec => []MailInv
  BY MailRuns, MailStarts, MailKeeps, PTL DEF E!Spec

(* Behind every message admitted there is one From, evidence of ours for   *)
(* who sent it, nothing of ours against it, and a sender on the list.      *)
THEOREM AdmittedAreAttributed == SafeSpec => []AdmittedIsAttributed
  <1>1. MailInv => AdmittedIsAttributed
    <2> SUFFICES ASSUME MailInv, NEW i \in DOMAIN mailbox, mailbox[i].status = "ADMITTED"
                 PROVE  Attributed(mailbox[i].list)
      BY DEF AdmittedIsAttributed, E!AdmittedIsAttributed, Attributed, Own, Good
    <2> QED
      BY VerifiedIsAttributed DEF MailInv
  <1> QED
    BY <1>1, MailInvariant, PTL

(* Messages, lists, submissions and rows keep their types.                 *)
THEOREM MailTyped == SafeSpec => []E!TypeOK
  <1>1. MailInv => E!TypeOK
    <2> SUFFICES ASSUME MailInv PROVE E!TypeOK
      OBVIOUS
    <2>1. \A r \in Requests : submission[r].pc \in {"idle", "look", "save", "done"}
      BY DEF MailInv, Submitted
    <2>2. \A i \in DOMAIN mailbox : mailbox[i] \in MailRows
      BY DEF MailInv
    <2> QED
      BY <2>1, <2>2 DEF MailInv, MailRows, Verdicts, E!TypeOK
  <1> QED
    BY <1>1, MailInvariant, PTL

-----------------------------------------------------------------------------
(* InvoiceVerdict: what is on record was found on the invoice, and in the  *)
(* match on record.                                                        *)

LEMMA VerdictRuns == SafeSpec => V!Spec
  <1>1. SafeInit => V!Init
    BY DEF SafeInit
  <1>2. [SafeNext]_safeVars => [V!Next]_(V!vars)
    <2> SUFFICES ASSUME [SafeNext]_safeVars PROVE [V!Next]_(V!vars)
      OBVIOUS
    <2>1. CASE At("verdict") /\ V!Next
      BY <2>1
    <2>2. ASSUME NEW part \in Parts \ {"verdict"}, At(part) PROVE UNCHANGED V!vars
      BY <2>2 DEF At, verdictVars, V!vars
    <2>3. CASE UNCHANGED safeVars
      BY <2>3 DEF safeVars, verdictVars, V!vars
    <2> QED
      BY <2>1, <2>2, <2>3 DEF SafeNext, Parts
  <1> QED
    BY <1>1, <1>2, PTL DEF SafeSpec, V!Spec

OnRecord ==
    \/ invoice = V!NoInvoice /\ match = V!NoMatch /\ status = "NEEDS_REVIEW"
    \/ /\ invoice \in Invoices /\ match = V!match_po(invoice)
       /\ failed = V!Checks(invoice, match)
       /\ grounds = V!Rejecting(invoice, match) \cup V!Holding(invoice, match)
       /\ status = V!Verdict(V!Rejecting(invoice, match), V!Holding(invoice, match))

(* Whatever rejects or holds an invoice has its check, but for two.        *)
LEMMA GroundsHaveChecks ==
  ASSUME NEW v, NEW m, V!Checks(v, m) = {}
  PROVE  V!Rejecting(v, m) = {} /\ V!Holding(v, m) \subseteq {"closed", "inferred"}
  <1>1. /\ ~v.flagged /\ v.route # "none" /\ ~V!is_not_an_invoice(v)
        /\ V!validate_required_fields(v) = {} /\ V!validate_confidence(v) = {}
        /\ ~V!validate_amount(v) /\ ~V!validate_arithmetic(v) /\ ~v.duplicate
        /\ V!vendor_check(v) = "approved" /\ V!Matched(m) /\ ~(Len(m.orders) > 1)
        /\ ~(m.foreign /\ ~V!fx_resolved(m)) /\ ~m.suspected
        /\ ~(V!Matched(m) /\ ~V!within_tolerance(m)) /\ ~V!line_item_check(v, m)
    BY DEF V!Checks
  <1> QED
    BY <1>1 DEF V!Rejecting, V!Holding

(* What an invoice nothing rejects and nothing holds is known to be.       *)
LEMMA Approvable ==
  ASSUME NEW v, NEW m, V!Rejecting(v, m) = {}, V!Holding(v, m) = {}
  PROVE  /\ ~v.flagged /\ ~V!is_not_an_invoice(v) /\ ~v.duplicate /\ ~m.suspected
         /\ V!vendor_check(v) \notin {"refused", "unknown"} /\ v.route # "none"
         /\ V!validate_required_fields(v) = {} /\ V!validate_confidence(v) = {}
         /\ ~V!validate_amount(v) /\ ~V!validate_arithmetic(v)
         /\ V!Matched(m) /\ ~(Len(m.orders) > 1) /\ ~V!Closed(m) /\ ~m.inferred
         /\ ~(m.foreign /\ ~m.suspected /\ ~V!fx_resolved(m))
         /\ ~(V!Matched(m) /\ ~V!within_tolerance(m)) /\ ~V!line_item_check(v, m)
  <1>1. /\ ~v.flagged /\ ~V!is_not_an_invoice(v) /\ ~v.duplicate /\ ~m.suspected
        /\ V!vendor_check(v) # "refused"
    BY DEF V!Rejecting
  <1>2. /\ v.route # "none"
        /\ V!validate_required_fields(v) = {} /\ V!validate_confidence(v) = {}
        /\ ~V!validate_amount(v) /\ ~V!validate_arithmetic(v)
        /\ V!vendor_check(v) # "unknown" /\ V!Matched(m) /\ ~(Len(m.orders) > 1)
        /\ ~V!Closed(m) /\ ~m.inferred
        /\ ~(m.foreign /\ ~m.suspected /\ ~V!fx_resolved(m))
        /\ ~(V!Matched(m) /\ ~V!within_tolerance(m)) /\ ~V!line_item_check(v, m)
    BY DEF V!Holding
  <1> QED
    BY <1>1, <1>2

(* A check that failed rejects the invoice or holds it.                    *)
LEMMA ChecksAreGrounds ==
  ASSUME NEW v, NEW m, V!Rejecting(v, m) = {}, V!Holding(v, m) = {}
  PROVE  V!Checks(v, m) = {}
  <1>1. V!vendor_check(v) \in {"unknown", "approved", "refused"}
    BY DEF V!vendor_check
  <1> QED
    BY <1>1, Approvable DEF V!Checks

(* The record is made in one go, and never touched again.                  *)
THEOREM RecordInvariant == SafeSpec => []OnRecord
  <1>1. V!Init => OnRecord
    BY DEF V!Init, OnRecord
  <1>2. OnRecord /\ [V!Next]_(V!vars) => OnRecord'
    <2> SUFFICES ASSUME OnRecord, [V!Next]_(V!vars) PROVE OnRecord'
      OBVIOUS
    <2>1. CASE V!decide
      <3>1. PICK v \in Invoices : invoice' = v
        BY <2>1 DEF V!decide
      <3> QED
        BY <2>1, <3>1 DEF V!decide, OnRecord
    <2>2. CASE UNCHANGED V!vars
      BY <2>2 DEF V!vars, OnRecord
    <2> QED
      BY <2>1, <2>2 DEF V!Next
  <1> QED
    BY <1>1, <1>2, VerdictRuns, PTL DEF V!Spec

(* The trail never disagrees with the verdict: an approval has no failed   *)
(* check, and behind anything else one failed, but for a closed order and  *)
(* for an inferred one.                                                    *)
THEOREM TrailAgrees == SafeSpec => []V!TrailExplainsVerdict
  <1>1. OnRecord => V!TrailExplainsVerdict
    <2> SUFFICES ASSUME OnRecord, invoice # V!NoInvoice
                 PROVE  /\ status = "APPROVED" => failed = {}
                        /\ failed = {} => grounds \subseteq {"closed", "inferred"}
      BY DEF V!TrailExplainsVerdict
    <2>1. status = "APPROVED" => failed = {}
      BY ChecksAreGrounds DEF OnRecord, V!Verdict
    <2>2. failed = {} => grounds \subseteq {"closed", "inferred"}
      BY GroundsHaveChecks DEF OnRecord
    <2> QED
      BY <2>1, <2>2
  <1> QED
    BY <1>1, RecordInvariant, PTL

-----------------------------------------------------------------------------
(* What is charged, and to which orders.                                   *)

(* What holds at the start and is passed on holds all along.               *)
LEMMA Climb ==
  ASSUME NEW last \in Nat, NEW Reached, 0 \in Reached, \A i \in 1 .. last : i - 1 \in Reached => i \in Reached
  PROVE  \A i \in 0 .. last : i \in Reached
  <1> DEFINE Bad == {i \in 0 .. last : i \notin Reached}
  <1> SUFFICES ASSUME Bad # {} PROVE FALSE
    OBVIOUS
  <1>1. Bad \in SUBSET Nat
    OBVIOUS
  <1>2. PICK n \in Bad : \A y \in Bad : n <= y
    <2> HIDE DEF Bad
    <2> QED
      BY <1>1, LeastOf
  <1>3. n \in 1 .. last /\ n - 1 \in 0 .. last /\ n - 1 \notin Bad
    BY <1>2
  <1> QED
    BY <1>2, <1>3

Steps(last, Values) == [(1 .. last) \X Values -> Values]

Follows(g, last, Values, base, step) ==
    /\ g \in [0 .. last -> Values] /\ g[0] = base
    /\ \A i \in 1 .. last : g[i] = step[<<i, g[i-1]>>]

(* A function is defined by its first value and a step that stays in V.    *)
LEMMA Recursion ==
  ASSUME NEW last \in Nat, NEW Values, NEW base \in Values, NEW step \in Steps(last, Values)
  PROVE  \E g : Follows(g, last, Values, base, step)
  <1> USE DEF Steps
  <1> DEFINE Upto(n, g) == g[0] = base /\ \A i \in 1 .. n : g[i] = step[<<i, g[i-1]>>]
             Reached == {n \in 0 .. last : \E g \in [0 .. n -> Values] : Upto(n, g)}
  <1>1. 0 \in Reached
    <2> DEFINE g == [i \in 0 .. 0 |-> base]
    <2>1. g \in [0 .. 0 -> Values]
      OBVIOUS
    <2>2. Upto(0, g) /\ 0 \in 0 .. last
      OBVIOUS
    <2> HIDE DEF g, Upto
    <2> QED
      BY <2>1, <2>2
  <1>2. \A n \in 1 .. last : n - 1 \in Reached => n \in Reached
    <2> SUFFICES ASSUME NEW n \in 1 .. last, n - 1 \in Reached PROVE n \in Reached
      OBVIOUS
    <2>1. PICK g \in [0 .. n - 1 -> Values] : Upto(n - 1, g)
      OBVIOUS
    <2> DEFINE h == [i \in 0 .. n |-> IF i = n THEN step[<<n, g[n-1]>>] ELSE g[i]]
    <2>2. n - 1 \in 0 .. n - 1 /\ g[n-1] \in Values /\ step[<<n, g[n-1]>>] \in Values
      OBVIOUS
    <2>3. h \in [0 .. n -> Values]
      <3>1. \A i \in 0 .. n : i # n => i \in 0 .. n - 1
        OBVIOUS
      <3> QED
        BY <2>2, <3>1
    <2>4. h[0] = base
      BY <2>1
    <2>5. ASSUME NEW i \in 1 .. n PROVE h[i] = step[<<i, h[i-1]>>]
      <3>1. i - 1 \in 0 .. n /\ i - 1 # n /\ i \in 0 .. n
        OBVIOUS
      <3>2. h[i-1] = g[i-1]
        BY <3>1
      <3>3. CASE i = n
        BY <3>1, <3>2, <3>3
      <3>4. CASE i # n
        <4>1. i \in 1 .. n - 1
          BY <3>4
        <4> QED
          BY <2>1, <3>1, <3>2, <3>4, <4>1
      <3> QED
        BY <3>3, <3>4
    <2>6. n \in 0 .. last
      OBVIOUS
    <2>7. Upto(n, h)
      <3> HIDE DEF h
      <3> QED
        BY <2>4, <2>5
    <2> HIDE DEF h, Upto
    <2> QED
      BY <2>3, <2>6, <2>7
  <1>3. last \in Reached
    <2> HIDE DEF Reached
    <2> QED
      BY <1>1, <1>2, Climb
  <1> QED
    BY <1>3 DEF Follows

LEMMA Figures ==
  /\ None \notin Int /\ Divisor \in Nat \ {0} /\ Floor \in Nat
  /\ \A c \in DOMAIN Rates : Rates[c] \in Nat \ {0}
  /\ \A p \in DOMAIN Orders :
        /\ Orders[p].amount \in Int /\ Orders[p].consumed \in Int
        /\ Orders[p].lines \in Seq(V!ToSet(Orders[p].lines))
        /\ V!remaining_before(p) \in Int
  /\ \A v \in Invoices :
        /\ v.total \in Int \cup {None}
        /\ v.refs \in Seq(V!ToSet(v.refs)) /\ v.lines \in Seq(V!ToSet(v.lines))
  /\ V!NoInvoice \notin Invoices
  <1>1. \A p \in DOMAIN Orders : Orders[p].amount \in Int /\ Orders[p].consumed \in Int
    BY VerdictConstants DEF V!VerdictAssumption
  <1>2. \A p \in DOMAIN Orders : V!remaining_before(p) \in Int
    BY <1>1 DEF V!remaining_before
  <1> QED
    BY <1>1, <1>2, VerdictConstants DEF V!VerdictAssumption

(* A sum runs up to its last figure.                                       *)
LEMMA SumClimbs ==
  ASSUME NEW s \in Seq(Int)
  PROVE  \E u \in [0 .. Len(s) -> Int] :
            /\ u[0] = 0 /\ V!SumOf(s) = u[Len(s)]
            /\ \A i \in 1 .. Len(s) : u[i] = u[i-1] + s[i]
  <1> DEFINE step == [q \in (1 .. Len(s)) \X Int |-> q[2] + s[q[1]]]
  <1>1. Len(s) \in Nat /\ \A i \in 1 .. Len(s) : s[i] \in Int
    OBVIOUS
  <1>2. step \in [(1 .. Len(s)) \X Int -> Int]
    BY <1>1
  <1>3. PICK g \in [0 .. Len(s) -> Int] :
           g[0] = 0 /\ \A i \in 1 .. Len(s) : g[i] = step[<<i, g[i-1]>>]
    <2>1. 0 \in Int /\ step \in Steps(Len(s), Int)
      BY <1>2 DEF Steps
    <2> HIDE DEF step
    <2>2. PICK g : Follows(g, Len(s), Int, 0, step)
      BY <1>1, <2>1, Recursion
    <2> QED
      BY <2>2 DEF Follows
  <1>4. ASSUME NEW i \in 1 .. Len(s)
        PROVE  step[<<i, g[i-1]>>] = g[i-1] + s[i] /\ i \in 0 .. Len(s) /\ i # 0
    <2>1. i - 1 \in 0 .. Len(s)
      BY <1>1
    <2>2. <<i, g[i-1]>> \in (1 .. Len(s)) \X Int
      BY <2>1
    <2>3. step[<<i, g[i-1]>>] = <<i, g[i-1]>>[2] + s[<<i, g[i-1]>>[1]]
      BY <2>2
    <2>4. i \in 0 .. Len(s) /\ i # 0
      BY <1>1
    <2> QED
      BY <2>3, <2>4
  <1> HIDE DEF step
  <1>5. g[0] = 0 /\ \A i \in 1 .. Len(s) : g[i] = g[i-1] + s[i]
    BY <1>3, <1>4
  <1>6. g = [i \in 0 .. Len(s) |-> IF i = 0 THEN 0 ELSE g[i-1] + s[i]]
    <2>1. \A i \in 0 .. Len(s) : g[i] = IF i = 0 THEN 0 ELSE g[i-1] + s[i]
      BY <1>1, <1>5
    <2> QED
      BY <2>1
  <1>7. \E u : /\ u = [i \in 0 .. Len(s) |-> IF i = 0 THEN 0 ELSE u[i-1] + s[i]]
               /\ V!SumOf(s) = u[Len(s)]
    BY <1>6 DEF V!SumOf
  <1>8. PICK u : /\ u = [i \in 0 .. Len(s) |-> IF i = 0 THEN 0 ELSE u[i-1] + s[i]]
                 /\ V!SumOf(s) = u[Len(s)]
    BY <1>7
  <1>9. \A i \in 0 .. Len(s) : u[i] \in Int
    <2> DEFINE Reached == {i \in 0 .. Len(s) : u[i] \in Int}
    <2>1. 0 \in Reached
      BY <1>1, <1>8
    <2>2. ASSUME NEW i \in 1 .. Len(s), i - 1 \in Reached PROVE i \in Reached
      <3>1. i \in 0 .. Len(s) /\ i # 0 /\ s[i] \in Int
        BY <1>1
      <3>2. u[i] = IF i = 0 THEN 0 ELSE u[i-1] + s[i]
        BY <1>8, <3>1
      <3> QED
        BY <2>2, <3>1, <3>2
    <2> HIDE DEF Reached
    <2>3. \A i \in 0 .. Len(s) : i \in Reached
      BY <1>1, <2>1, <2>2, Climb
    <2> QED
      BY <2>3 DEF Reached
  <1>10. u \in [0 .. Len(s) -> Int] /\ u[0] = 0
    <2>1. u \in [0 .. Len(s) -> Int]
      BY <1>8, <1>9
    <2> QED
      BY <1>1, <1>8, <2>1
  <1>11. \A i \in 1 .. Len(s) : u[i] = u[i-1] + s[i]
    <2> TAKE i \in 1 .. Len(s)
    <2>1. i \in 0 .. Len(s) /\ i # 0
      BY <1>1
    <2>2. u[i] = IF i = 0 THEN 0 ELSE u[i-1] + s[i]
      BY <1>8, <2>1
    <2> QED
      BY <2>1, <2>2
  <1> QED
    BY <1>8, <1>10, <1>11

LEMMA SumIsWhole == \A s \in Seq(Int) : V!SumOf(s) \in Int
  <1> TAKE s \in Seq(Int)
  <1>1. Len(s) \in 0 .. Len(s)
    OBVIOUS
  <1> QED
    BY <1>1, SumClimbs

LEMMA BiggerIs == \A a, b \in Int : V!Larger(a, b) \in Int /\ V!Smaller(a, b) \in Int /\ V!Smaller(a, b) <= b
  BY DEF V!Larger, V!Smaller

(* What is left of a total when the first orders are filled.               *)
LEMMA LeftFalls ==
  ASSUME NEW ps \in Seq(DOMAIN Orders), NEW total \in Int, ps # <<>>
  PROVE  \E u \in [0 .. Len(ps) -> Int] :
            /\ u[0] = total /\ u[Len(ps)] = 0
            /\ V!split_across(ps, total) = [i \in 1 .. Len(ps) |-> u[i-1] - u[i]]
            /\ \A i \in 1 .. Len(ps) - 1 :
                  u[i] = u[i-1] - V!Smaller(u[i-1], V!Larger(0, V!remaining_before(ps[i])))
  <1> DEFINE fill(i, rest) == IF i = Len(ps) THEN 0
                              ELSE rest - V!Smaller(rest, V!Larger(0, V!remaining_before(ps[i])))
             step == [q \in (1 .. Len(ps)) \X Int |-> fill(q[1], q[2])]
  <1>1. Len(ps) \in Nat \ {0} /\ \A i \in 1 .. Len(ps) : V!remaining_before(ps[i]) \in Int
    BY Figures
  <1>2. ASSUME NEW i \in 1 .. Len(ps), NEW rest \in Int PROVE fill(i, rest) \in Int
    <2>1. V!Larger(0, V!remaining_before(ps[i])) \in Int
      BY <1>1, BiggerIs
    <2>2. V!Smaller(rest, V!Larger(0, V!remaining_before(ps[i]))) \in Int
      BY <2>1, BiggerIs
    <2> QED
      BY <2>2
  <1>3. \E g : Follows(g, Len(ps), Int, total, step)
    <2>1. \A q \in (1 .. Len(ps)) \X Int : fill(q[1], q[2]) \in Int
      BY <1>2
    <2>2. step \in Steps(Len(ps), Int)
      <3> HIDE DEF fill
      <3> QED
        BY <2>1 DEF Steps
    <2> HIDE DEF step
    <2> QED
      BY <1>1, <2>2, Recursion
  <1>4. PICK g : Follows(g, Len(ps), Int, total, step)
    BY <1>3
  <1>5. ASSUME NEW i \in 1 .. Len(ps) PROVE g[i] = fill(i, g[i-1])
    <2>1. i - 1 \in 0 .. Len(ps) /\ g[i-1] \in Int
      BY <1>1, <1>4 DEF Follows
    <2>2. <<i, g[i-1]>> \in (1 .. Len(ps)) \X Int
      BY <2>1
    <2>3. step[<<i, g[i-1]>>] = fill(i, g[i-1])
      <3> HIDE DEF fill
      <3> QED
        BY <2>2
    <2>4. g[i] = step[<<i, g[i-1]>>]
      BY <1>4 DEF Follows
    <2> QED
      BY <2>3, <2>4
  <1>6. g \in [0 .. Len(ps) -> Int] /\ g[0] = total
    BY <1>4 DEF Follows
  <1> HIDE DEF step
  <1>7. g = [i \in 0 .. Len(ps) |->
               IF i = 0 THEN total
               ELSE IF i = Len(ps) THEN 0
               ELSE g[i-1] - V!Smaller(g[i-1], V!Larger(0, V!remaining_before(ps[i])))]
    <2>1. \A i \in 0 .. Len(ps) : i # 0 => i \in 1 .. Len(ps)
      BY <1>1
    <2>2. \A i \in 0 .. Len(ps) :
             g[i] = IF i = 0 THEN total
                    ELSE IF i = Len(ps) THEN 0
                    ELSE g[i-1] - V!Smaller(g[i-1], V!Larger(0, V!remaining_before(ps[i])))
      BY <1>5, <1>6, <2>1
    <2> QED
      BY <1>6, <2>2
  <1>8. PICK u : /\ u = [i \in 0 .. Len(ps) |->
                           IF i = 0 THEN total
                           ELSE IF i = Len(ps) THEN 0
                           ELSE u[i-1] - V!Smaller(u[i-1], V!Larger(0, V!remaining_before(ps[i])))]
                 /\ V!split_across(ps, total) = [i \in 1 .. Len(ps) |-> u[i-1] - u[i]]
    BY <1>7 DEF V!split_across
  <1>9. u[0] = total /\ \A i \in 1 .. Len(ps) : i - 1 \in 0 .. Len(ps) /\ u[i] = fill(i, u[i-1])
    <2>1. u[0] = total
      BY <1>1, <1>8
    <2>2. ASSUME NEW i \in 1 .. Len(ps) PROVE i - 1 \in 0 .. Len(ps) /\ u[i] = fill(i, u[i-1])
      <3>1. i \in 0 .. Len(ps) /\ i # 0 /\ i - 1 \in 0 .. Len(ps)
        BY <1>1
      <3> QED
        BY <1>8, <3>1
    <2> QED
      BY <2>1, <2>2
  <1>10. \A i \in 0 .. Len(ps) : u[i] \in Int
    <2> DEFINE Reached == {i \in 0 .. Len(ps) : u[i] \in Int}
    <2>1. 0 \in Reached
      BY <1>1, <1>9
    <2>2. ASSUME NEW i \in 1 .. Len(ps), i - 1 \in Reached PROVE i \in Reached
      <3>1. i \in 0 .. Len(ps) /\ u[i] = fill(i, u[i-1]) /\ u[i-1] \in Int
        BY <1>1, <1>9, <2>2
      <3> HIDE DEF fill
      <3> QED
        BY <1>2, <3>1
    <2> HIDE DEF Reached
    <2>3. \A i \in 0 .. Len(ps) : i \in Reached
      BY <1>1, <2>1, <2>2, Climb
    <2> QED
      BY <2>3 DEF Reached
  <1>11. u \in [0 .. Len(ps) -> Int]
    BY <1>8, <1>10
  <1>12. u[Len(ps)] = 0
    <2>1. Len(ps) \in 1 .. Len(ps)
      BY <1>1
    <2> QED
      BY <1>9, <2>1
  <1>13. \A i \in 1 .. Len(ps) - 1 :
            u[i] = u[i-1] - V!Smaller(u[i-1], V!Larger(0, V!remaining_before(ps[i])))
    <2> TAKE i \in 1 .. Len(ps) - 1
    <2>1. i \in 1 .. Len(ps) /\ i # Len(ps)
      BY <1>1
    <2> QED
      BY <1>9, <2>1
  <1> QED
    BY <1>8, <1>9, <1>11, <1>12, <1>13

(* A total is split in full, and no order but the last gets more than it   *)
(* has left.                                                               *)
LEMMA SplitIsWhole ==
  ASSUME NEW ps \in Seq(DOMAIN Orders), NEW total \in Int, ps # <<>>
  PROVE  LET amounts == V!split_across(ps, total)
         IN  /\ amounts \in Seq(Int) /\ Len(amounts) = Len(ps)
             /\ V!SumOf(amounts) = total
             /\ \A i \in 1 .. Len(ps) - 1 :
                   amounts[i] <= V!Larger(0, V!remaining_before(ps[i]))
  <1> DEFINE amounts == V!split_across(ps, total)
  <1>1. Len(ps) \in Nat \ {0} /\ \A i \in 1 .. Len(ps) : V!remaining_before(ps[i]) \in Int
    BY Figures
  <1>2. PICK u \in [0 .. Len(ps) -> Int] :
            /\ u[0] = total /\ u[Len(ps)] = 0
            /\ amounts = [i \in 1 .. Len(ps) |-> u[i-1] - u[i]]
            /\ \A i \in 1 .. Len(ps) - 1 :
                  u[i] = u[i-1] - V!Smaller(u[i-1], V!Larger(0, V!remaining_before(ps[i])))
    BY LeftFalls
  <1> HIDE DEF amounts
  <1>3. \A i \in 1 .. Len(ps) : u[i-1] \in Int /\ u[i] \in Int /\ amounts[i] = u[i-1] - u[i]
    <2> TAKE i \in 1 .. Len(ps)
    <2>1. i - 1 \in 0 .. Len(ps) /\ i \in 0 .. Len(ps)
      BY <1>1
    <2> QED
      BY <1>2, <2>1
  <1>4. amounts \in Seq(Int) /\ Len(amounts) = Len(ps)
    <2>1. amounts = [i \in 1 .. Len(ps) |-> u[i-1] - u[i]] /\ \A i \in 1 .. Len(ps) : u[i-1] - u[i] \in Int
      BY <1>2, <1>3
    <2>2. amounts \in [1 .. Len(ps) -> Int]
      BY <2>1
    <2> QED
      BY <1>1, <2>2
  <1>5. \A i \in 1 .. Len(ps) - 1 : amounts[i] <= V!Larger(0, V!remaining_before(ps[i]))
    <2> TAKE i \in 1 .. Len(ps) - 1
    <2> DEFINE top == V!Larger(0, V!remaining_before(ps[i]))
    <2>1. i \in 1 .. Len(ps)
      BY <1>1
    <2>2. top \in Int
      BY <1>1, <2>1, BiggerIs
    <2>3. V!Smaller(u[i-1], top) \in Int /\ V!Smaller(u[i-1], top) <= top
      BY <1>3, <2>1, <2>2, BiggerIs
    <2>4. u[i] = u[i-1] - V!Smaller(u[i-1], top)
      BY <1>2
    <2> HIDE DEF top
    <2>5. amounts[i] <= top
      BY <1>3, <2>1, <2>2, <2>3, <2>4
    <2> QED
      BY <2>5 DEF top
  <1>6. V!SumOf(amounts) = total
    <2>1. PICK w \in [0 .. Len(ps) -> Int] :
             /\ w[0] = 0 /\ V!SumOf(amounts) = w[Len(ps)]
             /\ \A i \in 1 .. Len(ps) : w[i] = w[i-1] + amounts[i]
      BY <1>4, SumClimbs
    <2> DEFINE Reached == {i \in 0 .. Len(ps) : w[i] = total - u[i]}
    <2>2. 0 \in Reached
      BY <1>1, <1>2, <2>1
    <2>3. ASSUME NEW i \in 1 .. Len(ps), i - 1 \in Reached PROVE i \in Reached
      <3>1. i \in 0 .. Len(ps) /\ i - 1 \in 0 .. Len(ps)
        BY <1>1
      <3>2. w[i-1] = total - u[i-1] /\ w[i] = w[i-1] + (u[i-1] - u[i])
        BY <1>3, <2>1, <2>3
      <3>3. w[i] = total - u[i]
        BY <1>3, <3>2
      <3> QED
        BY <3>1, <3>3
    <2> HIDE DEF Reached
    <2>4. \A i \in 0 .. Len(ps) : i \in Reached
      BY <1>1, <2>2, <2>3, Climb
    <2>5. Len(ps) \in Reached
      BY <1>1, <2>4
    <2> QED
      BY <1>2, <2>1, <2>5 DEF Reached
  <1> QED
    BY <1>4, <1>5, <1>6 DEF amounts

(* References resolve to orders on file that the invoice names.            *)
LEMMA ReferencesResolve ==
  ASSUME NEW v \in Invoices
  PROVE  V!Referenced(v) \in Seq(DOMAIN Orders \cap V!ToSet(v.refs))
  <1> DEFINE Named == DOMAIN Orders \cap V!ToSet(v.refs)
             join(i, bound) == IF v.refs[i] \in DOMAIN Orders \ V!ToSet(bound)
                               THEN Append(bound, v.refs[i]) ELSE bound
             step == [q \in (1 .. Len(v.refs)) \X Seq(Named) |-> join(q[1], q[2])]
  <1>1. /\ Len(v.refs) \in Nat
        /\ \A i \in 1 .. Len(v.refs) : v.refs[i] \in V!ToSet(v.refs)
    <2>1. v.refs \in Seq(V!ToSet(v.refs))
      BY Figures
    <2> QED
      BY <2>1
  <1>2. \A i \in 1 .. Len(v.refs), bound \in Seq(Named) : join(i, bound) \in Seq(Named)
    <2> TAKE i \in 1 .. Len(v.refs), bound \in Seq(Named)
    <2>1. CASE v.refs[i] \in DOMAIN Orders \ V!ToSet(bound)
      <3>1. v.refs[i] \in Named
        BY <1>1, <2>1
      <3> HIDE DEF Named
      <3> QED
        BY <2>1, <3>1
    <2>2. CASE v.refs[i] \notin DOMAIN Orders \ V!ToSet(bound)
      BY <2>2
    <2> QED
      BY <2>1, <2>2
  <1> HIDE DEF Named
  <1>3. PICK g : Follows(g, Len(v.refs), Seq(Named), <<>>, step)
    <2>1. step \in Steps(Len(v.refs), Seq(Named))
      <3> HIDE DEF join
      <3> QED
        BY <1>2 DEF Steps
    <2>2. <<>> \in Seq(Named)
      OBVIOUS
    <2> HIDE DEF step
    <2> QED
      BY <1>1, <2>1, <2>2, Recursion
  <1>4. g \in [0 .. Len(v.refs) -> Seq(Named)] /\ g[0] = <<>>
    BY <1>3 DEF Follows
  <1>5. ASSUME NEW i \in 1 .. Len(v.refs) PROVE g[i] = join(i, g[i-1])
    <2>1. g[i-1] \in Seq(Named)
      BY <1>1, <1>4
    <2>2. <<i, g[i-1]>> \in (1 .. Len(v.refs)) \X Seq(Named)
      BY <2>1
    <2>3. step[<<i, g[i-1]>>] = join(i, g[i-1])
      <3> HIDE DEF join
      <3> QED
        BY <2>2
    <2>4. g[i] = step[<<i, g[i-1]>>]
      BY <1>3 DEF Follows
    <2> QED
      BY <2>3, <2>4
  <1> HIDE DEF step
  <1>6. g = [i \in 0 .. Len(v.refs) |->
               IF i = 0 THEN <<>>
               ELSE IF v.refs[i] \in DOMAIN Orders \ V!ToSet(g[i-1])
               THEN Append(g[i-1], v.refs[i]) ELSE g[i-1]]
    <2>1. \A i \in 0 .. Len(v.refs) : i # 0 => i \in 1 .. Len(v.refs)
      BY <1>1
    <2>2. \A i \in 0 .. Len(v.refs) :
             g[i] = IF i = 0 THEN <<>>
                    ELSE IF v.refs[i] \in DOMAIN Orders \ V!ToSet(g[i-1])
                    THEN Append(g[i-1], v.refs[i]) ELSE g[i-1]
      BY <1>4, <1>5, <2>1
    <2> QED
      BY <1>4, <2>2
  <1>7. PICK u : /\ u = [i \in 0 .. Len(v.refs) |->
                           IF i = 0 THEN <<>>
                           ELSE IF v.refs[i] \in DOMAIN Orders \ V!ToSet(u[i-1])
                           THEN Append(u[i-1], v.refs[i]) ELSE u[i-1]]
                 /\ V!Referenced(v) = u[Len(v.refs)]
    BY <1>6 DEF V!Referenced
  <1>8. u[0] = <<>> /\ \A i \in 1 .. Len(v.refs) : u[i] = join(i, u[i-1])
    <2>1. u[0] = <<>>
      BY <1>1, <1>7
    <2>2. ASSUME NEW i \in 1 .. Len(v.refs) PROVE u[i] = join(i, u[i-1])
      <3>1. i \in 0 .. Len(v.refs) /\ i # 0
        BY <1>1
      <3> QED
        BY <1>7, <3>1
    <2> QED
      BY <2>1, <2>2
  <1> DEFINE Reached == {i \in 0 .. Len(v.refs) : u[i] \in Seq(Named)}
  <1>9. 0 \in Reached
    <2> HIDE DEF join
    <2>1. <<>> \in Seq(Named) /\ u[0] = <<>> /\ 0 \in 0 .. Len(v.refs)
      BY <1>1, <1>8
    <2> QED
      BY <2>1
  <1>10. ASSUME NEW i \in 1 .. Len(v.refs), i - 1 \in Reached PROVE i \in Reached
    <2>1. i \in 0 .. Len(v.refs) /\ u[i] = join(i, u[i-1]) /\ u[i-1] \in Seq(Named)
      BY <1>1, <1>8, <1>10
    <2> HIDE DEF join
    <2> QED
      BY <1>2, <2>1
  <1> HIDE DEF Reached
  <1>11. \A i \in 0 .. Len(v.refs) : i \in Reached
    BY <1>1, <1>9, <1>10, Climb
  <1>12. Len(v.refs) \in Reached
    BY <1>1, <1>11
  <1> QED
    BY <1>7, <1>12 DEF Reached, Named

(* The lines ordered are a list, whatever the orders.                      *)
LEMMA OrderedIsAList ==
  ASSUME NEW m, m.orders \in Seq(DOMAIN Orders)
  PROVE  \E lines : V!Ordered(m) \in Seq(lines)
  <1> DEFINE ps == m.orders
             Listed == UNION {V!ToSet(Orders[p].lines) : p \in DOMAIN Orders}
             join(i, lines) == lines \o Orders[ps[i]].lines
             step == [q \in (1 .. Len(ps)) \X Seq(Listed) |-> join(q[1], q[2])]
  <1>1. Len(ps) \in Nat /\ \A i \in 1 .. Len(ps) : ps[i] \in DOMAIN Orders
    OBVIOUS
  <1>2. \A p \in DOMAIN Orders : Orders[p].lines \in Seq(Listed)
    <2> TAKE p \in DOMAIN Orders
    <2>1. Orders[p].lines \in Seq(V!ToSet(Orders[p].lines)) /\ V!ToSet(Orders[p].lines) \subseteq Listed
      BY Figures
    <2> HIDE DEF Listed
    <2> QED
      BY <2>1
  <1> HIDE DEF Listed
  <1>3. \A i \in 1 .. Len(ps), lines \in Seq(Listed) : join(i, lines) \in Seq(Listed)
    BY <1>1, <1>2
  <1> HIDE DEF ps
  <1>4. PICK g : Follows(g, Len(ps), Seq(Listed), <<>>, step)
    <2>1. step \in Steps(Len(ps), Seq(Listed))
      <3> HIDE DEF join
      <3> QED
        BY <1>3 DEF Steps
    <2>2. <<>> \in Seq(Listed)
      OBVIOUS
    <2> HIDE DEF step
    <2> QED
      BY <1>1, <2>1, <2>2, Recursion
  <1>5. g \in [0 .. Len(ps) -> Seq(Listed)] /\ g[0] = <<>>
    BY <1>4 DEF Follows
  <1>6. ASSUME NEW i \in 1 .. Len(ps) PROVE g[i] = join(i, g[i-1])
    <2>1. g[i-1] \in Seq(Listed)
      BY <1>1, <1>5
    <2>2. <<i, g[i-1]>> \in (1 .. Len(ps)) \X Seq(Listed)
      BY <2>1
    <2>3. step[<<i, g[i-1]>>] = join(i, g[i-1])
      <3> HIDE DEF join
      <3> QED
        BY <2>2
    <2>4. g[i] = step[<<i, g[i-1]>>]
      BY <1>4 DEF Follows
    <2> QED
      BY <2>3, <2>4
  <1> HIDE DEF step
  <1>7. g = [i \in 0 .. Len(ps) |-> IF i = 0 THEN <<>> ELSE g[i-1] \o Orders[ps[i]].lines]
    <2>1. \A i \in 0 .. Len(ps) : i # 0 => i \in 1 .. Len(ps)
      BY <1>1
    <2>2. \A i \in 0 .. Len(ps) : g[i] = IF i = 0 THEN <<>> ELSE g[i-1] \o Orders[ps[i]].lines
      BY <1>5, <1>6, <2>1
    <2> QED
      BY <1>5, <2>2
  <1>8. PICK u : /\ u = [i \in 0 .. Len(ps) |-> IF i = 0 THEN <<>> ELSE u[i-1] \o Orders[ps[i]].lines]
                 /\ V!Ordered(m) = u[Len(ps)]
    BY <1>7 DEF V!Ordered, ps
  <1>9. u[0] = <<>> /\ \A i \in 1 .. Len(ps) : u[i] = join(i, u[i-1])
    <2>1. u[0] = <<>>
      BY <1>1, <1>8
    <2>2. ASSUME NEW i \in 1 .. Len(ps) PROVE u[i] = join(i, u[i-1])
      <3>1. i \in 0 .. Len(ps) /\ i # 0
        BY <1>1
      <3> QED
        BY <1>8, <3>1
    <2> QED
      BY <2>1, <2>2
  <1> DEFINE Reached == {i \in 0 .. Len(ps) : u[i] \in Seq(Listed)}
  <1>10. 0 \in Reached
    <2> HIDE DEF join
    <2>1. <<>> \in Seq(Listed) /\ u[0] = <<>> /\ 0 \in 0 .. Len(ps)
      BY <1>1, <1>9
    <2> QED
      BY <2>1
  <1>11. ASSUME NEW i \in 1 .. Len(ps), i - 1 \in Reached PROVE i \in Reached
    <2> HIDE DEF join
    <2>1. i \in 0 .. Len(ps) /\ u[i] = join(i, u[i-1]) /\ u[i-1] \in Seq(Listed)
      BY <1>1, <1>9, <1>11
    <2> QED
      BY <1>3, <2>1
  <1> HIDE DEF Reached
  <1>12. \A i \in 0 .. Len(ps) : i \in Reached
    BY <1>1, <1>10, <1>11, Climb
  <1>13. Len(ps) \in Reached
    BY <1>1, <1>12
  <1> QED
    BY <1>8, <1>13 DEF Reached

LEMMA VerdictCardinality == \A S : V!Cardinality(S) = Cardinality(S)
  BY DEF V!Cardinality, Cardinality

LEMMA OneIsSome == \A S : V!Cardinality(S) = 1 => (CHOOSE x \in S : TRUE) \in S
  <1> TAKE S
  <1>1. S = {} => V!Cardinality(S) = 0
    BY VerdictCardinality, FS_EmptySet
  <1> QED
    BY <1>1

(* Whatever an invoice is charged to is on file, and named by the invoice  *)
(* unless it was inferred.                                                 *)
LEMMA BoundIsOnFile ==
  ASSUME NEW v \in Invoices
  PROVE  /\ V!Bound(v) \in Seq(DOMAIN Orders)
         /\ V!Referenced(v) # <<>> =>
               V!Bound(v) = V!Referenced(v) /\ V!ToSet(V!Bound(v)) \subseteq V!ToSet(v.refs)
  <1> DEFINE Named == DOMAIN Orders \cap V!ToSet(v.refs)
  <1>1. V!Referenced(v) \in Seq(Named)
    BY ReferencesResolve
  <1>2. CASE V!Referenced(v) # <<>>
    <2>1. V!Bound(v) = V!Referenced(v)
      BY <1>2 DEF V!Bound
    <2>2. Named \subseteq DOMAIN Orders /\ Named \subseteq V!ToSet(v.refs)
      OBVIOUS
    <2> HIDE DEF Named
    <2>3. V!Bound(v) \in Seq(DOMAIN Orders)
      BY <1>1, <2>1, <2>2
    <2>4. \A i \in DOMAIN V!Bound(v) : V!Bound(v)[i] \in Named
      BY <1>1, <2>1
    <2>5. V!ToSet(V!Bound(v)) \subseteq V!ToSet(v.refs)
      BY <2>2, <2>4 DEF V!ToSet
    <2> QED
      BY <2>1, <2>3, <2>5
  <1>3. CASE V!Referenced(v) = <<>>
    <2>1. CASE V!Inferable(v) /\ V!Cardinality(V!Near(v)) = 1
      <3>1. V!Bound(v) = <<CHOOSE p \in V!Near(v) : TRUE>>
        BY <1>3, <2>1 DEF V!Bound
      <3>2. (CHOOSE p \in V!Near(v) : TRUE) \in V!Near(v)
        BY <2>1, OneIsSome
      <3>3. PICK p \in DOMAIN Orders : V!Bound(v) = <<p>>
        BY <3>1, <3>2 DEF V!Near
      <3> QED
        BY <1>3, <3>3
    <2>2. CASE ~(V!Inferable(v) /\ V!Cardinality(V!Near(v)) = 1)
      <3>1. V!Bound(v) = <<>>
        BY <1>3, <2>2 DEF V!Bound
      <3>2. <<>> \in Seq(DOMAIN Orders)
        OBVIOUS
      <3> QED
        BY <1>3, <3>1, <3>2
    <2> QED
      BY <2>1, <2>2
  <1> QED
    BY <1>2, <1>3

LEMMA ProductIsNat == \A a, b \in Nat : a * b \in Nat
  OBVIOUS

LEMMA QuotientIsWhole ==
  \A n \in Int, d \in Nat \ {0} : n \div d \in Int /\ (n >= 0 => n \div d >= 0)
  OBVIOUS

(* What is converted is a whole amount, and never less than nothing.       *)
LEMMA ConvertedIsWhole ==
  ASSUME NEW amount \in Int, NEW from \in DOMAIN Rates, NEW to \in DOMAIN Rates
  PROVE  /\ V!fx_convert(amount, from, to) \in Int
         /\ amount >= 0 => V!fx_convert(amount, from, to) >= 0
  <1> DEFINE a == 2 * amount * Rates[from] + Rates[to]
             d == 2 * Rates[to]
  <1>1. Rates[from] \in Nat \ {0} /\ Rates[to] \in Nat \ {0}
    BY Figures
  <1>2. d \in Nat \ {0}
    BY <1>1
  <1>3. a \in Int
    BY <1>1
  <1>4. amount >= 0 => a >= 0
    <2> SUFFICES ASSUME amount >= 0 PROVE a >= 0
      OBVIOUS
    <2>1. 2 * amount \in Nat /\ Rates[from] \in Nat
      BY <1>1
    <2>2. (2 * amount) * Rates[from] \in Nat
      <3> DEFINE twice == 2 * amount
                 rate == Rates[from]
      <3>1. twice \in Nat /\ rate \in Nat
        BY <2>1
      <3> HIDE DEF twice, rate
      <3>2. twice * rate \in Nat
        BY <3>1, ProductIsNat
      <3> QED
        BY <3>2 DEF twice, rate
    <2> QED
      BY <1>1, <2>2
  <1>5. V!fx_convert(amount, from, to) = IF from = to THEN amount ELSE a \div d
    BY DEF V!fx_convert
  <1> HIDE DEF a, d
  <1>6. a \div d \in Int /\ (a >= 0 => a \div d >= 0)
    BY <1>2, <1>3, QuotientIsWhole
  <1> QED
    BY <1>4, <1>5, <1>6

LEMMA ToleranceIsWhole == \A amount \in Int : V!tolerance_for(amount) \in Int
  <1> TAKE amount \in Int
  <1>1. amount \div Divisor \in Int /\ Floor \in Int
    BY Figures, QuotientIsWhole
  <1> QED
    BY <1>1, BiggerIs DEF V!tolerance_for

(* The match: what is charged is split in full over orders on file.        *)
Matching(v, m) ==
    /\ m.orders \in Seq(DOMAIN Orders) /\ m.amounts \in Seq(Int)
    /\ m.charged \in Int /\ m.remaining \in Int /\ m.tolerance \in Int
    /\ V!SumOf(m.amounts) = m.charged
    /\ \A i \in 1 .. Len(m.amounts) - 1 :
          m.amounts[i] <= V!Larger(0, V!remaining_before(m.orders[i]))
    /\ m.orders # <<>> /\ ~m.inferred => V!ToSet(m.orders) \subseteq V!ToSet(v.refs)
    /\ m.orders # <<>> /\ V!Figure(v.total) /\ v.total > 0 =>
          m.charged >= (IF m.converts THEN 0 ELSE 1)

LEMMA NoMatchIs == \A v : Matching(v, V!NoMatch)
  <1>1. V!SumOf(<<>>) = 0
    <2>1. <<>> \in Seq(Int) /\ Len(<<>>) = 0
      OBVIOUS
    <2> QED
      BY <2>1, SumClimbs
  <1>2. <<>> \in Seq(DOMAIN Orders) /\ <<>> \in Seq(Int) /\ Len(<<>>) = 0 /\ 1 .. 0 - 1 = {}
    OBVIOUS
  <1> QED
    BY <1>1, <1>2 DEF Matching, V!NoMatch

LEMMA MatchIs ==
  ASSUME NEW v \in Invoices PROVE Matching(v, V!match_po(v))
  <1> DEFINE m          == V!match_po(v)
             ps         == V!Bound(v)
             total      == IF V!Figure(v.total) THEN v.total ELSE 0
             remaining  == V!SumOf([i \in DOMAIN ps |-> V!remaining_before(ps[i])])
             whole      == V!SumOf([i \in DOMAIN ps |-> Orders[ps[i]].amount])
             currencies == {Orders[p].currency : p \in V!ToSet(ps)} \ {None}
             foreign    == v.currency # None /\ currencies \ {v.currency} # {}
             converts   == /\ foreign /\ V!Cardinality(currencies) = 1
                           /\ currencies \cup {v.currency} \subseteq DOMAIN Rates
             charged    == IF converts THEN V!fx_convert(total, v.currency, CHOOSE c \in currencies : TRUE)
                                       ELSE total
             tolerance  == V!tolerance_for(IF remaining > 0 THEN remaining ELSE whole)
             inferred   == V!Referenced(v) = <<>>
             suspected  == foreign /\ total \in {whole, remaining}
  <1>1. CASE ps = <<>>
    BY <1>1, NoMatchIs DEF V!match_po
  <1>2. CASE ps # <<>>
    <2>1. m = [orders |-> ps, charged |-> charged, amounts |-> V!split_across(ps, charged),
               remaining |-> remaining, tolerance |-> tolerance, inferred |-> inferred,
               foreign |-> foreign, converts |-> converts, suspected |-> suspected]
      BY <1>2 DEF V!match_po
    <2>2. ps \in Seq(DOMAIN Orders)
      BY BoundIsOnFile
    <2>3. total \in Int /\ (V!Figure(v.total) /\ v.total > 0 => total > 0)
      BY Figures DEF V!Figure
    <2>4. remaining \in Int /\ whole \in Int
      <3>1. \A i \in DOMAIN ps : Orders[ps[i]].amount \in Int /\ V!remaining_before(ps[i]) \in Int
        BY <2>2, Figures
      <3>2. DOMAIN ps = 1 .. Len(ps) /\ Len(ps) \in Nat
        BY <2>2
      <3> HIDE DEF ps
      <3>3. /\ [i \in DOMAIN ps |-> V!remaining_before(ps[i])] \in Seq(Int)
            /\ [i \in DOMAIN ps |-> Orders[ps[i]].amount] \in Seq(Int)
        BY <3>1, <3>2
      <3> QED
        BY <3>3, SumIsWhole
    <2>5. tolerance \in Int
      <3> HIDE DEF remaining, whole
      <3> QED
        BY <2>4, ToleranceIsWhole
    <2>6. charged \in Int /\ (total > 0 => charged >= IF converts THEN 0 ELSE 1)
      <3>1. CASE converts
        <4>1. /\ v.currency \in DOMAIN Rates /\ currencies \subseteq DOMAIN Rates
              /\ V!Cardinality(currencies) = 1
          BY <3>1
        <4> HIDE DEF total, currencies, converts
        <4>2. (CHOOSE c \in currencies : TRUE) \in DOMAIN Rates
          BY <4>1, OneIsSome
        <4> DEFINE to == CHOOSE c \in currencies : TRUE
        <4> HIDE DEF to
        <4>3. to \in DOMAIN Rates
          BY <4>2 DEF to
        <4>4. /\ V!fx_convert(total, v.currency, to) \in Int
              /\ total >= 0 => V!fx_convert(total, v.currency, to) >= 0
          BY <2>3, <4>1, <4>3, ConvertedIsWhole
        <4>5. charged = V!fx_convert(total, v.currency, to)
          BY <3>1 DEF to
        <4> HIDE DEF charged
        <4> QED
          BY <2>3, <3>1, <4>4, <4>5
      <3>2. CASE ~converts
        <4> HIDE DEF total, converts
        <4> QED
          BY <2>3, <3>2
      <3> QED
        BY <3>1, <3>2
    <2>7. ~inferred => V!ToSet(ps) \subseteq V!ToSet(v.refs)
      BY BoundIsOnFile
    <2> HIDE DEF ps, total, remaining, whole, currencies, foreign, converts, charged, tolerance,
                 inferred, suspected
    <2>8. /\ V!split_across(ps, charged) \in Seq(Int) /\ Len(V!split_across(ps, charged)) = Len(ps)
          /\ V!SumOf(V!split_across(ps, charged)) = charged
          /\ \A i \in 1 .. Len(ps) - 1 :
                V!split_across(ps, charged)[i] <= V!Larger(0, V!remaining_before(ps[i]))
      BY <1>2, <2>2, <2>6, SplitIsWhole
    <2>9. /\ m.orders = ps /\ m.charged = charged /\ m.amounts = V!split_across(ps, charged)
          /\ m.remaining = remaining /\ m.tolerance = tolerance
          /\ m.inferred = inferred /\ m.converts = converts
      <3> HIDE DEF m
      <3> QED
        BY <2>1
    <2> HIDE DEF m
    <2>10. Matching(v, m)
      BY <2>2, <2>3, <2>4, <2>5, <2>6, <2>7, <2>8, <2>9 DEF Matching
    <2> QED
      BY <2>10 DEF m
  <1> QED
    BY <1>1, <1>2

(* Of two lines of one item, the later has the higher number.              *)
LEMMA LaterCountsMore ==
  ASSUME NEW A, NEW lines \in Seq(A), NEW item,
         NEW i \in V!OfItem(lines, item), NEW j \in V!OfItem(lines, item), i < j
  PROVE  V!Occurrence(lines, i) # V!Occurrence(lines, j)
  <1> DEFINE Upto(n) == {k \in V!OfItem(lines, item) : k <= n}
  <1>1. V!OfItem(lines, item) \subseteq 1 .. Len(lines) /\ Len(lines) \in Nat
    BY DEF V!OfItem
  <1>2. IsFiniteSet(Upto(j))
    <2>1. IsFiniteSet(1 .. Len(lines)) /\ Upto(j) \subseteq 1 .. Len(lines)
      BY <1>1, FS_Interval
    <2> QED
      BY <2>1, FS_Subset
  <1>3. Upto(i) \subseteq Upto(j) /\ j \in Upto(j) /\ j \notin Upto(i)
    BY <1>1
  <1>4. Cardinality(Upto(i)) # Cardinality(Upto(j))
    <2> HIDE DEF Upto
    <2> QED
      BY <1>2, <1>3, FS_Subset
  <1>5. lines[i].item = item /\ lines[j].item = item
    BY DEF V!OfItem
  <1> QED
    BY <1>4, <1>5, VerdictCardinality DEF V!Occurrence

(* When each line billed answers to one ordered, no more lines of an item  *)
(* are billed than were ordered.                                           *)
LEMMA NoMoreThanOrdered ==
  ASSUME NEW A, NEW B, NEW lines \in Seq(A), NEW order \in Seq(B), NEW item,
         \A i \in DOMAIN lines : V!Answering(lines, i, order) # {}
  PROVE  V!Cardinality(V!OfItem(lines, item)) <= V!Cardinality(V!OfItem(order, item))
  <1> DEFINE billed  == V!OfItem(lines, item)
             ordered == V!OfItem(order, item)
             f       == [i \in billed |-> CHOOSE j \in V!Answering(lines, i, order) : TRUE]
  <1>1. billed \subseteq 1 .. Len(lines) /\ ordered \subseteq 1 .. Len(order) /\ Len(order) \in Nat
    BY DEF V!OfItem
  <1>2. ASSUME NEW i \in billed
        PROVE  f[i] \in ordered /\ V!Occurrence(order, f[i]) = V!Occurrence(lines, i)
    <2>1. i \in DOMAIN lines /\ lines[i].item = item
      BY DEF V!OfItem
    <2>2. f[i] \in V!Answering(lines, i, order)
      BY <2>1
    <2> HIDE DEF f
    <2> QED
      BY <2>1, <2>2 DEF V!Answering
  <1>3. ASSUME NEW i \in billed, NEW j \in billed, f[i] = f[j] PROVE i = j
    <2>1. V!Occurrence(lines, i) = V!Occurrence(lines, j)
      BY <1>2, <1>3
    <2>2. i \in Int /\ j \in Int
      BY <1>1
    <2>3. ~(i < j) /\ ~(j < i)
      BY <2>1, LaterCountsMore
    <2> QED
      BY <2>2, <2>3
  <1>4. f \in Injection(billed, ordered)
    <2>1. f \in [billed -> ordered]
      <3>1. f = [i \in billed |-> f[i]]
        OBVIOUS
      <3> HIDE DEF f
      <3> QED
        BY <1>2, <3>1
    <2> HIDE DEF f
    <2> QED
      BY <1>3, <2>1 DEF Injection, IsInjective
  <1>5. IsFiniteSet(ordered)
    <2>1. IsFiniteSet(1 .. Len(order))
      BY <1>1, FS_Interval
    <2> QED
      BY <1>1, <2>1, FS_Subset
  <1>6. Cardinality(billed) <= Cardinality(ordered)
    <2> HIDE DEF f, billed, ordered
    <2> QED
      BY <1>4, <1>5, FS_Injection
  <1> QED
    BY <1>6, VerdictCardinality

(* What nothing rejects and nothing holds fits the one order it names.     *)
LEMMA ApprovedFits ==
  ASSUME NEW v \in Invoices, NEW m, Matching(v, m),
         V!Rejecting(v, m) = {}, V!Holding(v, m) = {}
  PROVE  /\ Len(m.orders) = 1 /\ Orders[m.orders[1]].status # "closed"
         /\ V!ToSet(m.orders) \subseteq V!ToSet(v.refs)
         /\ m.charged \in (IF m.converts THEN 0 ELSE 1) .. m.remaining + m.tolerance
         /\ m.foreign => m.converts
         /\ V!Ordered(m) # <<>> => \A l \in V!ToSet(v.lines) :
               V!Cardinality(V!OfItem(v.lines, l.item)) <= V!Cardinality(V!OfItem(V!Ordered(m), l.item))
  <1>1. /\ ~m.suspected /\ V!validate_required_fields(v) = {} /\ ~V!validate_amount(v)
        /\ V!Matched(m) /\ ~(Len(m.orders) > 1) /\ ~V!Closed(m) /\ ~m.inferred
        /\ (m.foreign => V!fx_resolved(m)) /\ V!within_tolerance(m) /\ ~V!line_item_check(v, m)
    BY Approvable
  <1>2. m.orders \in Seq(DOMAIN Orders) /\ m.orders # <<>>
    BY <1>1 DEF Matching, V!Matched
  <1>3. Len(m.orders) = 1
    <2> DEFINE n == Len(m.orders)
    <2>1. n \in Nat /\ n # 0
      BY <1>2
    <2>2. ~(n > 1)
      BY <1>1
    <2> HIDE DEF n
    <2>3. n = 1
      BY <2>1, <2>2
    <2> QED
      BY <2>3 DEF n
  <1>4. Orders[m.orders[1]].status # "closed"
    <2>1. m.orders[1] \in V!ToSet(m.orders)
      BY <1>2, <1>3 DEF V!ToSet
    <2> QED
      BY <1>1, <2>1 DEF V!Closed
  <1>5. V!ToSet(m.orders) \subseteq V!ToSet(v.refs)
    BY <1>1, <1>2 DEF Matching
  <1>6. m.charged \in (IF m.converts THEN 0 ELSE 1) .. m.remaining + m.tolerance
    <2>1. V!Figure(v.total)
      <3>1. "total" \in V!REQUIRED_FIELDS
        BY DEF V!REQUIRED_FIELDS
      <3>2. v["total"] # None
        BY <1>1, <3>1 DEF V!validate_required_fields
      <3> QED
        BY <3>2 DEF V!Figure
    <2>2. v.total \in Int /\ v.total > 0
      BY <1>1, <2>1, Figures DEF V!validate_amount, V!Figure
    <2>3. m.charged \in Int /\ m.remaining \in Int /\ m.tolerance \in Int
      BY DEF Matching
    <2>4. m.charged >= (IF m.converts THEN 0 ELSE 1)
      BY <1>2, <2>1, <2>2 DEF Matching
    <2>5. m.charged - m.remaining <= m.tolerance
      BY <1>1 DEF V!within_tolerance
    <2> QED
      BY <2>3, <2>4, <2>5
  <1>7. m.foreign => m.converts
    BY <1>1 DEF V!fx_resolved
  <1>8. V!Ordered(m) # <<>> => \A l \in V!ToSet(v.lines) :
           V!Cardinality(V!OfItem(v.lines, l.item)) <= V!Cardinality(V!OfItem(V!Ordered(m), l.item))
    <2> SUFFICES ASSUME V!Ordered(m) # <<>>, NEW l \in V!ToSet(v.lines)
                 PROVE  V!Cardinality(V!OfItem(v.lines, l.item))
                           <= V!Cardinality(V!OfItem(V!Ordered(m), l.item))
      OBVIOUS
    <2>1. \A i \in DOMAIN v.lines : V!Answering(v.lines, i, V!Ordered(m)) # {}
      BY <1>1 DEF V!line_item_check, V!Disagrees
    <2>2. PICK B : V!Ordered(m) \in Seq(B)
      BY <1>2, OrderedIsAList
    <2>3. v.lines \in Seq(V!ToSet(v.lines))
      BY Figures
    <2> QED
      BY <2>1, <2>2, <2>3, NoMoreThanOrdered
  <1> QED
    BY <1>3, <1>4, <1>5, <1>6, <1>7, <1>8

(* The verdict stands: the trail agrees with it; what is charged is the    *)
(* whole total, no order but the last filled past its balance; and what is *)
(* approved is charged to one open order that the invoice names, in that   *)
(* order's currency, within its balance and tolerance, no item billed on   *)
(* more lines than it was ordered on.                                      *)
THEOREM VerdictsStand == SafeSpec => []VerdictStands
  <1>1. OnRecord => V!ChargesFit
    <2> SUFFICES ASSUME OnRecord PROVE V!ChargesFit
      OBVIOUS
    <2>1. CASE invoice = V!NoInvoice /\ match = V!NoMatch /\ status = "NEEDS_REVIEW"
      <3>1. Matching(invoice, match)
        BY <2>1, NoMatchIs
      <3> QED
        BY <2>1, <3>1 DEF Matching, V!ChargesFit
    <2>2. CASE /\ invoice \in Invoices /\ match = V!match_po(invoice)
               /\ status = V!Verdict(V!Rejecting(invoice, match), V!Holding(invoice, match))
      <3>1. Matching(invoice, match)
        BY <2>2, MatchIs
      <3>2. status = "APPROVED" => V!Rejecting(invoice, match) = {} /\ V!Holding(invoice, match) = {}
        BY <2>2 DEF V!Verdict
      <3>3. /\ V!SumOf(match.amounts) = match.charged
            /\ \A i \in 1 .. Len(match.amounts) - 1 :
                  match.amounts[i] <= V!Larger(0, V!remaining_before(match.orders[i]))
        BY <3>1 DEF Matching
      <3> QED
        BY <2>2, <3>1, <3>2, <3>3, ApprovedFits DEF V!ChargesFit
    <2> QED
      BY <2>1, <2>2 DEF OnRecord
  <1> QED
    BY <1>1, RecordInvariant, TrailAgrees, PTL DEF VerdictStands

(* What is on record of a verdict is a list of orders on file, a list of   *)
(* amounts, and one of the three statuses.                                 *)
THEOREM VerdictTyped == SafeSpec => []V!TypeOK
  <1>1. OnRecord => V!TypeOK
    <2> SUFFICES ASSUME OnRecord PROVE V!TypeOK
      OBVIOUS
    <2>1. invoice \in Invoices \cup {V!NoInvoice} /\ Matching(invoice, match)
      BY NoMatchIs, MatchIs DEF OnRecord
    <2>2. status \in {"APPROVED", "NEEDS_REVIEW", "REJECTED"}
      BY DEF OnRecord, V!Verdict
    <2> QED
      BY <2>1, <2>2 DEF Matching, V!TypeOK
  <1> QED
    BY <1>1, RecordInvariant, PTL

-----------------------------------------------------------------------------
(* All the parts, by their types.                                          *)

LEMMA QuotaRuns == SafeSpec => Spec
  <1>1. SafeInit => Init
    BY DEF SafeInit
  <1>2. [SafeNext]_safeVars => [Next]_vars
    <2> SUFFICES ASSUME [SafeNext]_safeVars PROVE [Next]_vars
      OBVIOUS
    <2>1. CASE At("quota") /\ Next
      BY <2>1
    <2>2. ASSUME NEW part \in Parts \ {"quota"}, At(part) PROVE UNCHANGED vars
      BY <2>2 DEF At
    <2>3. CASE UNCHANGED safeVars
      BY <2>3 DEF safeVars
    <2> QED
      BY <2>1, <2>2, <2>3 DEF SafeNext, Parts
  <1> QED
    BY <1>1, <1>2, PTL DEF SafeSpec, Spec

(* Every part keeps to its types, in every behaviour of all of them.       *)
THEOREM SafeTyped == SafeSpec => []SafeTypes
  <1>1. QuotaInv => TypeOK
    BY DEF QuotaInv
  <1>2. WindowInv => W!TypeOK
    BY DEF WindowInv
  <1>3. NoticeInv => N!TypeOK
    BY DEF NoticeInv
  <1>4. CopyInv => D!TypeOK
    BY DEF CopyInv
  <1>5. PoolInv => P!TypeOK
    BY DEF PoolInv
  <1>6. PortalInv => C!TypeOK
    BY DEF PortalInv
  <1>7. SafeSpec => []TypeOK
    BY <1>1, QuotaRuns, QuotaInvariant, PTL
  <1>8. SafeSpec => []W!TypeOK /\ []N!TypeOK
    BY <1>2, <1>3, WindowInvariant, NoticesRun, NoticeInvariant, PTL
  <1>9. SafeSpec => []D!TypeOK /\ []P!TypeOK
    BY <1>4, <1>5, CopiesRun, CopyInvariant, PoolRuns, PoolInvariant, PTL
  <1>10. SafeSpec => []C!TypeOK
    BY <1>6, PortalRuns, PortalInvariant, PTL
  <1> QED
    BY <1>7, <1>8, <1>9, <1>10, ReaderTyped, VerdictTyped, MailTyped, PTL DEF SafeTypes
=============================================================================
