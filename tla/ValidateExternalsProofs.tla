---------------------- MODULE ValidateExternalsProofs -----------------------
(***************************************************************************)
(* The result of validate_externals agrees with itself, for any categories *)
(* and entries, any references among them, any schemas and answers, in     *)
(* whichever order the entries of a category are done.                     *)
(***************************************************************************)
EXTENDS ValidateExternals, TLAPS

(* ------------------------------- operators ------------------------------ *)

LEMMA StringsAre ==
  ASSUME NEW f
  PROVE  /\ DOMAIN Strings(f) = {k \in DOMAIN f : f[k] # NoString}
         /\ \A k \in DOMAIN Strings(f) : Strings(f)[k] = f[k] /\ f[k] # NoString
BY DEF Strings

LEMMA OverIs ==
  ASSUME NEW f, NEW g
  PROVE  /\ DOMAIN Over(f, g) = DOMAIN f \cup DOMAIN g
         /\ \A k \in DOMAIN f : Over(f, g)[k] = f[k]
         /\ \A k \in DOMAIN g \ DOMAIN f : Over(f, g)[k] = g[k]
BY DEF Over

LEMMA OnlyIs == ASSUME NEW key, NEW value PROVE DOMAIN Only(key, value) = {key} /\ Only(key, value)[key] = value
BY DEF Only

LEMMA KeysAre == \A e \in Entries : e = <<e[1], e[2]>> /\ e[1] \in 1 .. Categories /\ e[2] \in Keys(e[1])
BY EntriesAssumption DEF Keys

LEMMA KeysOf == ASSUME NEW c, NEW key PROVE key \in Keys(c) <=> <<c, key>> \in Entries
BY EntriesAssumption DEF Keys

(* What the enrichment of an entry is made of. *)
LEMMA EnrichedIs ==
  ASSUME NEW e, NEW base
  PROVE  /\ "_warning" \in DOMAIN Enriched(e, base) <=>
              Warned(e, base) \/ "_warning" \in DOMAIN base \cup DOMAIN Fetched(e, base)
         /\ \A k \in DOMAIN base : k # "_warning" =>
              k \in DOMAIN Enriched(e, base) /\ Enriched(e, base)[k] = base[k]
         /\ ~Warned(e, base) => \A k \in DOMAIN base : Enriched(e, base)[k] = base[k]
         /\ \A k \in DOMAIN Enriched(e, base) \ (DOMAIN base \cup {"_warning"}) :
              k \in DOMAIN Fetched(e, base) /\ Enriched(e, base)[k] = Fetched(e, base)[k]
<1> DEFINE warning == IF Warned(e, base) THEN Only("_warning", Text("warning")) ELSE <<>>
           rest == Over(base, Fetched(e, base))
<1>1. Enriched(e, base) = Over(warning, rest)
  BY DEF Enriched
<1>2. DOMAIN warning = IF Warned(e, base) THEN {"_warning"} ELSE {}
  <2>1. CASE Warned(e, base)
    <3>1. warning = Only("_warning", Text("warning"))
      BY <2>1
    <3>2. QED
      BY <2>1, <3>1 DEF Only
  <2>2. CASE ~Warned(e, base)
    BY <2>2
  <2>3. QED
    BY <2>1, <2>2
<1> HIDE DEF warning
<1>3. DOMAIN rest = DOMAIN base \cup DOMAIN Fetched(e, base)
      /\ (\A k \in DOMAIN base : rest[k] = base[k])
      /\ \A k \in DOMAIN Fetched(e, base) \ DOMAIN base : rest[k] = Fetched(e, base)[k]
  BY OverIs
<1> HIDE DEF rest
<1>4. DOMAIN Over(warning, rest) = DOMAIN warning \cup DOMAIN rest
      /\ \A k \in DOMAIN rest \ DOMAIN warning : Over(warning, rest)[k] = rest[k]
  BY OverIs
<1>5. QED
  BY <1>1, <1>2, <1>3, <1>4

(* Nothing of it is empty, so that a reference to it is a string. *)
LEMMA FetchedIs ==
  ASSUME NEW e, NEW base
  PROVE  /\ DOMAIN Fetched(e, base) # {} => Call(e, base) # NoCall
         /\ \A k \in DOMAIN Fetched(e, base) :
              k \in Exported(e) /\ Fetched(e, base)[k] = Live(Call(e, base), k)
<1>1. CASE Call(e, base) # NoCall /\ Answered(e)
  BY <1>1 DEF Fetched
<1>2. CASE ~(Call(e, base) # NoCall /\ Answered(e))
  BY <1>2 DEF Fetched
<1>3. QED
  BY <1>1, <1>2

(* An entry that gets a warning gets nothing from the API. *)
LEMMA FetchedWarns ==
  ASSUME NEW e, NEW base, DOMAIN Fetched(e, base) # {}
  PROVE  ~Warned(e, base)
<1>1. Call(e, base) # NoCall /\ Answered(e)
  <2>1. CASE ~(Call(e, base) # NoCall /\ Answered(e))
    BY <2>1 DEF Fetched
  <2>2. QED
    BY <2>1
<1>2. QED
  BY <1>1 DEF Answered, Warned

LEMMA TextsAre ==
  /\ \A t : Text(t) # NoString
  /\ \A call, k : Live(call, k) # NoString
BY DEF Text, Live, NoString

LEMMA OverString ==
  ASSUME NEW f, \A k \in DOMAIN f : f[k] # NoString,
         NEW g, \A k \in DOMAIN g : g[k] # NoString
  PROVE  \A k \in DOMAIN Over(f, g) : Over(f, g)[k] # NoString
BY DEF Over

LEMMA EnrichedString ==
  ASSUME NEW e, NEW base, \A k \in DOMAIN base : base[k] # NoString
  PROVE  \A k \in DOMAIN Enriched(e, base) : Enriched(e, base)[k] # NoString
<1> DEFINE warning == IF Warned(e, base) THEN Only("_warning", Text("warning")) ELSE <<>>
           rest == Over(base, Fetched(e, base))
<1>1. \A k \in DOMAIN warning : warning[k] # NoString
  <2>1. CASE Warned(e, base)
    <3>1. warning = Only("_warning", Text("warning"))
      BY <2>1
    <3>2. QED
      BY <3>1, TextsAre DEF Only
  <2>2. CASE ~Warned(e, base)
    BY <2>2
  <2>3. QED
    BY <2>1, <2>2
<1>2. \A k \in DOMAIN rest : rest[k] # NoString
  <2>1. \A k \in DOMAIN Fetched(e, base) : Fetched(e, base)[k] # NoString
    BY FetchedIs, TextsAre
  <2>2. QED
    BY <2>1, OverString
<1>3. Enriched(e, base) = Over(warning, rest)
  BY DEF Enriched
<1> HIDE DEF warning, rest
<1>4. QED
  BY <1>1, <1>2, <1>3, OverString

(* ------------------------------ references ------------------------------ *)

(* What an entry means depends on the categories before its own alone. *)
LEMMA MeantSame ==
  ASSUME NEW e \in Entries, UNCHANGED input,
         \A f \in Entries : f[1] < e[1] => Result(f)' = Result(f)
  PROVE  Meant(e)' = Meant(e)
<1>1. ASSUME NEW v PROVE Means(e, v)' = Means(e, v)
  <2> DEFINE target == <<v[2], v[3]>>
             there == IF v[2] < e[1] THEN Result(target) ELSE Strings(input.attrs[target])
  <2>1. Means(e, v) = (IF IsRef(v) /\ target \in Entries /\ v[4] \in DOMAIN there THEN there[v[4]] ELSE v)
    BY DEF Means
  <2>2. target \in Entries => there' = there
    BY DEF Strings
  <2>3. Means(e, v)' = (IF IsRef(v) /\ target \in Entries /\ v[4] \in DOMAIN there' THEN there'[v[4]] ELSE v)
    BY DEF Means
  <2> HIDE DEF there
  <2>4. QED
    BY <2>1, <2>2, <2>3
<1>2. [k \in DOMAIN input.attrs[e] |-> Means(e, input.attrs[e][k])]'
      = [k \in DOMAIN input.attrs[e] |-> Means(e, input.attrs[e][k])]
  BY <1>1
<1>3. QED
  BY <1>2 DEF Meant

(* So does what becomes of it. *)
LEMMA EnrichedSame ==
  ASSUME NEW e \in Entries, UNCHANGED <<input, answers>>,
         \A f \in Entries : f[1] < e[1] => Result(f)' = Result(f)
  PROVE  Enriched(e, Meant(e))' = Enriched(e, Meant(e))
<1>1. Meant(e)' = Meant(e)
  BY MeantSame
<1>2. EntrySchema(e)' = EntrySchema(e)
  BY DEF EntrySchema, CategorySchema
<1>3. Call(e, Meant(e))' = Call(e, Meant(e))
  BY <1>1, <1>2 DEF Call, Token, ClaimsToken
<1>4. Exported(e)' = Exported(e)
  BY <1>2 DEF Exported
<1>5. Warned(e, Meant(e))' = Warned(e, Meant(e))
  BY <1>2, <1>3, <1>4 DEF Warned
<1>6. Fetched(e, Meant(e))' = Fetched(e, Meant(e))
  BY <1>2, <1>3, <1>4 DEF Fetched, Answered
<1>7. QED
  BY <1>1, <1>5, <1>6 DEF Enriched

(* A reference is resolved to what it means: the categories before this one *)
(* have their results, the others what the user gives.                      *)
LEMMA ResolveMeans ==
  ASSUME ShapeInv, DataInv, NEW key \in Keys(at), NEW v
  PROVE  Resolve(v) = Means(<<at, key>>, v)
<1> DEFINE target == <<v[2], v[3]>>
           there == IF v[2] < at THEN Result(target) ELSE Strings(input.attrs[target])
<1>1. Means(<<at, key>>, v) = (IF IsRef(v) /\ target \in Entries /\ v[4] \in DOMAIN there THEN there[v[4]] ELSE v)
  BY DEF Means
<1>2. v[2] \in DOMAIN enriched /\ v[3] \in DOMAIN enriched[v[2]] <=> target \in Entries
  BY KeysOf, KeysAre DEF ShapeInv
<1>3. target \in Entries => there = Result(target) /\ Result(target) = enriched[v[2]][v[3]]
  BY DEF DataInv, Result
<1> HIDE DEF target, there
<1>4. QED
  BY <1>1, <1>2, <1>3 DEF Resolve

LEMMA ResolvedIs ==
  ASSUME ShapeInv, DataInv, NEW key \in Keys(at)
  PROVE  Strings(Resolved(<<at, key>>)) = Meant(<<at, key>>)
<1> DEFINE e == <<at, key>>
<1>1. \A v : Resolve(v) = Means(e, v)
  BY ResolveMeans
<1>2. Resolved(e) = [k \in DOMAIN input.attrs[e] |-> Means(e, input.attrs[e][k])]
  BY <1>1 DEF Resolved
<1>3. QED
  BY <1>2 DEF Meant

(* ------------------------ the inductive invariant ----------------------- *)

LEMMA InitInv == Init => IInv
<1> SUFFICES ASSUME Init PROVE IInv
  OBVIOUS
<1>1. ShapeInv
  BY EntriesAssumption DEF Init, ShapeInv
<1>2. \A e \in Entries : Result(e) = Strings(input.attrs[e]) /\ ~(e[1] < at)
  BY KeysAre DEF Init, Result
<1>3. DataInv
  BY <1>2 DEF Init, DataInv
<1>4. QED
  BY <1>1, <1>3 DEF IInv, OutcomeInv, Init

LEMMA EntryStep ==
  ASSUME ShapeInv, DataInv, NEW key \in left, EnrichEntry(key)
  PROVE  ShapeInv' /\ DataInv'
<1>1. UNCHANGED <<input, answers, at, enriched>> /\ left' = left \ {key}
  BY DEF EnrichEntry
<1>2. key \in Keys(at) /\ key \notin DOMAIN fresh
  BY DEF ShapeInv
<1>3. fresh' = Over(fresh, Only(key, Enriched(<<at, key>>, Meant(<<at, key>>))))
  BY <1>2, ResolvedIs DEF EnrichEntry
<1>4. DOMAIN fresh' = DOMAIN fresh \cup {key}
      /\ fresh'[key] = Enriched(<<at, key>>, Meant(<<at, key>>))
      /\ \A k \in DOMAIN fresh : fresh'[k] = fresh[k]
  <2> DEFINE value == Enriched(<<at, key>>, Meant(<<at, key>>))
  <2>1. fresh' = Over(fresh, Only(key, value))
    BY <1>3
  <2> HIDE DEF value
  <2>2. QED
    BY <1>2, <2>1 DEF Over, Only, value
<1>5. ShapeInv'
  <2>1. DOMAIN fresh' = Keys(at) \ left'
    BY <1>1, <1>2, <1>4 DEF ShapeInv
  <2>2. QED
    BY <1>1, <2>1 DEF ShapeInv
<1>6. ASSUME NEW e \in Entries PROVE Enriched(e, Meant(e))' = Enriched(e, Meant(e)) /\ Result(e)' = Result(e)
  BY <1>1, EnrichedSame DEF Result
<1>7. ASSUME NEW e \in Entries
      PROVE  Result(e)' = IF e[1] < at' THEN Enriched(e, Meant(e))' ELSE Strings(input'.attrs[e])
  BY <1>1, <1>6 DEF DataInv
<1>8. ASSUME NEW k \in DOMAIN fresh' PROVE fresh'[k] = Enriched(<<at, k>>, Meant(<<at, k>>))'
  <2>1. <<at, k>> \in Entries
    BY <1>1, <1>2, <1>4, KeysOf DEF ShapeInv
  <2>2. fresh'[k] = Enriched(<<at, k>>, Meant(<<at, k>>))
    BY <1>4 DEF DataInv
  <2>3. QED
    BY <1>1, <1>6, <2>1, <2>2
<1>9. DataInv'
  BY <1>7, <1>8 DEF DataInv, Strings
<1>10. QED
  BY <1>5, <1>9

LEMMA CloseStep == ASSUME ShapeInv, DataInv, CloseCategory PROVE ShapeInv' /\ DataInv'
<1>1. /\ at \in 1 .. Categories /\ left = {} /\ UNCHANGED <<input, answers>>
      /\ at' = at + 1 /\ left' = Keys(at + 1) /\ fresh' = <<>>
  BY EntriesAssumption DEF CloseCategory, ShapeInv
<1>2. /\ DOMAIN enriched' = 1 .. Categories
      /\ enriched'[at] = fresh
      /\ \A c \in (1 .. Categories) \ {at} : enriched'[c] = enriched[c]
  BY <1>1 DEF CloseCategory, ShapeInv
<1>3. DOMAIN fresh = Keys(at)
  BY <1>1 DEF ShapeInv
<1>4. ShapeInv'
  <2>1. input' \in Inputs /\ at' \in 1 .. Categories + 1 /\ left' \subseteq Keys(at')
    BY <1>1, EntriesAssumption DEF ShapeInv
  <2>2. ASSUME NEW c \in 1 .. Categories PROVE DOMAIN enriched'[c] = Keys(c)
    BY <1>2, <1>3 DEF ShapeInv
  <2>3. DOMAIN fresh' = Keys(at') \ left'
    <3>1. DOMAIN fresh' = {}
      BY <1>1
    <3>2. QED
      BY <1>1, <3>1
  <2>4. DOMAIN enriched' = 1 .. Categories
    BY <1>2
  <2> HIDE DEF Keys
  <2>5. QED
    BY <2>1, <2>2, <2>3, <2>4 DEF ShapeInv
<1>5. ASSUME NEW e \in Entries, e[1] # at PROVE Result(e)' = Result(e)
  BY <1>2, <1>5, KeysAre DEF Result
<1>6. ASSUME NEW e \in Entries, e[1] = at PROVE Result(e)' = Enriched(e, Meant(e))
  <2>1. e = <<at, e[2]>> /\ e[2] \in DOMAIN fresh
    BY <1>3, <1>6, KeysAre
  <2>2. Result(e)' = fresh[e[2]]
    BY <1>2, <1>6 DEF Result
  <2>3. QED
    BY <2>1, <2>2 DEF DataInv
<1>7. ASSUME NEW e \in Entries
      PROVE  Result(e)' = IF e[1] < at' THEN Enriched(e, Meant(e))' ELSE Strings(input'.attrs[e])
  <2>1. e[1] \in Nat /\ at \in Nat
    BY <1>1, KeysAre
  <2>2. CASE e[1] <= at
    <3>1. \A f \in Entries : f[1] < e[1] => f[1] # at
      BY <1>1, <2>2, KeysAre
    <3>2. Enriched(e, Meant(e))' = Enriched(e, Meant(e))
      BY <1>1, <1>5, <3>1, EnrichedSame
    <3>3. Result(e)' = Enriched(e, Meant(e))
      <4>1. CASE e[1] = at
        BY <1>6, <4>1
      <4>2. CASE e[1] < at
        BY <1>5, <2>1, <4>2 DEF DataInv
      <4>3. QED
        BY <2>1, <2>2, <4>1, <4>2
    <3>4. QED
      BY <1>1, <2>1, <2>2, <3>2, <3>3
  <2>3. CASE e[1] > at
    <3>1. ~(e[1] < at) /\ ~(e[1] < at') /\ e[1] # at
      BY <1>1, <2>1, <2>3
    <3>2. QED
      BY <1>1, <1>5, <3>1 DEF DataInv
  <2>4. QED
    BY <2>1, <2>2, <2>3
<1>8. DataInv'
  <2>1. \A k \in DOMAIN fresh' : FALSE
    BY <1>1
  <2>2. (\A e \in Entries : Result(e) = IF e[1] < at THEN Enriched(e, Meant(e)) ELSE Strings(input.attrs[e]))'
    BY <1>7 DEF Strings
  <2>3. QED
    BY <2>1, <2>2 DEF DataInv
<1>9. QED
  BY <1>4, <1>8

LEMMA StepInv == IInv /\ [Next]_vars => IInv'
<1> SUFFICES ASSUME IInv, [Next]_vars PROVE IInv'
  OBVIOUS
<1> USE DEF IInv
<1>1. CASE \E key \in left : EnrichEntry(key)
  <2> PICK key \in left : EnrichEntry(key)
    BY <1>1
  <2>1. OutcomeInv'
    BY DEF EnrichEntry, OutcomeInv, Warnings
  <2>2. QED
    BY <2>1, EntryStep
<1>2. CASE CloseCategory
  <2>1. OutcomeInv'
    BY <1>2, EntriesAssumption DEF CloseCategory, OutcomeInv, ShapeInv
  <2>2. QED
    BY <1>2, <2>1, CloseStep
<1>3. CASE Return \/ UNCHANGED vars
  <2>1. UNCHANGED <<input, answers, at, left, enriched, fresh>>
    BY <1>3 DEF Return, vars
  <2>2. ShapeInv'
    BY <2>1 DEF ShapeInv
  <2>3. \A e \in Entries : Enriched(e, Meant(e))' = Enriched(e, Meant(e)) /\ Result(e)' = Result(e)
    BY <2>1, EnrichedSame DEF Result
  <2>4. DataInv'
    <3>1. \A k \in DOMAIN fresh : <<at, k>> \in Entries
      BY KeysOf DEF ShapeInv
    <3>2. QED
      BY <2>1, <2>3, <3>1 DEF DataInv, Strings
  <2>5. Warnings' = Warnings
    BY <2>1 DEF Warnings
  <2>6. OutcomeInv'
    BY <1>3, <2>1, <2>5 DEF Return, vars, OutcomeInv
  <2>7. QED
    BY <2>2, <2>4, <2>6
<1>4. QED
  BY <1>1, <1>2, <1>3 DEF Next

LEMMA Inductive == Spec => []IInv
BY InitInv, StepInv, PTL DEF Spec

(* -------------------------- what a result says -------------------------- *)

(* The attributes of an entry are, as strings, those that the user gives.   *)
LEMMA MeantIs ==
  ASSUME IInv, at > Categories, NEW e \in Entries
  PROVE  /\ DOMAIN Meant(e) = DOMAIN Strings(input.attrs[e])
         /\ \A k \in DOMAIN Meant(e) : Meant(e)[k] = Means(e, input.attrs[e][k])
         /\ Result(e) = Enriched(e, Meant(e))
<1> DEFINE attrs == input.attrs[e]
           meant == [k \in DOMAIN attrs |-> Means(e, attrs[k])]
<1>1. \A f \in Entries : Result(f) = Enriched(f, Meant(f))
  <2>1. \A f \in Entries : f[1] < at
    BY KeysAre, EntriesAssumption DEF IInv, ShapeInv
  <2>2. QED
    BY <2>1 DEF IInv, DataInv
<1>2. ASSUME NEW f \in Entries PROVE \A k \in DOMAIN Result(f) : Result(f)[k] # NoString
  <2>1. \A k \in DOMAIN Meant(f) : Meant(f)[k] # NoString
    BY StringsAre DEF Meant
  <2>2. \A k \in DOMAIN Enriched(f, Meant(f)) : Enriched(f, Meant(f))[k] # NoString
    BY <2>1, EnrichedString
  <2>3. QED
    BY <1>1, <2>2
<1>3. \A v : v # NoString => Means(e, v) # NoString
  BY <1>2, StringsAre DEF Means
<1>4. Means(e, NoString) = NoString
  BY DEF Means, IsRef, NoString
<1>5. Meant(e) = Strings(meant)
  BY DEF Meant
<1>6. DOMAIN Strings(meant) = {k \in DOMAIN attrs : attrs[k] # NoString}
  <2>1. DOMAIN meant = DOMAIN attrs /\ \A k \in DOMAIN attrs : meant[k] = Means(e, attrs[k])
    OBVIOUS
  <2> HIDE DEF meant, attrs
  <2>2. \A k \in DOMAIN attrs : meant[k] # NoString <=> attrs[k] # NoString
    BY <1>3, <1>4, <2>1
  <2>3. QED
    BY <2>1, <2>2, StringsAre
<1>7. \A k \in DOMAIN Strings(meant) : Strings(meant)[k] = Means(e, attrs[k])
  BY <1>6, StringsAre
<1>8. QED
  BY <1>1, <1>5, <1>6, <1>7, StringsAre

(* The result agrees with itself (ValidateAndEnrich,                        *)
(* resolveExistingRefsInAttrs): every attribute the user gives, but for     *)
(* `_warning`, is there and means what the result says of what it refers to. *)
THEOREM ResultAgrees == Spec => []RefsMeetResult
<1>1. IInv => RefsMeetResult
  <2> SUFFICES ASSUME IInv, outcome = "result", NEW e \in Entries,
                      NEW k \in DOMAIN Strings(input.attrs[e]) \ {"_warning"}
               PROVE  k \in DOMAIN Result(e) /\ Result(e)[k] = Means(e, input.attrs[e][k])
    BY DEF RefsMeetResult
  <2>1. at > Categories
    BY DEF IInv, OutcomeInv
  <2>2. k \in DOMAIN Meant(e) /\ k # "_warning" /\ Meant(e)[k] = Means(e, input.attrs[e][k])
        /\ Result(e) = Enriched(e, Meant(e))
    BY <2>1, MeantIs
  <2>3. QED
    BY <2>2, EnrichedIs
<1>2. QED
  BY <1>1, Inductive, PTL

(* What comes from an API is of the object that the returned attributes     *)
(* name, and was asked for; with fail_on_warning no entry that an API does  *)
(* not know is returned (buildSchemaURL, Run).                              *)
THEOREM EnrichmentIsRight == Spec => []EnrichmentFits
<1>1. IInv => EnrichmentFits
  <2> SUFFICES ASSUME IInv, outcome = "result", NEW e \in Entries
               PROVE  LET given == [k \in DOMAIN Strings(input.attrs[e]) |-> Result(e)[k]]
                          schema == EntrySchema(e)
                          named == IF HasPath(given) THEN {"id"} ELSE schema.path
                          chosen == IF schema.filter \subseteq DOMAIN given THEN schema.filter ELSE {}
                      IN  /\ \A k \in DOMAIN Result(e) \ (DOMAIN given \cup {"_warning"}) :
                               /\ k \in Exported(e)
                               /\ schema.api # "token_claims" =>
                                    /\ Result(e)[k][2][3] = {<<n, given[n]>> : n \in named}
                                    /\ Result(e)[k][2][4] = {<<n, given[n]>> : n \in chosen}
                          /\ input.strict /\ Call(e, given) # NoCall => answers[e] # "failed"
    BY DEF EnrichmentFits
  <2> DEFINE given == [k \in DOMAIN Strings(input.attrs[e]) |-> Result(e)[k]]
             base == Meant(e)
  <2>1. at > Categories /\ (input.strict => Warnings = {})
    BY DEF IInv, OutcomeInv
  <2>2. DOMAIN base = DOMAIN Strings(input.attrs[e]) /\ Result(e) = Enriched(e, base)
    BY <2>1, MeantIs
  <2>3. ~Warned(e, base) => given = base
    <3>1. base = [k \in DOMAIN base |-> base[k]]
      BY DEF Meant, Strings
    <3>2. ~Warned(e, base) => \A k \in DOMAIN base : Result(e)[k] = base[k]
      BY <2>2, EnrichedIs
    <3>3. ~Warned(e, base) => given = [k \in DOMAIN base |-> base[k]]
      BY <2>2, <3>2
    <3>4. QED
      BY <3>1, <3>3
  <2>4. DOMAIN given = DOMAIN base
    BY <2>2
  <2> HIDE DEF given, base
  <2>5. ASSUME NEW k \in DOMAIN Result(e) \ (DOMAIN given \cup {"_warning"})
        PROVE  /\ k \in Exported(e)
               /\ Call(e, given) # NoCall /\ Result(e)[k] = Live(Call(e, given), k)
    <3>1. k \in DOMAIN Fetched(e, base) /\ Result(e)[k] = Fetched(e, base)[k]
      BY <2>2, <2>4, <2>5, EnrichedIs
    <3>2. ~Warned(e, base)
      BY <3>1, FetchedWarns
    <3>3. QED
      BY <2>3, <3>1, <3>2, FetchedIs
  <2>6. ASSUME EntrySchema(e).api # "token_claims", Call(e, given) # NoCall
        PROVE  /\ Call(e, given)[3] =
                    {<<n, given[n]>> : n \in IF HasPath(given) THEN {"id"} ELSE EntrySchema(e).path}
               /\ Call(e, given)[4] =
                    {<<n, given[n]>> : n \in IF EntrySchema(e).filter \subseteq DOMAIN given
                                              THEN EntrySchema(e).filter ELSE {}}
    BY <2>6 DEF Call, Substituted, NoCall
  <2>7. ASSUME input.strict, Call(e, given) # NoCall PROVE answers[e] # "failed"
    <3>1. "_warning" \notin DOMAIN Result(e)
      BY <2>1, <2>7 DEF Warnings, Result
    <3>2. ~Warned(e, base)
      BY <2>2, <3>1, EnrichedIs
    <3>3. QED
      BY <2>3, <2>7, <3>2 DEF Warned
  <2>8. \A call, k : Live(call, k)[2] = call
    BY DEF Live
  <2>9. QED
    BY <2>5, <2>6, <2>7, <2>8 DEF given
<1>2. QED
  BY <1>1, Inductive, PTL
=============================================================================
