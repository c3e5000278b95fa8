------------------------- MODULE ValidateExternals -------------------------
(***************************************************************************)
(* The function validate_externals, and the data source of the same name   *)
(* (internal/functions/validate_externals.go): ValidateAndEnrich goes      *)
(* through the categories in the order of their names, and through the     *)
(* entries of a category in the order of Go's maps, which is any.          *)
(*                                                                         *)
(* A value is a text, a reference, what an API call has told of an         *)
(* attribute, or not a string at all.  The APIs are external: what they    *)
(* answer to the call of each entry is chosen at the start.                *)
(***************************************************************************)
EXTENDS Sequences, Naturals

CONSTANTS
  Categories,     \* number of categories, 1 the first by name
  Entries,        \* the entries, pairs <<category, key>>
  Attributes,     \* names of attributes
  Paths,          \* the values that begin with a slash
  Inputs,         \* what the user gives, see InputFields
  Answers         \* by entry, how the API answers its call

Text(t) == <<t>>

Ref(c, key, k) == <<"ref", c, key, k>>

Live(call, k) == <<"live", call, k>>

NoString == <<>>

(* The prefix `ref:existing.` and three segments. *)
IsRef(v) == Len(v) = 4

(* A schema, of a category or in an entry; a field that is not given is     *)
(* empty.  Of path and search_filter the placeholders count.                *)
Schema ==
  [api : {"", "arm", "graph", "github", "token_claims"}, hasPath : BOOLEAN,
   path : SUBSET Attributes, filter : SUBSET Attributes,
   attributes : SUBSET Attributes, any : BOOLEAN]

(* No `_schema` in an entry; one that has none of these fields is there.    *)
Absent == <<>>

NoSchema ==
  [api |-> "", hasPath |-> FALSE, path |-> {}, filter |-> {}, attributes |-> {}, any |-> FALSE]

(* By entry its attributes, and the metadata _exported_attributes ("*" for  *)
(* all), _tenant (of which there is a token) and _schema; by category the   *)
(* schema of the registry and the inline one; the APIs that have a token,   *)
(* and fail_on_warning.                                                     *)
InputFields == {"attrs", "export", "tenant", "schema", "registry", "inline", "tokens", "strict"}

(* An object, a list in which no object matches, 401 or 403, any other failure. *)
AnswerKinds == {"ok", "no match", "denied", "failed"}

ASSUME EntriesAssumption ==
  Categories \in Nat /\ \A e \in Entries : e = <<e[1], e[2]>> /\ e[1] \in 1 .. Categories
ASSUME InputsAssumption == \A i \in Inputs : DOMAIN i = InputFields
ASSUME AnswersAssumption == Answers \subseteq [Entries -> AnswerKinds]

VARIABLES
  input,      \* what the user gives
  answers,    \* what the APIs answer
  at,         \* the category in progress; one more when all are done
  left,       \* keys of the entries of this category that are still to do
  enriched,   \* enrichedData: by category and key, the attributes
  fresh,      \* enrichedEntries of this category
  problems,   \* structErrors: entries with an attribute that is not allowed
  outcome     \* how Run ends

vars == <<input, answers, at, left, enriched, fresh, problems, outcome>>

Keys(c) == {e[2] : e \in {f \in Entries : f[1] = c}}

(* A map that goes before another, and a map of one key. *)
Over(f, g) == [x \in DOMAIN f \cup DOMAIN g |-> IF x \in DOMAIN f THEN f[x] ELSE g[x]]

Only(key, value) == [x \in {key} |-> value]

(* The attributes that are strings; the others are left out of the result.  *)
Strings(attrs) == [k \in {n \in DOMAIN attrs : attrs[n] # NoString} |-> attrs[k]]
-----------------------------------------------------------------------------
(* The schema of an entry.                                                  *)

Parses(s) == s.api # "" /\ (s.hasPath \/ s.api = "token_claims")

(* lookupSchema: the registry goes before the inline schema. *)
CategorySchema(c) ==
  IF Parses(input.registry[c]) THEN input.registry[c]
  ELSE IF Parses(input.inline[c]) THEN input.inline[c]
  ELSE NoSchema

(* mergeEntrySchema: the entry's fields go before those of the category;    *)
(* without a category schema "arm" is the default.                          *)
EntrySchema(e) ==
  LET category == CategorySchema(e[1])
      own == input.schema[e]
      Or(a, b, none) == IF a = none THEN b ELSE a
  IN  IF own = Absent THEN category
      ELSE IF category = NoSchema THEN [own EXCEPT !.api = Or(@, "arm", "")]
      ELSE [api |-> Or(own.api, category.api, ""),
            hasPath |-> own.hasPath \/ category.hasPath,
            path |-> IF own.hasPath THEN own.path ELSE category.path,
            filter |-> Or(own.filter, category.filter, {}),
            attributes |-> Or(own.attributes, category.attributes, {}),
            any |-> own.any \/ category.any]

(* The attributes that the API is asked for: _exported_attributes, or those *)
(* that the schema declares.                                                *)
Exported(e) ==
  LET asked == input.export[e]
      schema == EntrySchema(e)
      chosen == IF asked # {} THEN asked ELSE IF schema.any THEN {"*"} ELSE schema.attributes
  IN  IF chosen = {"*"} THEN Attributes ELSE chosen

Unknown(e, attrs) ==
  LET schema == EntrySchema(e)
      allowed == IF schema.attributes = {} THEN schema.path \cup schema.filter ELSE schema.attributes
  IN  IF schema = NoSchema \/ schema.any \/ allowed = {} THEN {} ELSE DOMAIN attrs \ (allowed \cup {"id"})
-----------------------------------------------------------------------------
(* The call of an entry.                                                    *)

(* tokenForAPIWithTenant; what has no token is not called.                  *)
Token(e, api) == IF api = "arm" /\ input.tenant[e] THEN "tenant" ELSE IF api \in input.tokens THEN api ELSE ""

(* The claims come from the tenant's token, or that of ARM, or Graph's. *)
ClaimsToken(e) ==
  IF input.tenant[e] THEN "tenant"
  ELSE IF "arm" \in input.tokens THEN "arm"
  ELSE IF "graph" \in input.tokens THEN "graph" ELSE ""

(* Mutant of Substituted: the placeholders are read before the references   *)
(* are resolved.                                                            *)
SubstitutedEarly(e, names, attrs) == {<<k, input.attrs[e][k]>> : k \in names}

(* The template with the values of its placeholders. *)
Substituted(e, names, attrs) == {<<k, attrs[k]>> : k \in names}

NoCall == <<>>

(* An `id` that begins with a slash is the whole path. *)
HasPath(attrs) == "id" \in DOMAIN attrs /\ attrs["id"] \in Paths

(* buildSchemaURL and resolveSearchFilter: when a placeholder of the path   *)
(* has no value there is no call, when one of the filter has none there is  *)
(* no filter.                                                               *)
Call(e, attrs) ==
  LET schema == EntrySchema(e)
      token == Token(e, schema.api)
      filter == IF schema.filter \subseteq DOMAIN attrs THEN Substituted(e, schema.filter, attrs) ELSE {}
  IN  IF schema = NoSchema THEN NoCall
      ELSE IF schema.api = "token_claims"
        THEN IF ClaimsToken(e) = "" THEN NoCall ELSE <<"claims", ClaimsToken(e)>>
      ELSE IF token = "" THEN NoCall
      ELSE IF HasPath(attrs) THEN <<"id", token, Substituted(e, {"id"}, attrs), filter>>
      ELSE IF schema.path \subseteq DOMAIN attrs
        THEN <<"path", token, Substituted(e, schema.path, attrs), filter>>
      ELSE NoCall

(* The entry gets a _warning: the answer is a failure (for the claims, the  *)
(* token does not decode), or nothing matches what is to be fetched, or     *)
(* there is no token for the claims.                                        *)
Warned(e, attrs) ==
  LET claims == EntrySchema(e).api = "token_claims"
  IN  IF Call(e, attrs) = NoCall
        THEN claims
        ELSE \/ answers[e] = "failed"
             \/ answers[e] = "no match" /\ Exported(e) # {} /\ ~claims

Answered(e) ==
  IF EntrySchema(e).api = "token_claims" THEN answers[e] # "failed" ELSE answers[e] = "ok"

(* What the call adds to the attributes: never one that the entry has.      *)
Fetched(e, attrs) ==
  IF Call(e, attrs) # NoCall /\ Answered(e)
    THEN [k \in Exported(e) |-> Live(Call(e, attrs), k)]
    ELSE <<>>
-----------------------------------------------------------------------------
(* ValidateAndEnrich                                                        *)

Init ==
  /\ input \in Inputs
  /\ answers \in Answers
  /\ at = 1
  /\ left = Keys(1)
  /\ enriched = [c \in 1 .. Categories |-> [key \in Keys(c) |-> Strings(input.attrs[<<c, key>>])]]
  /\ fresh = <<>>
  /\ problems = {}
  /\ outcome = "running"

(* resolveExistingRefsInAttrs: a reference to an attribute that is in       *)
(* enrichedData becomes its value, another stays what it is.                *)
Resolve(v) ==
  IF IsRef(v) /\ v[2] \in DOMAIN enriched /\ v[3] \in DOMAIN enriched[v[2]]
       /\ v[4] \in DOMAIN enriched[v[2]][v[3]]
    THEN enriched[v[2]][v[3]][v[4]]
    ELSE v

Resolved(e) == [k \in DOMAIN input.attrs[e] |-> Resolve(input.attrs[e][k])]

(* What becomes of an entry with these attributes. *)
Enriched(e, base) ==
  LET warning == IF Warned(e, base) THEN Only("_warning", Text("warning")) ELSE <<>>
  IN  Over(warning, Over(base, Fetched(e, base)))

(* One entry: its references, its attributes against the schema, its call.  *)
EnrichEntry(key) ==
  LET e == <<at, key>>
      attrs == Resolved(e)
  IN  /\ key \in left
      /\ left' = left \ {key}
      /\ fresh' = Over(fresh, Only(key, Enriched(e, Strings(attrs))))
      /\ problems' = IF Unknown(e, attrs) # {} THEN problems \cup {e} ELSE problems
      /\ UNCHANGED <<input, answers, at, enriched, outcome>>

(* Mutant of CloseCategory: the data of the pre-pass stay what they are. *)
CloseCategoryUnsaved ==
  /\ at <= Categories /\ left = {}
  /\ enriched' = IF at = Categories THEN [enriched EXCEPT ![at] = fresh] ELSE enriched
  /\ at' = at + 1
  /\ left' = Keys(at + 1)
  /\ fresh' = <<>>
  /\ UNCHANGED <<input, answers, problems, outcome>>

(* The entries of a category go to enrichedData together, when all are done. *)
CloseCategory ==
  /\ at <= Categories /\ left = {}
  /\ enriched' = [enriched EXCEPT ![at] = fresh]
  /\ at' = at + 1
  /\ left' = Keys(at + 1)
  /\ fresh' = <<>>
  /\ UNCHANGED <<input, answers, problems, outcome>>

Warnings == {e \in Entries : "_warning" \in DOMAIN enriched[e[1]][e[2]]}

(* Run: structural errors end in an error, warnings do with fail_on_warning. *)
Return ==
  /\ at > Categories /\ outcome = "running"
  /\ outcome' = IF problems # {} THEN "invalid"
                ELSE IF input.strict /\ Warnings # {} THEN "warnings"
                ELSE "result"
  /\ UNCHANGED <<input, answers, at, left, enriched, fresh, problems>>

Next == (\E key \in left : EnrichEntry(key)) \/ CloseCategory \/ Return

Spec == Init /\ [][Next]_vars
-----------------------------------------------------------------------------
Result(e) == enriched[e[1]][e[2]]

(* What an attribute of the user's is in the result: a text stays; a        *)
(* reference to an earlier category is what the result itself says there,   *)
(* one to the same or a later category what the user gives there, and one   *)
(* to nothing stays a reference.                                            *)
Means(e, v) ==
  LET target == <<v[2], v[3]>>
      there == IF v[2] < e[1] THEN Result(target) ELSE Strings(input.attrs[target])
  IN  IF IsRef(v) /\ target \in Entries /\ v[4] \in DOMAIN there THEN there[v[4]] ELSE v

(* The result agrees with itself, in whichever order the entries have been  *)
(* done: each attribute that the user gives as a string is there, and means *)
(* what the result says of the attribute that it refers to, also through a  *)
(* chain of references; nothing that an API tells replaces it.  `_warning`  *)
(* is the function's own: a warning replaces what the user gives that name. *)
RefsMeetResult ==
  outcome = "result" =>
    \A e \in Entries : \A k \in DOMAIN Strings(input.attrs[e]) \ {"_warning"} :
      k \in DOMAIN Result(e) /\ Result(e)[k] = Means(e, input.attrs[e][k])

(* What an entry has from an API is of the object that its own attributes,  *)
(* as returned, name and filter out, and was asked for; and with fail_on_warning no entry  *)
(* is returned of which the API says that it is not there.                  *)
EnrichmentFits ==
  outcome = "result" =>
    \A e \in Entries :
      LET given == [k \in DOMAIN Strings(input.attrs[e]) |-> Result(e)[k]]
          schema == EntrySchema(e)
          named == IF HasPath(given) THEN {"id"} ELSE schema.path
          chosen == IF schema.filter \subseteq DOMAIN given THEN schema.filter ELSE {}
      IN  /\ \A k \in DOMAIN Result(e) \ (DOMAIN given \cup {"_warning"}) :
               /\ k \in Exported(e)
               /\ schema.api # "token_claims" =>
                    /\ Result(e)[k][2][3] = {<<n, given[n]>> : n \in named}
                    /\ Result(e)[k][2][4] = {<<n, given[n]>> : n \in chosen}
          /\ input.strict /\ Call(e, given) # NoCall => answers[e] # "failed"
-----------------------------------------------------------------------------
(* The inductive invariant behind these. *)

ShapeInv ==
  /\ input \in Inputs
  /\ at \in 1 .. Categories + 1
  /\ left \subseteq Keys(at)
  /\ DOMAIN enriched = 1 .. Categories
  /\ \A c \in 1 .. Categories : DOMAIN enriched[c] = Keys(c)
  /\ DOMAIN fresh = Keys(at) \ left

(* The attributes of an entry with what its references mean. *)
Meant(e) == Strings([k \in DOMAIN input.attrs[e] |-> Means(e, input.attrs[e][k])])

(* The entries of the categories before `at`, and those that are done of    *)
(* this one, are what their attributes mean; of the others there is what    *)
(* the user gives.                                                          *)
DataInv ==
  /\ \A e \in Entries :
       Result(e) = IF e[1] < at THEN Enriched(e, Meant(e)) ELSE Strings(input.attrs[e])
  /\ \A key \in DOMAIN fresh : fresh[key] = Enriched(<<at, key>>, Meant(<<at, key>>))

OutcomeInv == outcome = "result" => at > Categories /\ (input.strict => Warnings = {})

IInv == ShapeInv /\ DataInv /\ OutcomeInv
=============================================================================
