----------------------------- MODULE MCFunctions -----------------------------
(***************************************************************************)
(* Instance of the parts that compute: validate_externals, in steps, and   *)
(* three that are functions of their arguments, the requests, what the     *)
(* state keeps of a document, and the resolution of references.  Each      *)
(* behaviour is one of a single kind; a function gets a question, and its  *)
(* answer in one step.                                                     *)
(***************************************************************************)
EXTENDS ValidateExternals, TLC

CONSTANTS NotSet, Refused

VARIABLES kind, question, answer

Request == INSTANCE RequestOption WITH Null <- NotSet, Failed <- Refused

Json == INSTANCE JsonBody

Refs == INSTANCE References

Elements(seq) == {seq[i] : i \in DOMAIN seq}
-----------------------------------------------------------------------------
(* validate_externals: three categories, of which the second has two        *)
(* entries; references to a category before, to the same, to one after, to  *)
(* one another, and to nothing; a `_warning` of the user's; a registry      *)
(* schema and inline ones.                                                  *)

MCEntries == {<<1, "x">>, <<2, "x">>, <<2, "y">>, <<3, "x">>}

ByEntry(a, b, c, d) ==
  [e \in MCEntries |-> IF e[1] = 1 THEN a ELSE IF e = <<2, "x">> THEN b ELSE IF e[1] = 2 THEN c ELSE d]

OfApi(api, path, filter, attributes, any) ==
  [api |-> api, hasPath |-> path # {}, path |-> path, filter |-> filter, attributes |-> attributes, any |-> any]

Given == Text("given")

(* What begins with a slash. *)
GivenPath == Text("/given")

MCPaths == {GivenPath}

Named(v) == "name" :> v

GivenAttrs ==
  {ByEntry(a, b, c, d) :
     a \in {Named(Given), Named(Ref(2, "x", "oid")), Named(Ref(2, "x", "name")), "id" :> Given, "id" :> GivenPath},
     b \in {Named(Given), Named(Ref(1, "x", "name")), Named(Ref(1, "x", "oid")), Named(Ref(2, "y", "name"))},
     c \in {Named(NoString), Named(Ref(2, "x", "name"))},
     d \in {Named(Ref(2, "x", "oid")), Named(Ref(2, "z", "oid")), Named(Given) @@ "oid" :> Ref(1, "x", "oid"),
             Named(Given) @@ "_warning" :> Given}}

Registry == <<OfApi("arm", {"name"}, {}, {}, FALSE), NoSchema, NoSchema>>

Inline ==
  <<OfApi("github", {"name"}, {}, {}, TRUE), OfApi("graph", {"name"}, {"name"}, {"name", "oid"}, FALSE), NoSchema>>

OwnSchemas ==
  {Absent, NoSchema, OfApi("", {"name"}, {}, {}, TRUE), OfApi("token_claims", {}, {}, {"oid"}, FALSE)}

MCInputs ==
  {[attrs |-> attrs, export |-> ByEntry(export, {}, {}, {}), tenant |-> [e \in MCEntries |-> e[1] = 3 /\ strict],
    schema |-> ByEntry(Absent, Absent, Absent, own), registry |-> Registry, inline |-> Inline,
    tokens |-> {"arm", "graph"}, strict |-> strict] :
     attrs \in GivenAttrs, export \in {{}, {"oid"}, {"*"}}, own \in OwnSchemas, strict \in BOOLEAN}

MCAnswers ==
  {ByEntry(a, b, c, c) : a \in {"ok", "denied"}, b \in {"ok", "failed"}, c \in {"ok", "no match"}}
-----------------------------------------------------------------------------
(* Requests: a credential in the provider, the resource and the write-only  *)
(* header; texts with a parameter, the same one twice, two, one that is not *)
(* in the body, and one that is not a function; a body that quotes another  *)
(* parameter; an `id` that is an absolute path, a relative one, and a body  *)
(* of the call before.                                                      *)

Path == <<Request!Abs("things")>>

Id == Request!Param(<<>>, "id")

Name == Request!Param(<<"escape">>, "name")

Texts ==
  {<<Request!Lit("plain")>>, <<Id>>, <<Id, Id>>, <<Id, Name>>, <<Name, Request!Param(<<>>, "gone")>>,
   <<Request!Param(<<"trim_path">>, "id")>>, <<Name, Request!Param(<<"unheard_of">>, "id")>>}

Bodies ==
  LET Of(id) == "id" :> id @@ "name" :> <<Request!Lit("n")>>
  IN  {Request!NoBody, Of(<<Request!Abs("1")>>), Of(<<Request!Lit("1")>>), Of(<<Name>>)}

Provider ==
  [header |-> "auth" :> <<Request!Lit("provider")>>, query |-> <<>>,
   create_method |-> "POST", update_method |-> "PUT", delete_method |-> "DELETE"]

Own(method, header, query) == [method |-> method, header |-> header, query |-> query]

Poll(header) == [header |-> header, locators |-> {[in |-> "body", at |-> <<Id>>], [in |-> "code", at |-> <<>>]}]

Owns ==
  {Own(m, h, h) : m \in {NotSet, "POST"}, h \in {<<>>} \cup {"x" :> t : t \in Texts}}

(* The calls made with the configuration at hand, those made from the       *)
(* state, and those that have no write-only header.                         *)
ConfigCalls == {"create", "exists", "post create read", "read", "update", "operation"}

StateCalls == {"refresh", "delete", "later operation"}

PlainCalls == {"data source", "list"}

RequestQuestions ==
  [call : ConfigCalls \cup StateCalls \cup PlainCalls, own : Owns,
   header : {<<>>, "auth" :> <<Request!Lit("resource")>>}, ephemeral_header : {<<>>, "auth" :> <<Request!Lit("secret")>>},
   body : Bodies, pollHeader : {NotSet, <<>>, "auth" :> <<Request!Lit("poll")>>}]

(* The answer that a call expands its parameters from: the first calls have *)
(* none.                                                                    *)
LastAnswer(q) == IF q.call \in {"create", "exists", "operation"} \cup PlainCalls THEN Request!NoBody ELSE q.body

Option(q) ==
  LET config == [header |-> q.header, query |-> <<>>, ephemeral_header |-> q.ephemeral_header,
                 create |-> q.own, read |-> q.own, update |-> q.own, delete |-> q.own]
      d == IF q.call \in StateCalls THEN Request!InState(config) ELSE config
      body == LastAnswer(q)
  IN  CASE q.call = "create" -> Request!ForResourceCreate(Provider, d)
        [] q.call \in {"exists", "read", "refresh"} -> Request!ForResourceRead(Provider, d, body)
        [] q.call = "post create read" -> Request!ForResourcePostCreateRead(Provider, d, q.own, body)
        [] q.call = "update" -> Request!ForResourceUpdate(Provider, d, body)
        [] q.call = "delete" -> Request!ForResourceDelete(Provider, d, body)
        [] q.call \in Request!Operations -> Request!ForOperation(Provider, d, q.own, body)
        [] q.call = "data source" -> Request!ForDataSourceRead(Provider, d, "")
        [] q.call = "list" -> Request!ForListResourceRead(Provider, d, "GET")

(* The request, the polling after it, the check before it, and the ID that  *)
(* the text of its header would make.                                       *)
Asked(q) ==
  LET option == Option(q)
      text == IF DOMAIN q.own.header = {} THEN <<Id>> ELSE q.own.header["x"]
      check == Poll(q.pollHeader) @@ [path |-> NotSet, query |-> NotSet]
  IN  [request |-> Request!Send(q.call, option, q.body),
       poll |-> Request!ForPoll(option, Poll(q.pollHeader), q.body),
       check |-> Request!ForPrecheck(Path, option, check, q.body),
       text |-> text,
       id |-> Request!ExpandBodyOrPath(text, Path, q.body)]
-----------------------------------------------------------------------------
(* Documents of up to three levels, with missing keys, null, and arrays of  *)
(* different lengths; write-only attributes at two levels; output_attrs     *)
(* that go through objects and arrays, in both orders.                      *)

a == <<"a">>

b == <<"b", ".", "c">>

Leaves == {Json!Val("1"), Json!Val("null")}

Objects(S) == {Json!Obj(f) : f \in UNION {[D -> S] : D \in SUBSET {a, b}}}

Arrays(S) == {Json!Arr(s) : s \in UNION {[1 .. n -> S] : n \in 0 .. 2}}

Documents ==
  LET inner == {Json!Val("1"), Json!Val("null"), Json!Obj(<<>>), Json!Obj(a :> Json!Val("1")), Json!Obj(b :> Json!Val("2"))}
      arrays == Arrays({Json!Val("1"), Json!Obj(a :> Json!Val("1") @@ b :> Json!Val("2")), Json!Obj(a :> Json!Val("1"))})
  IN  Objects(inner) \cup {Json!Obj(a :> x) : x \in arrays} \cup arrays

Picks ==
  LET Pick(hidden, paths) == [hidden |-> hidden, paths |-> paths]
  IN  {Pick(<<>>, <<>>), Pick(<<<<a>>>>, <<<<Json!Key(a)>>, <<Json!Key(b)>>>>),
       Pick(<<<<a, a>>>>, <<<<Json!Key(b)>>, <<Json!Key(a), Json!Key(a)>>>>),
       Pick(<<<<a, a>>, <<a>>>>, <<<<Json!Key(a), Json!Splat, Json!Key(a)>>, <<Json!Key(a), Json!Splat, Json!Key(b)>>>>),
       Pick(<<<<b>>, <<a, b>>>>, <<<<Json!Splat, Json!Key(b)>>, <<Json!Splat, Json!Key(a)>>>>)}

DocumentQuestions == [base : Documents, remote : Documents, pick : Picks]

Kept(q) ==
  [body |-> Json!ModifyBody(q.base, q.remote, q.pick.hidden),
   imported |-> Json!ModifyBodyForImport(q.base, q.remote),
   output |-> Json!FilterAttrsInJSON(q.remote, [i \in DOMAIN q.pick.paths |-> Json!String(q.pick.paths[i])])]
-----------------------------------------------------------------------------
(* References: one entry with outputs that are known or not, as a whole, as *)
(* an entry, as an attribute or below; references with and without default, *)
(* in lists and in texts.  In the plan an argument may be unknown as a      *)
(* whole, with its type or without.                                         *)

Known(v) == Refs!Text(<<v>>)

Contents ==
  {Known("live"), Refs!Unknown("string"), Refs!Unknown("any"), Refs!Null("string"),
   Refs!Object("id" :> Known("live")), Refs!Object("id" :> Refs!Unknown("string"))}

Outputs ==
  LET Entry(v) == Refs!Object("rg" :> v)
  IN  {Refs!Unknown("any"), Entry(Refs!Unknown("any")), Entry(Refs!Object(<<>>))}
        \cup {Entry(Refs!Object("oid" :> v @@ "name" :> w)) : v \in Contents, w \in {Known("live"), Refs!Unknown("string")}}

Config ==
  Refs!Object("rg" :> Refs!Object("name" :> Known("given")))

Resources ==
  LET refs == {Refs!Ref(p, d) : p \in {<<"rg", "name">>, <<"rg", "oid">>, <<"rg", "oid", "id">>, <<"gone", "id">>},
                                d \in {Refs!NoDefault, <<"default">>}}
  IN  refs \cup {Refs!List(<<Known("first"), r>>) : r \in refs}
        \cup {Refs!Mixed(<<Known("text"), r, r>>) : r \in refs} \cup {Refs!Mixed(<<Known("text"), Refs!Open>>)}
        \cup {Refs!Null("any")}

Wholes == {Refs!Unknown("any"), Refs!Unknown("object")}

(* In the plan neither argument is unknown as a whole, or one of them is.   *)
ReferenceQuestions ==
  {q \in [planned : Outputs, applied : Outputs, value : Resources, whole : {<<>>}] :
     Refs!Foretells(q.planned, q.applied)}
    \cup [planned : {Refs!Unknown("any")}, applied : Outputs, value : Resources,
          whole : {argument :> v : argument \in {"context", "resources"}, v \in Wholes}]

(* The results of an apply, and of a plan, for which some arguments are     *)
(* unknown.                                                                 *)
ResolvedWith(q, outputs, unknown) ==
  LET given == [context |-> Refs!merge_with_outputs(Config, outputs),
                resources |-> IF Refs!IsNull(q.value) THEN q.value ELSE Refs!Object("sa" :> q.value)]
      arguments == unknown @@ given
  IN  [context |-> Refs!UnderlyingValue(arguments.context),
       map |-> Refs!resolve_map(arguments.context, arguments.resources),
       one |-> IF q.value[1] = "ref" THEN Refs!resolve(arguments.context, q.value) ELSE Refs!Failed]
-----------------------------------------------------------------------------
allVars == <<vars, kind, question, answer>>

MCInit ==
  /\ answer = <<>>
  /\ \/ /\ kind = "externals" /\ question = "" /\ Init
     \/ /\ \/ kind = "request" /\ question \in RequestQuestions
           \/ kind = "document" /\ question \in DocumentQuestions
           \/ kind = "reference" /\ question \in ReferenceQuestions
        /\ input = <<>> /\ answers = <<>> /\ at = 0 /\ left = {}
        /\ enriched = <<>> /\ fresh = <<>> /\ problems = {} /\ outcome = "none"

ExternalsStep == kind = "externals" /\ Next /\ UNCHANGED <<kind, question, answer>>

Ask(k, result) == kind = k /\ answer = <<>> /\ answer' = <<result>> /\ UNCHANGED <<vars, kind, question>>

RequestStep == Ask("request", Asked(question))

DocumentStep == Ask("document", Kept(question))

ReferenceStep ==
  Ask("reference", [planned |-> ResolvedWith(question, question.planned, question.whole),
                    applied |-> ResolvedWith(question, question.applied, <<>>)])

MCNext == ExternalsStep \/ RequestStep \/ DocumentStep \/ ReferenceStep

MCSpec == MCInit /\ [][MCNext]_allVars
-----------------------------------------------------------------------------
Told(k) == IF kind = k THEN Elements(answer) ELSE {}

Quiet(text) == \A i \in DOMAIN text : ~Request!IsParam(text[i])

(* The write-only entries of the header, a credential for instance, go with *)
(* each call that is made with the configuration at hand and with its       *)
(* polling and its checks, over those of the resource and the provider,     *)
(* unless the call or the polling has a header of its own; what is called   *)
(* from the state has the credential of the resource, else the provider's.  *)
(* A text is sent, and becomes an ID, as if its parameters were all         *)
(* replaced at once, or not at all when one of them cannot be.              *)
RequestFits ==
  \A r \in Told("request") :
    LET body == question.body
        call == question.call
        own == IF call \in PlainCalls THEN <<>> ELSE question.own.header
        secret == IF call \in ConfigCalls THEN question.ephemeral_header ELSE <<>>
        expected == (secret @@ question.header @@ Provider.header)["auth"]
        polls == call \notin PlainCalls /\ r.poll # Refused
        Of(default, path) ==
          [p \in Elements(r.text) |-> IF Request!IsParam(p) THEN Request!Value(p, default, path, body) ELSE Refused]
        broken(values) == \E p \in DOMAIN values : Request!IsParam(p) /\ values[p] = Refused
        quiet == \A p \in DOMAIN body : Quiet(body[p])
        raw == Of(<<>>, <<>>)
        escaped == Of(<<"escape">>, Path)
    IN  /\ own = <<>> =>
             /\ r.request # Refused => r.request.header["auth"] = expected
             /\ polls /\ question.pollHeader \in {NotSet, <<>>} => r.poll.header["auth"] = expected
             /\ r.check # Refused /\ question.pollHeader = NotSet => r.check.header["auth"] = expected
        /\ polls /\ question.pollHeader \notin {NotSet, <<>>} => r.poll.header = question.pollHeader
        /\ own # <<>> /\ LastAnswer(question) # Request!NoBody /\ r.request # Refused =>
             (quiet \/ broken(raw) => r.request.header["x"] = Request!AtOnce(r.text, LAMBDA p : raw[p]))
        /\ IF broken(escaped) THEN r.id = Refused
           ELSE quiet => r.id = Request!AtOnce(r.text, LAMBDA p : escaped[p])

(* What the state keeps of an answer: the body after a refresh differs from *)
(* that of the state if and only if the answer does not say what the state  *)
(* says, so that drift shows and what the API adds does not; what is        *)
(* imported shows no drift in the refresh after it; the output is what is   *)
(* at or below the paths of output_attrs, whatever their order.             *)
StateFitsAnswer ==
  \A r \in Told("document") :
    LET paths == Elements(question.pick.paths)
        remote == question.remote
    IN  /\ r.body # Json!Failed =>
             (r.body = question.base <=> Json!Says(remote, question.base, Elements(question.pick.hidden)))
        /\ r.imported # Json!Failed => Json!ModifyBody(r.imported, remote, <<>>) = r.imported
        /\ r.output = IF paths = {} THEN remote
                      ELSE IF \A p \in paths : Json!Reaches(p, remote) THEN Json!Selected(remote, paths)
                      ELSE Json!Failed

(* What a function says in the plan it says in the apply, but for what the  *)
(* plan says is unknown: a default is taken in both or in neither.  Outputs *)
(* must be known down to the names of their attributes, nothing unknown be  *)
(* put into a text, and no argument unknown as a whole without its type.    *)
PlanForetells ==
  \A r \in Told("reference") :
    LET Names(outputs) == [k \in {"rg"} |-> DOMAIN Refs!Fields((Refs!Fields(outputs) @@ "rg" :> Refs!Object(<<>>))["rg"])]
        typed == \A argument \in DOMAIN question.whole : question.whole[argument] # Refs!Unknown("any")
        named == "context" \in DOMAIN question.whole \/ Names(question.planned) = Names(question.applied)
        intoText ==
          question.value[1] = "mixed" /\
          \E i \in DOMAIN question.value[2] :
            question.value[2][i][1] = "ref" /\
            Refs!IsUnknown(Refs!resolveSingleRef(r.planned.context, question.value[2][i]))
        Agree(planned, applied) ==
          planned # Refs!Failed /\ applied # Refs!Failed => Refs!Foretells(planned, applied)
    IN  typed /\ named /\ ~intoText => Agree(r.planned.map, r.applied.map) /\ Agree(r.planned.one, r.applied.one)
=============================================================================
