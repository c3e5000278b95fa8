---------------------------- MODULE RequestOption ----------------------------
(***************************************************************************)
(* The requests that the provider builds from the layers of its            *)
(* configuration (internal/provider/api_option.go, value_locator.go), with *)
(* the parameters that are expanded from the last answer                   *)
(* (internal/exparam), and what the client makes of them                   *)
(* (internal/client/client.go).                                            *)
(*                                                                         *)
(* A text is a sequence of pieces: literals, and parameters such as        *)
(* $escape(body.id).  Headers and queries are functions from names to      *)
(* texts; null, unknown and empty ones have no elements.                   *)
(***************************************************************************)
EXTENDS Sequences, Integers, TLC

LOCAL INSTANCE SequencesExt

CONSTANTS
  Null,     \* what is not configured
  Failed    \* an error

Lit(s) == <<"literal", s>>

(* A literal that is an absolute path. *)
Abs(s) == <<"absolute", s>>

Escaped(piece) == <<"escaped", piece>>

Param(functions, property) == <<"param", functions, property>>

IsParam(piece) == Len(piece) = 3

(* The empty body, and the property of the path. *)
NoBody == <<>>

PathProperty == "path"
-----------------------------------------------------------------------------
(* exparam                                                                  *)

Absolute(text) == text # <<>> /\ text[1][1] = "absolute"

(* A function applied to a text.  trim_path is filepath.Rel, which knows no *)
(* way between a relative and an absolute path.  The path is the empty one  *)
(* that ExpandBody gives, or that of an endpoint, a prefix of the text.     *)
Apply(f, text, path) ==
  CASE f = "escape" -> [i \in DOMAIN text |-> Escaped(text[i])]
    [] f = "trim_path" /\ Absolute(text) # Absolute(path) -> Failed
    [] f = "trim_path" /\ Absolute(text) -> <<Lit(text[1][2])>> \o Tail(text)
    [] f = "trim_path" /\ ~Absolute(text) -> text
    [] OTHER -> Failed    \* there is no such function

(* The value of a parameter; body is a function from properties to texts.   *)
Value(param, default, path, body) ==
  LET functions == IF param[2] = <<>> THEN default ELSE param[2]
      Step(text, f) == IF text = Failed THEN Failed ELSE Apply(f, text, path)
  IN  IF param[3] \in DOMAIN body THEN FoldLeft(Step, body[param[3]], functions) ELSE Failed

(* strings.ReplaceAll *)
ReplaceEach(text, piece, by) == FlattenSeq([i \in DOMAIN text |-> IF text[i] = piece THEN by ELSE <<text[i]>>])

(* One parameter of the text after the other, in what the former have made  *)
(* of the text.                                                             *)
Expand(text, ValueOf(_)) ==
  LET Step(out, param) ==
        IF out = Failed \/ ValueOf(param) = Failed THEN Failed ELSE ReplaceEach(out, param, ValueOf(param))
  IN  FoldLeft(Step, text, SelectSeq(text, IsParam))

ExpandBody(text, body) ==
  IF body = NoBody THEN text ELSE Expand(text, LAMBDA p : Value(p, <<>>, <<>>, body))

(* With $(path), and with "escape" where no function is given. *)
ExpandBodyOrPath(text, path, body) ==
  Expand(text, LAMBDA p : IF p[3] = PathProperty THEN path ELSE Value(p, <<"escape">>, path, body))
-----------------------------------------------------------------------------
(* Query and Header of the client.                                          *)

TakeOrSelf(self, v) == IF DOMAIN v = {} THEN self ELSE v

MergeOrSelf(self, v) == v @@ self

(* What does not expand is taken as it is written. *)
TakeWithExparamOrSelf(self, v, body) ==
  LET Expanded(text) == IF ExpandBody(text, body) = Failed THEN text ELSE ExpandBody(text, body)
  IN  IF DOMAIN v = {} THEN self ELSE [k \in DOMAIN v |-> Expanded(v[k])]

(* The value in the resource, else the provider's. *)
Or(v, default) == IF v = Null THEN default ELSE v

Query(opt, d) == TakeOrSelf(opt.query, d.query)

Header(opt, d) == TakeOrSelf(opt.header, d.header)

(* Mutant of SecretHeader: the write-only entries come before the header. *)
SecretHeaderEarly(opt, d) == TakeOrSelf(MergeOrSelf(opt.header, d.ephemeral_header), d.header)

(* The header with the write-only entries of this apply. *)
SecretHeader(opt, d) == MergeOrSelf(Header(opt, d), d.ephemeral_header)

(* Write-only attributes are null in the state: what is built from it (the  *)
(* refresh, the deletion, the later calls of an operation and of an         *)
(* ephemeral resource) has none.  A call that has the configuration at hand *)
(* copies them from there.                                                  *)
InState(d) == [d EXCEPT !.ephemeral_header = <<>>]

(* What the calls of a resource have in common; `own` are the query and     *)
(* header of the one call.                                                  *)
Expanded(opt, d, own, method, body) ==
  [method |-> method,
   query |-> TakeWithExparamOrSelf(Query(opt, d), own.query, body),
   header |-> TakeWithExparamOrSelf(SecretHeader(opt, d), own.header, body)]

ForResourceCreate(opt, d) ==
  [method |-> Or(d.create.method, opt.create_method),
   query |-> TakeOrSelf(Query(opt, d), d.create.query),
   header |-> TakeOrSelf(SecretHeader(opt, d), d.create.header)]

ForResourceRead(opt, d, body) == Expanded(opt, d, d.read, "GET", body)

ForResourcePostCreateRead(opt, d, pr, body) == Expanded(opt, d, pr, "GET", body)

ForResourceUpdate(opt, d, body) == Expanded(opt, d, d.update, Or(d.update.method, opt.update_method), body)

ForResourceDelete(opt, d, body) == Expanded(opt, d, d.delete, Or(d.delete.method, opt.delete_method), body)

ForOperation(opt, d, own, body) == Expanded(opt, d, own, own.method, body)

ForDataSourceRead(opt, d, method) == [method |-> method, query |-> Query(opt, d), header |-> Header(opt, d)]

ForListResourceRead(opt, d, method) == ForDataSourceRead(opt, d, method)

(* expandValueLocator: of a locator the place in the answer is expanded.    *)
expandValueLocator(locator, body) ==
  IF locator.in \in {"code", "exact"} THEN locator
  ELSE [locator EXCEPT !.at = ExpandBody(@, body)]

(* The polling asks with the query of the request that it belongs to, and   *)
(* with its header, which poll.header replaces as a whole.                  *)
ForPoll(request, poll, body) ==
  LET locators == {expandValueLocator(l, body) : l \in poll.locators}
  IN  IF \E l \in locators : l.at = Failed THEN Failed
      ELSE [method |-> "GET", query |-> request.query,
            header |-> IF poll.header = Null THEN request.header ELSE TakeOrSelf(request.header, poll.header)]

(* A header or query of the check replaces the default, an empty one too.   *)
ForPrecheck(path, request, check, body) ==
  LET locators == {expandValueLocator(l, body) : l \in check.locators}
  IN  IF \E l \in locators : l.at = Failed THEN Failed
      ELSE [method |-> "GET", path |-> Or(check.path, path),
            query |-> Or(check.query, request.query), header |-> Or(check.header, request.header)]
-----------------------------------------------------------------------------
(* The client's calls: the methods that each knows, "" being GET.  A read    *)
(* is that of the state, that at the end of a creation or an update, the    *)
(* check before a creation and the one after it; an operation has one at    *)
(* its end as well, and an ephemeral resource several.                      *)
Reads == {"refresh", "read", "exists", "post create read"}

Operations == {"operation", "later operation"}

Methods(call) ==
  CASE call \in {"create", "update"} -> {"POST", "PUT", "PATCH"}
    [] call \in Reads -> {"GET"}
    [] call = "delete" -> {"POST", "PATCH", "PUT", "DELETE"}
    [] call \in Operations -> {"GET", "POST", "PUT", "PATCH", "DELETE"}
    [] call \in {"data source", "list"} -> {"", "GET", "POST", "HEAD"}

(* Whether the call has a body, and so a Content-Type: Operation sets that  *)
(* for every method, a read of a data source or a list only for POST.       *)
Typed(call, method, body) ==
  \/ call \in {"create", "update"} \cup Operations
  \/ call = "delete" /\ body # NoBody
  \/ call \in {"data source", "list"} /\ method = "POST" /\ body # NoBody

Send(call, option, body) ==
  LET json == "content-type" :> <<Lit("application/json")>>
      typed == Typed(call, option.method, body)
  IN  IF option.method \notin Methods(call) THEN Failed
      ELSE [option EXCEPT !.header = IF typed THEN @ @@ json ELSE @] @@ [body |-> IF typed THEN body ELSE NoBody]
-----------------------------------------------------------------------------
(* Reference: all parameters replaced at once; the text itself when one of  *)
(* them cannot be.                                                          *)
AtOnce(text, ValueOf(_)) ==
  LET params == {text[i] : i \in {j \in DOMAIN text : IsParam(text[j])}}
  IN  IF \E p \in params : ValueOf(p) = Failed THEN text
      ELSE FlattenSeq([i \in DOMAIN text |-> IF IsParam(text[i]) THEN ValueOf(text[i]) ELSE <<text[i]>>])
=============================================================================
