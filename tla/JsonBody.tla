------------------------------ MODULE JsonBody ------------------------------
(***************************************************************************)
(* What the state keeps of the JSON document that the API answers          *)
(* (internal/provider/body.go): ModifyBody and ModifyBodyForImport for the *)
(* body, FilterAttrsInJSON for the output, with the paths of               *)
(* internal/attrpath.                                                      *)
(*                                                                         *)
(* A document is an object, an array, or a value, null included.  The keys *)
(* of objects and the paths that the user writes are sequences of tokens,  *)
(* as the scanner of attrpath gives them.                                  *)
(***************************************************************************)
EXTENDS Sequences, Integers, TLC

LOCAL INSTANCE SequencesExt

Obj(fields) == <<"obj", fields>>

Arr(elements) == <<"arr", elements>>

Val(v) == <<"val", v>>

IsVal(doc) == doc[1] = "val"

Failed == <<"failed", "">>

(* A path is a sequence of steps, to a key or to all elements of an array. *)
Key(tokens) == <<"key", tokens>>

Splat == <<"splat", <<>>>>
-----------------------------------------------------------------------------
(* The body of the state.                                                   *)

(* Mutant of getUpdatedJSON: of an array that has become longer the old     *)
(* elements are kept.                                                       *)
RECURSIVE getUpdatedJSONPrefix(_, _)
getUpdatedJSONPrefix(old, new) ==
  IF IsVal(old) \/ old[1] # new[1] THEN new
  ELSE IF old[1] = "obj"
    THEN Obj([k \in DOMAIN old[2] \cap DOMAIN new[2] |-> getUpdatedJSONPrefix(old[2][k], new[2][k])])
  ELSE IF Len(old[2]) > Len(new[2]) THEN new
  ELSE Arr([i \in DOMAIN old[2] |-> getUpdatedJSONPrefix(old[2][i], new[2][i])])

(* What is in both objects, at every level; else the new document. *)
RECURSIVE getUpdatedJSON(_, _)
getUpdatedJSON(old, new) ==
  IF IsVal(old) \/ old[1] # new[1] THEN new
  ELSE IF old[1] = "obj"
    THEN Obj([k \in DOMAIN old[2] \cap DOMAIN new[2] |-> getUpdatedJSON(old[2][k], new[2][k])])
  ELSE IF Len(old[2]) # Len(new[2]) THEN new
  ELSE Arr([i \in DOMAIN new[2] |-> getUpdatedJSON(old[2][i], new[2][i])])

(* gjson.Get and sjson.Set at a path of keys.  Set makes the objects on the *)
(* way, also in the place of a value, and fails at an array.                *)
RECURSIVE Exists(_, _)
Exists(doc, path) ==
  \/ path = <<>>
  \/ doc[1] = "obj" /\ Head(path) \in DOMAIN doc[2] /\ Exists(doc[2][Head(path)], Tail(path))

RECURSIVE Get(_, _)
Get(doc, path) == IF path = <<>> THEN doc ELSE Get(doc[2][Head(path)], Tail(path))

RECURSIVE Set(_, _, _)
Set(doc, path, v) ==
  LET fields == IF doc[1] = "obj" THEN doc[2] ELSE <<>>
      key == Head(path)
      inner == Set(IF key \in DOMAIN fields THEN fields[key] ELSE Val("null"), Tail(path), v)
  IN  IF path = <<>> THEN v
      ELSE IF doc[1] = "arr" \/ inner = Failed THEN Failed
      ELSE Obj((key :> inner) @@ fields)

(* The attributes compensateBaseAttrs, write-only ones, come from the base  *)
(* when the API does not answer them.                                       *)
ModifyBody(base, body, compensateBaseAttrs) ==
  LET Compensate(result, path) ==
        IF result # Failed /\ Exists(base, path) /\ ~Exists(body, path)
          THEN Set(result, path, Get(base, path))
          ELSE result
  IN  FoldLeft(Compensate, getUpdatedJSON(base, body), compensateBaseAttrs)

(* On import the base is a pattern, with one element for those of an array. *)
RECURSIVE getUpdatedJSONForImport(_, _)
getUpdatedJSONForImport(old, new) ==
  LET fields ==
        [k \in DOMAIN old[2] \cap DOMAIN new[2] |-> getUpdatedJSONForImport(old[2][k], new[2][k])]
      elements == [i \in DOMAIN new[2] |-> getUpdatedJSONForImport(old[2][1], new[2][i])]
  IN  IF IsVal(old) \/ old[1] # new[1] THEN new
      ELSE IF old[1] = "obj"
        THEN IF \E k \in DOMAIN fields : fields[k] = Failed THEN Failed ELSE Obj(fields)
      ELSE IF Len(old[2]) = 0 THEN new
      ELSE IF Len(old[2]) > 1 \/ \E i \in DOMAIN elements : elements[i] = Failed THEN Failed
      ELSE Arr(elements)

NoBase == <<>>

ModifyBodyForImport(base, body) == IF base = NoBase THEN body ELSE getUpdatedJSONForImport(base, body)
-----------------------------------------------------------------------------
(* The output of the state.                                                 *)

(* Path: steps end at a dot; a "#" alone is a splat, one that is escaped or *)
(* next to other text is a part of a key.                                   *)
Path(input) ==
  LET Next(i) == IF i < Len(input) THEN input[i + 1] ELSE "end"
      Take(s, i) ==
        CASE s.skip -> [s EXCEPT !.skip = FALSE]
          [] s.escape -> [s EXCEPT !.escape = FALSE, !.value = Append(@, input[i])]
          [] input[i] = "\\" -> [s EXCEPT !.escape = TRUE]
          [] input[i] = "." ->
               [s EXCEPT !.path = Append(@, Key(s.value)), !.value = <<>>, !.bad = @ \/ Next(i) = "."]
          [] input[i] = "#" /\ s.value = <<>> /\ Next(i) \in {".", "end"} ->
               [s EXCEPT !.path = Append(@, Splat), !.skip = TRUE]
          [] OTHER -> [s EXCEPT !.value = Append(@, input[i])]
      start == [path |-> <<>>, value |-> <<>>, escape |-> FALSE, skip |-> FALSE, bad |-> FALSE]
      end == FoldLeft(LAMBDA s, i : IF s.bad THEN s ELSE Take(s, i), start, [i \in DOMAIN input |-> i])
  IN  IF end.bad THEN Failed
      ELSE IF end.value # <<>> THEN Append(end.path, Key(end.value))
      ELSE end.path

(* AttrPath.String *)
String(path) ==
  LET Escaped(token) == IF token \in {".", "#", "\\"} THEN <<"\\", token>> ELSE <<token>>
      Of(step) == IF step = Splat THEN <<"#">> ELSE FlattenSeq([i \in DOMAIN step[2] |-> Escaped(step[2][i])])
      Join(text, step) == IF text = <<>> THEN Of(step) ELSE text \o <<".">> \o Of(step)
  IN  FoldLeft(Join, <<>>, path)

(* The document with this path alone; the key may be missing, but what is   *)
(* on the way is an object for a key and an array for a splat.              *)
RECURSIVE filterAttrInJSON(_, _)
filterAttrInJSON(doc, path) ==
  LET step == Head(path)
      elements == [i \in DOMAIN doc[2] |-> filterAttrInJSON(doc[2][i], Tail(path))]
      inner == filterAttrInJSON(doc[2][step[2]], Tail(path))
  IN  IF path = <<>> THEN doc
      ELSE IF doc[1] = "arr" /\ step = Splat
        THEN IF \E i \in DOMAIN elements : elements[i] = Failed THEN Failed ELSE Arr(elements)
      ELSE IF doc[1] = "obj" /\ step # Splat
        THEN IF step[2] \notin DOMAIN doc[2] THEN Obj(<<>>)
             ELSE IF inner = Failed THEN Failed
             ELSE Obj(step[2] :> inner)
      ELSE Failed

(* mergeObject and mergeArray; values must agree. *)
RECURSIVE Merge(_, _)
Merge(d1, d2) ==
  LET Field(k) ==
        IF k \notin DOMAIN d2[2] THEN d1[2][k]
        ELSE IF k \notin DOMAIN d1[2] THEN d2[2][k]
        ELSE Merge(d1[2][k], d2[2][k])
      Merged(f) == IF \E k \in DOMAIN f : f[k] = Failed THEN Failed ELSE <<d1[1], f>>
  IN  IF d1[1] # d2[1] \/ IsVal(d1) THEN IF d1 = d2 THEN d1 ELSE Failed
      ELSE IF d1[1] = "obj" THEN Merged([k \in DOMAIN d1[2] \cup DOMAIN d2[2] |-> Field(k)])
      ELSE IF Len(d1[2]) # Len(d2[2]) THEN Failed
      ELSE Merged([i \in DOMAIN d1[2] |-> Merge(d1[2][i], d2[2][i])])

(* attrs is a set in the configuration: its order is not the user's.        *)
FilterAttrsInJSON(doc, attrs) ==
  LET paths == [i \in DOMAIN attrs |-> Path(attrs[i])]
      docs == [i \in DOMAIN attrs |-> filterAttrInJSON(doc, paths[i])]
      Add(odoc, d) ==
        IF odoc = Failed \/ d = Failed \/ IsVal(odoc) THEN Failed ELSE Merge(odoc, d)
  IN  IF attrs = <<>> THEN doc
      ELSE IF \E i \in DOMAIN attrs : paths[i] = Failed THEN Failed
      ELSE FoldLeft(Add, Head(docs), Tail(docs))
-----------------------------------------------------------------------------
(* Reference definitions, on whole documents.                               *)

Below(paths, step) == {Tail(p) : p \in {q \in paths : q # <<>> /\ Head(q) = step}}

(* All that the document says is at or below the paths. *)
RECURSIVE Covered(_, _)
Covered(doc, paths) ==
  \/ <<>> \in paths
  \/ doc[1] = "obj" /\ DOMAIN doc[2] # {} /\ \A k \in DOMAIN doc[2] : Covered(doc[2][k], Below(paths, k))

(* The remote document says all that the base says, and more only in        *)
(* objects; of what is hidden it may say nothing.                           *)
RECURSIVE Says(_, _, _)
Says(remote, base, hidden) ==
  \/ remote = base
  \/ base[1] = "obj" /\ IsVal(remote) /\ Covered(base, hidden \ {<<>>})
  \/ /\ base[1] = "obj" /\ remote[1] = "obj"
     /\ \A k \in DOMAIN base[2] :
          IF k \in DOMAIN remote[2]
            THEN Says(remote[2][k], base[2][k], Below(hidden, k))
            ELSE Covered(base[2][k], Below(hidden, k))
  \/ /\ base[1] = "arr" /\ remote[1] = "arr" /\ Len(base[2]) = Len(remote[2])
     /\ \A i \in DOMAIN base[2] : Says(remote[2][i], base[2][i], {})

(* What is at or below the paths. *)
RECURSIVE Selected(_, _)
Selected(doc, paths) ==
  IF <<>> \in paths THEN doc
  ELSE IF doc[1] = "obj"
    THEN Obj([k \in {n \in DOMAIN doc[2] : Below(paths, Key(n)) # {}} |-> Selected(doc[2][k], Below(paths, Key(k)))])
  ELSE Arr([i \in DOMAIN doc[2] |-> Selected(doc[2][i], Below(paths, Splat))])

RECURSIVE Reaches(_, _)
Reaches(path, doc) ==
  \/ path = <<>>
  \/ doc[1] = "obj" /\ Head(path) # Splat
       /\ (Head(path)[2] \in DOMAIN doc[2] => Reaches(Tail(path), doc[2][Head(path)[2]]))
  \/ doc[1] = "arr" /\ Head(path) = Splat /\ \A i \in DOMAIN doc[2] : Reaches(Tail(path), doc[2][i])
=============================================================================
