-------------------------- MODULE RestBasicProofs --------------------------
(***************************************************************************)
(* Proofs that the Basic REST handlers implement the abstract map RestMap *)
(* (its safety part), for every set of keys, values and requests.          *)
(***************************************************************************)
EXTENDS RestBasic, TLAPS

(* A request past Enter: not a PATCH, a POST with no key in the URL, and  *)
(* any other verb holding the key its URL names.                          *)
Ready(r) ==
    /\ req[r].verb # "PATCH"
    /\ req[r].verb = "POST" => req[r].path_args = <<>>
    /\ req[r].verb # "POST" => /\ url_key[r] = Map!UrlKey(req[r])
                               /\ url_key[r] # Nothing

(* What the phase of request r tells about it.  The last conjunct is the  *)
(* one PUT needs: between its Exists read and its Add it holds the         *)
(* transaction, and what it read is still the field.                       *)
ReqInv(r) ==
    /\ phase[r] # "done" => resp[r] = Nothing
    /\ phase[r] # "enter" => req[r] # Nothing
    /\ phase[r] \in {"body", "run", "put"} => Ready(r)
    /\ phase[r] = "body" => req[r].verb \in {"POST", "PUT"}
    /\ phase[r] \in {"run", "put"} /\ req[r].verb \in {"POST", "PUT"} =>
           req[r].body # BadJSON
    /\ phase[r] = "put" => /\ req[r].verb = "PUT"
                           /\ req[r].body.key = url_key[r]
                           /\ txn = r
                           /\ exists[r] = (field[url_key[r]] # Nothing)

(* The inductive invariant: every request is where its phase says, with   *)
(* the key, body and answer that phase implies, and a PUT between its      *)
(* Exists read and its Add (basic.h 113-114) holds the one transaction     *)
(* while the field still holds what it read.                               *)
IInv == TypeOK /\ \A r \in Reqs : ReqInv(r)

LEMMA InitIInv == Init => IInv
<1> SUFFICES ASSUME Init PROVE IInv
  OBVIOUS
<1>1. field \in [Keys -> Vals \cup {Nothing}]
  BY DEF Init
<1>2. req \in [Reqs -> Map!Requests \cup {Nothing}]
  BY DEF Init
<1>3. resp \in [Reqs -> Map!Responses \cup {Nothing}]
  BY DEF Init
<1>4. TypeOK
  BY <1>1, <1>2, <1>3 DEF Init, TypeOK, Phases
<1>5. \A r \in Reqs : ReqInv(r)
  BY DEF Init, ReqInv
<1> QED
  BY <1>4, <1>5 DEF IInv

(* The state functions of RestMap under the refinement mapping. *)
MapVars == <<field, req, resp>>

(* A response Respond may give has the type of a RestMap answer. *)
LEMMA RespondType ==
    ASSUME TypeOK, NEW r \in Reqs, NEW code \in {200, 201, 400, 404, 405},
           NEW text \in Vals \cup Map!Texts, Respond(r, code, text)
    PROVE  /\ resp' \in [Reqs -> Map!Responses \cup {Nothing}]
           /\ phase' \in [Reqs -> Phases]
  BY DEF Respond, TypeOK, Phases, Map!Response, Map!Responses

(* A step that leaves the client-visible state alone. *)
LEMMA Stutter ==
    ASSUME UNCHANGED <<field, req, resp>>
    PROVE  [Map!Next]_MapVars
  BY DEF MapVars

LEMMA ArriveStep ==
    ASSUME IInv, NEW r \in Reqs, Arrive(r)
    PROVE  IInv' /\ [Map!Next]_MapVars
<1>1. TypeOK'
  BY DEF IInv, TypeOK, Arrive
<1>2. \A s \in Reqs : ReqInv(s)'
  BY DEF IInv, TypeOK, Arrive, ReqInv, Ready
<1>3. Map!Ask(r)
  BY DEF Arrive, Map!Ask
<1> QED
  BY <1>1, <1>2, <1>3 DEF IInv, MapVars, Map!Next
-----------------------------------------------------------------------------
(* What RestMap answers, case by case, and what it does to the map. *)
LEMMA AnswerNeedKey ==
    ASSUME NEW q, NEW m, q.verb \in {"GET", "PUT", "DELETE"},
           Map!UrlKey(q) = Nothing
    PROVE  /\ Map!Answer(q, m) = Map!Response(400, "NeedResourceKey")
           /\ Map!Effect(q, m) = m
<1>1. Map!Answer(q, m) = Map!Response(400, "NeedResourceKey")
  BY DEF Map!Answer
<1>2. Map!Answer(q, m).code \notin {200, 201}
  BY <1>1 DEF Map!Response
<1> QED
  BY <1>1, <1>2 DEF Map!Effect

LEMMA AnswerKeyInURL ==
    ASSUME NEW q, NEW m, q.verb = "POST", q.path_args # <<>>
    PROVE  /\ Map!Answer(q, m) = Map!Response(400, "ShouldNotHaveResourceKey")
           /\ Map!Effect(q, m) = m
<1>1. Map!Answer(q, m) = Map!Response(400, "ShouldNotHaveResourceKey")
  BY DEF Map!Answer
<1>2. Map!Answer(q, m).code \notin {200, 201}
  BY <1>1 DEF Map!Response
<1> QED
  BY <1>1, <1>2 DEF Map!Effect

LEMMA AnswerNotAllowed ==
    ASSUME NEW q, NEW m, q.verb = "PATCH"
    PROVE  /\ Map!Answer(q, m) = Map!Response(405, "MethodNotAllowed")
           /\ Map!Effect(q, m) = m
<1>1. Map!Answer(q, m) = Map!Response(405, "MethodNotAllowed")
  BY DEF Map!Answer
<1>2. Map!Answer(q, m).code \notin {200, 201}
  BY <1>1 DEF Map!Response
<1> QED
  BY <1>1, <1>2 DEF Map!Effect

LEMMA AnswerBadJson ==
    ASSUME NEW q, NEW m, q.verb \in {"POST", "PUT"}, q.body = BadJSON,
           q.verb = "POST" => q.path_args = <<>>,
           q.verb = "PUT" => Map!UrlKey(q) # Nothing
    PROVE  /\ Map!Answer(q, m) = Map!Response(400, "BadJson")
           /\ Map!Effect(q, m) = m
<1>1. Map!Answer(q, m) = Map!Response(400, "BadJson")
  BY DEF Map!Answer
<1>2. Map!Answer(q, m).code \notin {200, 201}
  BY <1>1 DEF Map!Response
<1> QED
  BY <1>1, <1>2 DEF Map!Effect

LEMMA AnswerGet ==
    ASSUME NEW q, NEW m, q.verb = "GET", Map!UrlKey(q) # Nothing
    PROVE  /\ Map!Answer(q, m) =
                  IF m[Map!UrlKey(q)] = Nothing THEN Map!Response(404, "Nope")
                  ELSE Map!Response(200, m[Map!UrlKey(q)])
           /\ Map!Effect(q, m) = m
<1>1. Map!Answer(q, m) =
          IF m[Map!UrlKey(q)] = Nothing THEN Map!Response(404, "Nope")
          ELSE Map!Response(200, m[Map!UrlKey(q)])
  BY DEF Map!Answer
<1> QED
  BY <1>1 DEF Map!Effect

LEMMA AnswerPost ==
    ASSUME NEW q, NEW m, q.verb = "POST", q.path_args = <<>>, q.body # BadJSON
    PROVE  /\ Map!Answer(q, m) = Map!Response(201, "Created")
           /\ Map!Effect(q, m) = [m EXCEPT ![q.body.key] = q.body.val]
<1>1. Map!Answer(q, m) = Map!Response(201, "Created")
  BY DEF Map!Answer
<1>2. Map!Answer(q, m).code \in {200, 201}
  BY <1>1 DEF Map!Response
<1> QED
  BY <1>1, <1>2 DEF Map!Effect

LEMMA AnswerDelete ==
    ASSUME NEW q, NEW m, q.verb = "DELETE", Map!UrlKey(q) # Nothing
    PROVE  /\ Map!Answer(q, m) = Map!Response(200, "Deleted")
           /\ Map!Effect(q, m) = [m EXCEPT ![Map!UrlKey(q)] = Nothing]
<1>1. Map!Answer(q, m) = Map!Response(200, "Deleted")
  BY DEF Map!Answer
<1>2. Map!Answer(q, m).code \in {200, 201}
  BY <1>1 DEF Map!Response
<1> QED
  BY <1>1, <1>2 DEF Map!Effect

LEMMA AnswerPutMismatch ==
    ASSUME NEW q, NEW m, q.verb = "PUT", Map!UrlKey(q) # Nothing,
           q.body # BadJSON, q.body.key # Map!UrlKey(q)
    PROVE  /\ Map!Answer(q, m) = Map!Response(400, "KeyMismatch")
           /\ Map!Effect(q, m) = m
<1>1. Map!Answer(q, m) = Map!Response(400, "KeyMismatch")
  BY DEF Map!Answer
<1>2. Map!Answer(q, m).code \notin {200, 201}
  BY <1>1 DEF Map!Response
<1> QED
  BY <1>1, <1>2 DEF Map!Effect

LEMMA AnswerPut ==
    ASSUME NEW q, NEW m, q.verb = "PUT", Map!UrlKey(q) # Nothing,
           q.body # BadJSON, q.body.key = Map!UrlKey(q)
    PROVE  /\ Map!Answer(q, m) =
                  IF m[Map!UrlKey(q)] = Nothing THEN Map!Response(201, "Created")
                  ELSE Map!Response(200, "Updated")
           /\ Map!Effect(q, m) = [m EXCEPT ![q.body.key] = q.body.val]
<1>1. Map!Answer(q, m) =
          IF m[Map!UrlKey(q)] = Nothing THEN Map!Response(201, "Created")
          ELSE Map!Response(200, "Updated")
  BY DEF Map!Answer
<1>2. Map!Answer(q, m).code \in {200, 201}
  BY <1>1 DEF Map!Response
<1> QED
  BY <1>1, <1>2 DEF Map!Effect

(* The request r is served now: RestMap's Serve with the answer a. *)
ServedAs(r, a) ==
    /\ resp' = [resp EXCEPT ![r] = a]
    /\ field' = Map!Effect(req[r], field)
    /\ a = Map!Answer(req[r], field)
    /\ req' = req

LEMMA ServeStep ==
    ASSUME IInv, NEW r \in Reqs, phase[r] # "done", phase[r] # "enter" \/ req[r] # Nothing,
           NEW a, ServedAs(r, a)
    PROVE  [Map!Next]_MapVars
<1>1. Map!Serve(r)
  BY DEF IInv, ReqInv, ServedAs, Map!Serve
<1> QED
  BY <1>1 DEF Map!Next

(* The codes and texts of the handlers' answers. *)
Codes == {200, 201, 400, 404, 405}

(* A step that answers request r, as RestMap would, and touches the field *)
(* and the transaction slot only in ways a request inside its Exists-Add  *)
(* window cannot see.                                                      *)
LEMMA RespondStep ==
    ASSUME IInv, NEW r \in Reqs, NEW code \in Codes, NEW text \in Vals \cup Map!Texts,
           Respond(r, code, text),
           phase[r] # "done", req[r] # Nothing,
           UNCHANGED <<req, url_key, exists>>,
           field' \in [Keys -> Vals \cup {Nothing}],
           txn' \in Reqs \cup {Nothing},
           \A s \in Reqs \ {r} : phase[s] = "put" =>
               txn' = s /\ field'[url_key[s]] = field[url_key[s]],
           Map!Answer(req[r], field) = Map!Response(code, text),
           field' = Map!Effect(req[r], field)
    PROVE  IInv' /\ [Map!Next]_MapVars
<1>0. TypeOK
  BY DEF IInv
<1>1. TypeOK'
  <2>1. /\ resp' \in [Reqs -> Map!Responses \cup {Nothing}]
        /\ phase' \in [Reqs -> Phases]
    BY <1>0, RespondType DEF Codes
  <2> QED
    BY <1>0, <2>1 DEF TypeOK
<1>2. ReqInv(r)'
  <2>1. phase'[r] = "done"
    BY <1>0 DEF Respond, TypeOK
  <2> QED
    BY <2>1 DEF ReqInv
<1>3. ASSUME NEW s \in Reqs \ {r} PROVE ReqInv(s)'
  <2>1. phase'[s] = phase[s] /\ resp'[s] = resp[s]
    BY <1>0 DEF Respond, TypeOK
  <2>2. ReqInv(s)
    BY DEF IInv
  <2> QED
    BY <2>1, <2>2 DEF ReqInv, Ready
<1>4. ServedAs(r, Map!Response(code, text))
  BY DEF Respond, ServedAs
<1> QED
  BY <1>1, <1>2, <1>3, <1>4, ServeStep DEF IInv

(* The same for an answer that changes neither the field nor the         *)
(* transaction slot: every error answer, and GET.                          *)
LEMMA RespondKeepStep ==
    ASSUME IInv, NEW r \in Reqs, NEW code \in Codes, NEW text \in Vals \cup Map!Texts,
           Respond(r, code, text),
           phase[r] # "done", req[r] # Nothing,
           UNCHANGED <<field, req, url_key, exists, txn>>,
           Map!Answer(req[r], field) = Map!Response(code, text),
           Map!Effect(req[r], field) = field
    PROVE  IInv' /\ [Map!Next]_MapVars
<1>1. field' \in [Keys -> Vals \cup {Nothing}] /\ txn' \in Reqs \cup {Nothing}
  BY DEF IInv, TypeOK
<1>2. \A s \in Reqs \ {r} : phase[s] = "put" =>
          txn' = s /\ field'[url_key[s]] = field[url_key[s]]
  BY DEF IInv, ReqInv
<1> QED
  BY <1>1, <1>2, RespondStep

LEMMA ExtractKeyStep ==
    ASSUME IInv, NEW r \in Reqs, ExtractKeyFromURLAndNext(r)
    PROVE  IInv' /\ [Map!Next]_MapVars
<1> DEFINE q == req[r]
           k == Map!UrlKey(q)
<1>0. /\ q \in Map!Requests
      /\ q # Nothing
      /\ resp[r] = Nothing
      /\ phase[r] = "enter"
      /\ q.verb \in {"GET", "PUT", "DELETE"}
      /\ UNCHANGED <<field, req, exists, txn>>
  BY DEF ExtractKeyFromURLAndNext, IInv, TypeOK, ReqInv
<1>1. k \in Keys \cup {Nothing}
  BY <1>0 DEF Map!UrlKey, Map!Requests
<1>2. CASE k # Nothing
  <2>1. /\ url_key' = [url_key EXCEPT ![r] = k]
        /\ phase' = [phase EXCEPT ![r] = AfterEnter(r)]
        /\ UNCHANGED resp
    BY <1>2 DEF ExtractKeyFromURLAndNext, Map!UrlKey
  <2>2. AfterEnter(r) = IF q.verb = "PUT" THEN "body" ELSE "run"
    BY <1>0 DEF AfterEnter
  <2>3. TypeOK'
    BY <1>0, <1>1, <2>1, <2>2 DEF IInv, TypeOK, Phases
  <2>0. /\ phase'[r] = IF q.verb = "PUT" THEN "body" ELSE "run"
        /\ url_key'[r] = k
        /\ req'[r] = q
        /\ resp'[r] = Nothing
    BY <1>0, <2>1, <2>2 DEF IInv, TypeOK
  <2>4. ReqInv(r)'
    BY <1>0, <1>2, <2>0 DEF ReqInv, Ready
  <2>5. \A s \in Reqs \ {r} : ReqInv(s)'
    BY <1>0, <2>1 DEF IInv, ReqInv, Ready
  <2> QED
    BY <1>0, <2>1, <2>3, <2>4, <2>5, Stutter DEF IInv
<1>3. CASE k = Nothing
  <2>1. /\ Respond(r, 400, "NeedResourceKey")
        /\ UNCHANGED url_key
    BY <1>3 DEF ExtractKeyFromURLAndNext, Map!UrlKey
  <2>2. TypeOK'
    <3>1. /\ resp' \in [Reqs -> Map!Responses \cup {Nothing}]
          /\ phase' \in [Reqs -> Phases]
      <4>1. TypeOK
        BY DEF IInv
      <4>2. "NeedResourceKey" \in Vals \cup Map!Texts
        BY DEF Map!Texts
      <4> QED
        BY <2>1, <4>1, <4>2, RespondType
    <3> QED
      BY <1>0, <2>1, <3>1 DEF IInv, TypeOK
  <2>3. \A s \in Reqs : ReqInv(s)'
    <3>1. phase'[r] = "done" /\ req'[r] # Nothing
      BY <1>0, <2>1 DEF IInv, TypeOK, Respond
    <3>2. ReqInv(r)'
      BY <3>1 DEF ReqInv
    <3>3. ASSUME NEW s \in Reqs \ {r} PROVE ReqInv(s)'
      <4>1. /\ phase'[s] = phase[s] /\ resp'[s] = resp[s]
            /\ url_key' = url_key
        BY <1>0, <2>1 DEF IInv, TypeOK, Respond
      <4> QED
        BY <1>0, <4>1 DEF IInv, ReqInv, Ready
    <3> QED
      BY <3>2, <3>3
  <2>4. ServedAs(r, Map!Response(400, "NeedResourceKey"))
    <3>1. /\ Map!Answer(q, field) = Map!Response(400, "NeedResourceKey")
          /\ Map!Effect(q, field) = field
      BY <1>0, <1>3, AnswerNeedKey
    <3> QED
      BY <1>0, <2>1, <3>1 DEF Respond, ServedAs
  <2> QED
    BY <1>0, <2>2, <2>3, <2>4, ServeStep DEF IInv
<1> QED
  BY <1>2, <1>3
LEMMA EnterPOSTStep ==
    ASSUME IInv, NEW r \in Reqs, EnterPOST(r)
    PROVE  IInv' /\ [Map!Next]_MapVars
<1> DEFINE q == req[r]
<1>0. /\ TypeOK /\ ReqInv(r)
      /\ q # Nothing /\ phase[r] = "enter" /\ q.verb = "POST"
      /\ UNCHANGED <<field, req, url_key, exists, txn>>
  BY DEF EnterPOST, IInv
<1>1. CASE q.path_args # <<>>
  <2>1. Respond(r, 400, "ShouldNotHaveResourceKey")
    BY <1>1 DEF EnterPOST
  <2>2. /\ Map!Answer(q, field) = Map!Response(400, "ShouldNotHaveResourceKey")
        /\ Map!Effect(q, field) = field
    BY <1>0, <1>1, AnswerKeyInURL
  <2>3. "ShouldNotHaveResourceKey" \in Vals \cup Map!Texts
    BY DEF Map!Texts
  <2> QED
    BY <1>0, <2>1, <2>2, <2>3, RespondKeepStep DEF Codes
<1>2. CASE q.path_args = <<>>
  <2>1. phase' = [phase EXCEPT ![r] = "body"] /\ resp' = resp
    BY <1>2 DEF EnterPOST
  <2>2. TypeOK'
    BY <1>0, <2>1 DEF TypeOK, Phases
  <2>3. ReqInv(r)'
    BY <1>0, <1>2, <2>1 DEF TypeOK, ReqInv, Ready
  <2>4. \A s \in Reqs \ {r} : ReqInv(s)'
    BY <1>0, <2>1 DEF IInv, ReqInv, Ready
  <2> QED
    BY <1>0, <2>1, <2>2, <2>3, <2>4, Stutter DEF IInv
<1> QED
  BY <1>1, <1>2

LEMMA NotAllowedStep ==
    ASSUME IInv, NEW r \in Reqs, ErrorMethodNotAllowed(r)
    PROVE  IInv' /\ [Map!Next]_MapVars
<1>0. /\ TypeOK /\ req[r] # Nothing /\ phase[r] = "enter" /\ req[r].verb = "PATCH"
      /\ Respond(r, 405, "MethodNotAllowed")
      /\ UNCHANGED <<field, req, url_key, exists, txn>>
  BY DEF ErrorMethodNotAllowed, IInv
<1>1. /\ Map!Answer(req[r], field) = Map!Response(405, "MethodNotAllowed")
      /\ Map!Effect(req[r], field) = field
  BY <1>0, AnswerNotAllowed
<1>2. "MethodNotAllowed" \in Vals \cup Map!Texts
  BY DEF Map!Texts
<1> QED
  BY <1>0, <1>1, <1>2, RespondKeepStep DEF Codes

LEMMA ParseBodyStep ==
    ASSUME IInv, NEW r \in Reqs, ParseBody(r)
    PROVE  IInv' /\ [Map!Next]_MapVars
<1> DEFINE q == req[r]
<1>0. /\ TypeOK /\ ReqInv(r) /\ phase[r] = "body"
      /\ q # Nothing /\ Ready(r) /\ q.verb \in {"POST", "PUT"}
      /\ UNCHANGED <<field, req, url_key, exists, txn>>
  BY DEF ParseBody, IInv, ReqInv
<1>1. CASE q.body = BadJSON
  <2>1. Respond(r, 400, "BadJson")
    BY <1>1 DEF ParseBody
  <2>2. /\ Map!Answer(q, field) = Map!Response(400, "BadJson")
        /\ Map!Effect(q, field) = field
    <3>1. /\ q.verb = "POST" => q.path_args = <<>>
          /\ q.verb = "PUT" => Map!UrlKey(q) # Nothing
      BY <1>0 DEF Ready
    <3> QED
      BY <1>0, <1>1, <3>1, AnswerBadJson
  <2>3. "BadJson" \in Vals \cup Map!Texts
    BY DEF Map!Texts
  <2> QED
    BY <1>0, <2>1, <2>2, <2>3, RespondKeepStep DEF Codes
<1>2. CASE q.body # BadJSON
  <2>1. phase' = [phase EXCEPT ![r] = "run"] /\ resp' = resp
    BY <1>2 DEF ParseBody
  <2>2. TypeOK'
    BY <1>0, <2>1 DEF TypeOK, Phases
  <2>3. ReqInv(r)'
    BY <1>0, <1>2, <2>1 DEF TypeOK, ReqInv, Ready
  <2>4. \A s \in Reqs \ {r} : ReqInv(s)'
    BY <1>0, <2>1 DEF IInv, ReqInv, Ready
  <2> QED
    BY <1>0, <2>1, <2>2, <2>3, <2>4, Stutter DEF IInv
<1> QED
  BY <1>1, <1>2

(* In Run, no other request is between its Exists read and its Add: the   *)
(* transaction slot is free.                                               *)
LEMMA NoneInPut ==
    ASSUME IInv, txn = Nothing
    PROVE  \A s \in Reqs : phase[s] # "put"
  BY RestAssumption DEF IInv, ReqInv

(* What Run may rely on: the key Enter extracted is the one RestMap reads. *)
LEMMA RunFacts ==
    ASSUME IInv, NEW r \in Reqs, phase[r] = "run"
    PROVE  /\ req[r] \in Map!Requests
           /\ req[r].verb # "POST" => /\ url_key[r] = Map!UrlKey(req[r])
                                      /\ url_key[r] \in Keys
                                      /\ url_key[r] # Nothing
           /\ req[r].verb = "POST" => req[r].path_args = <<>>
           /\ req[r].verb \in {"POST", "PUT"} => req[r].body \in Map!Entries
  BY DEF IInv, TypeOK, ReqInv, Ready, Map!Requests

LEMMA RunGETStep ==
    ASSUME IInv, NEW r \in Reqs, RunGET(r)
    PROVE  IInv' /\ [Map!Next]_MapVars
<1> DEFINE q == req[r]
           k == url_key[r]
<1>0. /\ TypeOK /\ phase[r] = "run" /\ q.verb = "GET" /\ txn = Nothing
      /\ q # Nothing /\ k = Map!UrlKey(q) /\ k \in Keys /\ k # Nothing
      /\ UNCHANGED <<field, req, url_key, exists, txn>>
  BY RunFacts DEF RunGET, RunReady, IInv, ReqInv
<1>1. /\ Map!Answer(q, field) =
            IF field[k] = Nothing THEN Map!Response(404, "Nope")
            ELSE Map!Response(200, field[k])
      /\ Map!Effect(q, field) = field
  <2>1. /\ Map!Answer(q, field) =
              IF field[Map!UrlKey(q)] = Nothing THEN Map!Response(404, "Nope")
              ELSE Map!Response(200, field[Map!UrlKey(q)])
        /\ Map!Effect(q, field) = field
    BY <1>0, AnswerGet
  <2> QED
    BY <1>0, <2>1
<1>3. CASE field[k] # Nothing
  <2>1. Respond(r, 200, field[k])
    BY <1>3 DEF RunGET
  <2>2. field[k] \in Vals
    BY <1>0, <1>3 DEF TypeOK
  <2> QED
    BY <1>0, <1>1, <1>3, <2>1, <2>2, RespondKeepStep DEF Codes
<1>4. CASE field[k] = Nothing
  <2>1. Respond(r, 404, "Nope")
    BY <1>4 DEF RunGET
  <2>2. "Nope" \in Vals \cup Map!Texts
    BY DEF Map!Texts
  <2> QED
    BY <1>0, <1>1, <1>4, <2>1, <2>2, RespondKeepStep DEF Codes
<1> QED
  BY <1>3, <1>4

LEMMA RunPOSTStep ==
    ASSUME IInv, NEW r \in Reqs, RunPOST(r)
    PROVE  IInv' /\ [Map!Next]_MapVars
<1> DEFINE q == req[r]
<1>0. /\ TypeOK /\ phase[r] = "run" /\ q.verb = "POST" /\ txn = Nothing
      /\ q # Nothing /\ q.path_args = <<>> /\ q.body \in Map!Entries
      /\ Respond(r, 201, "Created")
      /\ field' = [field EXCEPT ![q.body.key] = q.body.val]
      /\ UNCHANGED <<req, url_key, exists, txn>>
  BY RunFacts DEF RunPOST, RunReady, IInv, ReqInv
<1>1. q.body # BadJSON
  BY DEF IInv, ReqInv, RunPOST, RunReady
<1>2. /\ Map!Answer(q, field) = Map!Response(201, "Created")
      /\ Map!Effect(q, field) = field'
  <2>1. /\ Map!Answer(q, field) = Map!Response(201, "Created")
        /\ Map!Effect(q, field) = [field EXCEPT ![q.body.key] = q.body.val]
    <3>1. q.verb = "POST" /\ q.path_args = <<>>
      BY <1>0
    <3> QED
      BY <3>1, <1>1, AnswerPost
  <2> QED
    BY <1>0, <2>1
<1>3. field' \in [Keys -> Vals \cup {Nothing}]
  BY <1>0 DEF TypeOK, Map!Entries
<1>4. \A s \in Reqs \ {r} : phase[s] = "put" =>
          txn' = s /\ field'[url_key[s]] = field[url_key[s]]
  BY <1>0, NoneInPut
<1>5. "Created" \in Vals \cup Map!Texts
  BY DEF Map!Texts
<1>6. /\ 201 \in Codes
      /\ phase[r] # "done" /\ req[r] # Nothing
      /\ UNCHANGED <<req, url_key, exists>>
      /\ txn' \in Reqs \cup {Nothing}
  BY <1>0 DEF Codes
<1>7. /\ Respond(r, 201, "Created")
      /\ Map!Answer(req[r], field) = Map!Response(201, "Created")
      /\ field' = Map!Effect(req[r], field)
  BY <1>0, <1>2
<1> QED
  BY <1>3, <1>4, <1>5, <1>6, <1>7, RespondStep

LEMMA RunDELETEStep ==
    ASSUME IInv, NEW r \in Reqs, RunDELETE(r)
    PROVE  IInv' /\ [Map!Next]_MapVars
<1> DEFINE q == req[r]
           k == url_key[r]
<1>0. /\ TypeOK /\ phase[r] = "run" /\ q.verb = "DELETE" /\ txn = Nothing
      /\ q # Nothing /\ k = Map!UrlKey(q) /\ k \in Keys /\ k # Nothing
      /\ Respond(r, 200, "Deleted")
      /\ field' = [field EXCEPT ![k] = Nothing]
      /\ UNCHANGED <<req, url_key, exists, txn>>
  BY RunFacts DEF RunDELETE, RunReady, IInv, ReqInv
<1>1. /\ Map!Answer(q, field) = Map!Response(200, "Deleted")
      /\ Map!Effect(q, field) = field'
  <2>1. /\ Map!Answer(q, field) = Map!Response(200, "Deleted")
        /\ Map!Effect(q, field) = [field EXCEPT ![Map!UrlKey(q)] = Nothing]
    BY <1>0, AnswerDelete
  <2> QED
    BY <1>0, <2>1
<1>2. field' \in [Keys -> Vals \cup {Nothing}]
  BY <1>0 DEF TypeOK
<1>3. \A s \in Reqs \ {r} : phase[s] = "put" =>
          txn' = s /\ field'[url_key[s]] = field[url_key[s]]
  BY <1>0, NoneInPut
<1>4. "Deleted" \in Vals \cup Map!Texts
  BY DEF Map!Texts
<1>5. /\ 200 \in Codes
      /\ phase[r] # "done" /\ req[r] # Nothing
      /\ UNCHANGED <<req, url_key, exists>>
      /\ txn' \in Reqs \cup {Nothing}
  BY <1>0 DEF Codes, TypeOK
<1>6. /\ Respond(r, 200, "Deleted")
      /\ Map!Answer(req[r], field) = Map!Response(200, "Deleted")
      /\ field' = Map!Effect(req[r], field)
  BY <1>0, <1>1
<1> QED
  BY <1>2, <1>3, <1>4, <1>5, <1>6, RespondStep

LEMMA RunPUTMismatchStep ==
    ASSUME IInv, NEW r \in Reqs, RunPUTMismatch(r)
    PROVE  IInv' /\ [Map!Next]_MapVars
<1> DEFINE q == req[r]
           k == url_key[r]
<1>0. /\ TypeOK /\ phase[r] = "run" /\ q.verb = "PUT" /\ txn = Nothing
      /\ q # Nothing /\ k = Map!UrlKey(q) /\ k \in Keys /\ k # Nothing
      /\ q.body.key # k
      /\ Respond(r, 400, "KeyMismatch")
      /\ UNCHANGED <<field, req, url_key, exists, txn>>
  BY RunFacts DEF RunPUTMismatch, RunReady, IInv, ReqInv
<1>1. q.body # BadJSON
  BY DEF IInv, ReqInv, RunPUTMismatch, RunReady
<1>2. /\ Map!Answer(q, field) = Map!Response(400, "KeyMismatch")
      /\ Map!Effect(q, field) = field
  <2>1. q.body.key # Map!UrlKey(q) /\ Map!UrlKey(q) # Nothing
    BY <1>0
  <2> QED
    BY <1>0, <1>1, <2>1, AnswerPutMismatch
<1>4. "KeyMismatch" \in Vals \cup Map!Texts
  BY DEF Map!Texts
<1> QED
  BY <1>0, <1>2, <1>4, RespondKeepStep DEF Codes

(* PUT's Exists read: nothing a client sees changes, and the request now  *)
(* holds the transaction with what it read.                                *)
LEMMA RunPUTExistsStep ==
    ASSUME IInv, NEW r \in Reqs, RunPUTExists(r)
    PROVE  IInv' /\ [Map!Next]_MapVars
<1> DEFINE q == req[r]
           k == url_key[r]
<1>0. /\ TypeOK /\ ReqInv(r) /\ phase[r] = "run" /\ q.verb = "PUT" /\ txn = Nothing
      /\ q.body.key = k
      /\ exists' = [exists EXCEPT ![r] = field[k] # Nothing]
      /\ txn' = r
      /\ phase' = [phase EXCEPT ![r] = "put"]
      /\ UNCHANGED <<field, req, url_key, resp>>
  BY DEF RunPUTExists, RunReady, IInv
<1>1. TypeOK'
  BY <1>0 DEF TypeOK, Phases
<1>2. ReqInv(r)'
  BY <1>0 DEF TypeOK, ReqInv, Ready
<1>3. ASSUME NEW s \in Reqs \ {r} PROVE ReqInv(s)'
  <2>1. phase[s] # "put"
    BY <1>0, NoneInPut
  <2>2. phase'[s] = phase[s] /\ exists'[s] = exists[s]
    BY <1>0 DEF TypeOK
  <2> QED
    BY <1>0, <2>1, <2>2 DEF IInv, ReqInv, Ready
<1> QED
  BY <1>0, <1>1, <1>2, <1>3, Stutter DEF IInv

(* PUT's Add: answered by what it read, which is still the field. *)
LEMMA RunPUTAddStep ==
    ASSUME IInv, NEW r \in Reqs, RunPUTAdd(r)
    PROVE  IInv' /\ [Map!Next]_MapVars
<1> DEFINE q == req[r]
           k == url_key[r]
<1>0. /\ TypeOK /\ phase[r] = "put" /\ q # Nothing /\ q \in Map!Requests
      /\ q.verb = "PUT" /\ q.body # BadJSON /\ q.body.key = k
      /\ k = Map!UrlKey(q) /\ k # Nothing
      /\ txn = r /\ exists[r] = (field[k] # Nothing)
      /\ field' = [field EXCEPT ![q.body.key] = q.body.val]
      /\ txn' = Nothing
      /\ UNCHANGED <<req, url_key, exists>>
  BY DEF RunPUTAdd, IInv, TypeOK, ReqInv, Ready
<1>1. /\ Map!Answer(q, field) =
            IF field[k] = Nothing THEN Map!Response(201, "Created")
            ELSE Map!Response(200, "Updated")
      /\ Map!Effect(q, field) = field'
  <2>1. /\ Map!Answer(q, field) =
              IF field[Map!UrlKey(q)] = Nothing THEN Map!Response(201, "Created")
              ELSE Map!Response(200, "Updated")
        /\ Map!Effect(q, field) = [field EXCEPT ![q.body.key] = q.body.val]
    <3>1. /\ q.verb = "PUT" /\ Map!UrlKey(q) # Nothing
          /\ q.body # BadJSON /\ q.body.key = Map!UrlKey(q)
      BY <1>0
    <3> QED
      BY <3>1, AnswerPut
  <2> QED
    BY <1>0, <2>1
<1>2. field' \in [Keys -> Vals \cup {Nothing}]
  BY <1>0 DEF TypeOK, Map!Requests, Map!Entries
<1>3. \A s \in Reqs \ {r} : phase[s] = "put" =>
          txn' = s /\ field'[url_key[s]] = field[url_key[s]]
  BY <1>0 DEF IInv, ReqInv
<1>4. txn' \in Reqs \cup {Nothing}
  BY <1>0
<1>5. CASE exists[r]
  <2>1. Respond(r, 200, "Updated")
    BY <1>5 DEF RunPUTAdd
  <2>2. "Updated" \in Vals \cup Map!Texts
    BY DEF Map!Texts
  <2>3. /\ 200 \in Codes
        /\ phase[r] # "done" /\ req[r] # Nothing
        /\ UNCHANGED <<req, url_key, exists>>
    BY <1>0 DEF Codes
  <2>4. /\ field[k] # Nothing
        /\ Map!Answer(req[r], field) = Map!Response(200, "Updated")
        /\ field' = Map!Effect(req[r], field)
    BY <1>0, <1>1, <1>5
  <2> QED
    BY <1>2, <1>3, <1>4, <2>1, <2>2, <2>3, <2>4, RespondStep, Zenon
<1>6. CASE ~exists[r]
  <2>1. Respond(r, 201, "Created")
    BY <1>6 DEF RunPUTAdd
  <2>2. "Created" \in Vals \cup Map!Texts
    BY DEF Map!Texts
  <2>3. /\ 201 \in Codes
        /\ phase[r] # "done" /\ req[r] # Nothing
        /\ UNCHANGED <<req, url_key, exists>>
    BY <1>0 DEF Codes
  <2>4. /\ field[k] = Nothing
        /\ Map!Answer(req[r], field) = Map!Response(201, "Created")
        /\ field' = Map!Effect(req[r], field)
    BY <1>0, <1>1, <1>6
  <2> QED
    BY <1>2, <1>3, <1>4, <2>1, <2>2, <2>3, <2>4, RespondStep
<1> QED
  BY <1>5, <1>6

-----------------------------------------------------------------------------
(* Every step of the handlers keeps IInv and is a step of RestMap or      *)
(* leaves what the clients see alone.                                      *)
LEMMA NextStep ==
    ASSUME IInv, [Next]_vars
    PROVE  IInv' /\ [Map!Next]_MapVars
<1>1. CASE UNCHANGED vars
  BY <1>1, Stutter DEF IInv, TypeOK, ReqInv, Ready, vars
<1>2. ASSUME NEW r \in Reqs, Arrive(r) PROVE IInv' /\ [Map!Next]_MapVars
  BY <1>2, ArriveStep
<1>3. ASSUME NEW r \in Reqs, Serve(r) PROVE IInv' /\ [Map!Next]_MapVars
  BY <1>3, ExtractKeyStep, EnterPOSTStep, NotAllowedStep, ParseBodyStep,
     RunGETStep, RunPOSTStep, RunDELETEStep, RunPUTMismatchStep,
     RunPUTExistsStep, RunPUTAddStep DEF Serve
<1> QED
  BY <1>1, <1>2, <1>3 DEF Next

(* The handlers keep IInv; in particular a PUT between its Exists read and *)
(* its Add holds the only transaction, and the field still says what it    *)
(* read (basic.h 111-119).                                                 *)
THEOREM Invariance == Spec => []IInv
<1>1. Init => IInv
  BY InitIInv
<1>2. IInv /\ [Next]_vars => IInv'
  BY NextStep
<1> QED
  BY <1>1, <1>2, PTL DEF Spec

(* The Basic handlers implement the map of RestMap: every answer they send *)
(* and every change they make to the field is the one of serving that      *)
(* request alone, at one instant, against the field as it then is, for any *)
(* keys, values and number of concurrent requests.                         *)
THEOREM Refinement == Spec => Map!SafeSpec
<1>1. Init => Map!Init
  BY DEF Init, Map!Init
<1>2. IInv /\ [Next]_vars => IInv' /\ [Map!Next]_Map!vars
  BY NextStep DEF MapVars, Map!vars
<1> QED
  BY <1>1, <1>2, InitIInv, PTL DEF Spec, Map!SafeSpec
=============================================================================
