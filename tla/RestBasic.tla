----------------------------- MODULE RestBasic -----------------------------
(***************************************************************************)
(* The `Basic` RESTful handlers of src/Storage/rest/basic.h, serving one   *)
(* storage field to concurrent HTTP requests.                              *)
(*                                                                         *)
(* The HTTP layer calls a handler's Enter with the request.  Enter answers *)
(* an ill-formed URL at once or calls next; for POST and PUT the body is   *)
(* then parsed into an entry (ErrorBadJSON when it fails), and Run is      *)
(* called inside a read-write transaction of the storage.  Transactions    *)
(* are serialized: `txn` is the one that runs.  PUT's Run reads the field  *)
(* (Exists) and then writes it (Add); the two are steps of their own.      *)
(* The framework, the storage and the JSON parser are outside src/; the    *)
(* order above is how Basic's hooks are called.                            *)
(***************************************************************************)
EXTENDS Naturals, Sequences

CONSTANTS Keys, Vals, Reqs, Nothing, BadJSON

(* No request is the empty transaction slot. *)
ASSUME RestAssumption == Nothing \notin Reqs

VARIABLES
    field,      \* the storage field: key -> value, or Nothing
    req,        \* the request r carries, or Nothing before it arrives
    phase,      \* where request r is
    url_key,    \* the key Enter extracted from the URL
    exists,     \* PUT's `exists`, read before its Add
    txn,        \* the request whose transaction runs, or Nothing
    resp        \* the response sent for r, or Nothing

vars == <<field, req, phase, url_key, exists, txn, resp>>

(* The client-visible map these handlers implement. *)
Map == INSTANCE RestMap WITH store <- field, asked <- req, answer <- resp

Phases == {"enter", "body", "run", "put", "done"}

TypeOK ==
    /\ field \in [Keys -> Vals \cup {Nothing}]
    /\ req \in [Reqs -> Map!Requests \cup {Nothing}]
    /\ phase \in [Reqs -> Phases]
    /\ url_key \in [Reqs -> Keys \cup {Nothing}]
    /\ exists \in [Reqs -> BOOLEAN]
    /\ txn \in Reqs \cup {Nothing}
    /\ resp \in [Reqs -> Map!Responses \cup {Nothing}]

(* request(text, code): the response is sent and the request is over. *)
Respond(r, code, text) ==
    /\ resp' = [resp EXCEPT ![r] = Map!Response(code, text)]
    /\ phase' = [phase EXCEPT ![r] = "done"]

(* After next(): POST and PUT go on to the body, GET and DELETE to Run. *)
AfterEnter(r) == IF req[r].verb \in {"POST", "PUT"} THEN "body" ELSE "run"

-----------------------------------------------------------------------------
(* A client sends request q. *)
Arrive(r) ==
    /\ req[r] = Nothing
    /\ \E q \in Map!Requests : req' = [req EXCEPT ![r] = q]
    /\ UNCHANGED <<field, phase, url_key, exists, txn, resp>>

(* Enter of GET, PUT and DELETE: the key is the query parameter `key`, else *)
(* the first path argument; with neither the request is answered 400.     *)
ExtractKeyFromURLAndNext(r) ==
    LET q == req[r]
        k == IF q.query_key # Nothing THEN q.query_key
             ELSE IF q.path_args # <<>> THEN q.path_args[1] ELSE Nothing
    IN  /\ q # Nothing
        /\ phase[r] = "enter"
        /\ q.verb \in {"GET", "PUT", "DELETE"}
        /\ IF k # Nothing
             THEN /\ url_key' = [url_key EXCEPT ![r] = k]
                  /\ phase' = [phase EXCEPT ![r] = AfterEnter(r)]
                  /\ UNCHANGED resp
             ELSE /\ Respond(r, 400, "NeedResourceKey")
                  /\ UNCHANGED url_key
        /\ UNCHANGED <<field, req, exists, txn>>

(* Enter of POST: a key in the URL is refused. *)
EnterPOST(r) ==
    /\ req[r] # Nothing
    /\ phase[r] = "enter"
    /\ req[r].verb = "POST"
    /\ IF req[r].path_args # <<>>
         THEN Respond(r, 400, "ShouldNotHaveResourceKey")
         ELSE /\ phase' = [phase EXCEPT ![r] = "body"]
              /\ UNCHANGED resp
    /\ UNCHANGED <<field, req, url_key, exists, txn>>

(* A method Basic has no handler for: ErrorMethodNotAllowed. *)
ErrorMethodNotAllowed(r) ==
    /\ req[r] # Nothing
    /\ phase[r] = "enter"
    /\ req[r].verb = "PATCH"
    /\ Respond(r, 405, "MethodNotAllowed")
    /\ UNCHANGED <<field, req, url_key, exists, txn>>

(* The body of POST or PUT is parsed; when it is not JSON of an entry the  *)
(* handler's ErrorBadJSON answers 400.                                     *)
ParseBody(r) ==
    /\ phase[r] = "body"
    /\ IF req[r].body = BadJSON
         THEN Respond(r, 400, "BadJson")
         ELSE /\ phase' = [phase EXCEPT ![r] = "run"]
              /\ UNCHANGED resp
    /\ UNCHANGED <<field, req, url_key, exists, txn>>

-----------------------------------------------------------------------------
(* The Run of each handler, inside a transaction of its own. *)
RunReady(r, verb) ==
    /\ phase[r] = "run"
    /\ req[r].verb = verb
    /\ txn = Nothing

(* GET: the entry if it exists, else 404. *)
RunGET(r) ==
    LET result == field[url_key[r]]
    IN  /\ RunReady(r, "GET")
        /\ IF result # Nothing THEN Respond(r, 200, result)
                               ELSE Respond(r, 404, "Nope")
        /\ UNCHANGED <<field, req, url_key, exists, txn>>

(* POST: Add the entry and answer Created, whether or not its key exists. *)
RunPOST(r) ==
    /\ RunReady(r, "POST")
    /\ field' = [field EXCEPT ![req[r].body.key] = req[r].body.val]
    /\ Respond(r, 201, "Created")
    /\ UNCHANGED <<req, url_key, exists, txn>>

(* DELETE: Erase the key, present or not, and answer Deleted. *)
RunDELETE(r) ==
    /\ RunReady(r, "DELETE")
    /\ field' = [field EXCEPT ![url_key[r]] = Nothing]
    /\ Respond(r, 200, "Deleted")
    /\ UNCHANGED <<req, url_key, exists, txn>>

(* PUT whose entry key is not the URL key: 400, the field untouched. *)
RunPUTMismatch(r) ==
    /\ RunReady(r, "PUT")
    /\ req[r].body.key # url_key[r]
    /\ Respond(r, 400, "KeyMismatch")
    /\ UNCHANGED <<field, req, url_key, exists, txn>>

(* Mutation: the read of PUT outside a serialized transaction. *)
RunPUTExistsUnlocked(r) ==
    /\ phase[r] = "run"
    /\ req[r].verb = "PUT"
    /\ req[r].body.key = url_key[r]
    /\ exists' = [exists EXCEPT ![r] = field[url_key[r]] # Nothing]
    /\ txn' = r
    /\ phase' = [phase EXCEPT ![r] = "put"]
    /\ UNCHANGED <<field, req, url_key, resp>>

(* PUT whose keys match, first half: the transaction starts and reads      *)
(* whether the key exists.                                                 *)
RunPUTExists(r) ==
    /\ RunReady(r, "PUT")
    /\ req[r].body.key = url_key[r]
    /\ exists' = [exists EXCEPT ![r] = field[url_key[r]] # Nothing]
    /\ txn' = r
    /\ phase' = [phase EXCEPT ![r] = "put"]
    /\ UNCHANGED <<field, req, url_key, resp>>

(* PUT, second half: Add the entry, answer Updated or Created by what was *)
(* read, and end the transaction.                                         *)
RunPUTAdd(r) ==
    /\ phase[r] = "put"
    /\ field' = [field EXCEPT ![req[r].body.key] = req[r].body.val]
    /\ IF exists[r] THEN Respond(r, 200, "Updated")
                    ELSE Respond(r, 201, "Created")
    /\ txn' = Nothing
    /\ UNCHANGED <<req, url_key, exists>>

-----------------------------------------------------------------------------
Init ==
    /\ field = [k \in Keys |-> Nothing]
    /\ req = [r \in Reqs |-> Nothing]
    /\ phase = [r \in Reqs |-> "enter"]
    /\ url_key = [r \in Reqs |-> Nothing]
    /\ exists = [r \in Reqs |-> FALSE]
    /\ txn = Nothing
    /\ resp = [r \in Reqs |-> Nothing]

(* Everything the server does for request r once it has arrived. *)
Serve(r) ==
    \/ ExtractKeyFromURLAndNext(r)
    \/ EnterPOST(r)
    \/ ErrorMethodNotAllowed(r)
    \/ ParseBody(r)
    \/ RunGET(r)
    \/ RunPOST(r)
    \/ RunDELETE(r)
    \/ RunPUTMismatch(r)
    \/ RunPUTExists(r)
    \/ RunPUTAdd(r)

Next == \E r \in Reqs : Arrive(r) \/ Serve(r)

(* The server's threads work on every request they accepted, and the       *)
(* storage runs every transaction it queued.                               *)
Spec == Init /\ [][Next]_vars /\ \A r \in Reqs : WF_vars(Serve(r))

-----------------------------------------------------------------------------
(* The handlers implement the map: with requests arriving and handled      *)
(* concurrently, each answer and each change of the field is the one of    *)
(* serving that request alone at one instant, and every request is         *)
(* answered.  PUT's Exists read and its Add (basic.h 113-114) must not let *)
(* another write in between.                                               *)
MapRefined == Map!Spec

=============================================================================
