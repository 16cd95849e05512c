----------------------------- MODULE DogsProofs -----------------------------
(***************************************************************************)
(* OneRepresentative for any number of dogs, requests and inputs.  That no *)
(* two rows are committed as representative rests on the unique index: at  *)
(* most one transaction holds an uncommitted representative (OneWriter),   *)
(* and from its statement on no other row it sees is one (OthersPlain).    *)
(* That a dog gone is not back rests on ids being made once (BornInv).     *)
(***************************************************************************)
EXTENDS Dogs, FiniteSetTheorems, TLAPS

(* Leaves are tried with Zenon, those with arithmetic then with SMT.       *)
USE ZenonT(4), SMTT(30), SMTT(40), ZenonT(60)

Places == {"idle", "update", "create", "delete", "clear", "clear rows", "set", "commit", "done"}
Values == {None, "plain", "rep"}
Asks == [op : {"upsert", "set", "none"}, keep : SUBSET Ids, new : SUBSET Ids, rep : Ids \cup {None}]

(* What is assumed of the requests: they name dogs, a request to set the   *)
(* representative names one, a list has its representative among its dogs, *)
(* and the ids of new dogs are made by the request that inserts them.  Any *)
(* request may name a dog that another has inserted.                       *)
RequestsAreSound ==
    /\ None \notin Ids
    /\ \A q \in Requests : \A in \in Inputs[q] :
          /\ in \in Asks /\ (in.op = "set" => in.rep \in Ids)
          /\ in.op = "upsert" => in.rep \in in.keep \cup in.new \cup {None}
          /\ in.new \cap Existing = {}
    /\ \A p, q \in Requests : \A i \in Inputs[p], j \in Inputs[q] : p # q => i.new \cap j.new = {}

Typed ==
    /\ dogs \in [Ids -> Values]
    /\ DOMAIN ov = Requests
    /\ \A q \in Requests : Mine(q) \subseteq Ids /\ \A d \in Mine(q) : ov[q][d] \in Values
    /\ req \in [Requests -> [at : Places, in : Asks, seen : SUBSET Ids]]
    /\ \A q \in Requests : req[q].at # "idle" => req[q].in \in Inputs[q]
    /\ asked \in Ids \cup {None}

Locks == \A p, q \in Requests : p # q => Mine(p) \cap Mine(q) = {}
Ended == \A q \in Requests : req[q].at \in {"idle", "done"} => Mine(q) = {}
OneCommitted == \A d, e \in Ids : dogs[d] = "rep" /\ dogs[e] = "rep" => d = e
OneWriter == \A p, q \in Requests : \A d \in Mine(p), e \in Mine(q) :
                ov[p][d] = "rep" /\ ov[q][e] = "rep" => p = q
OthersPlain == \A q \in Requests : \A d \in Mine(q) : ov[q][d] = "rep" =>
                  \A e \in Ids : Value(q, e) = "rep" => e = d

(* At its commit a request has its dog as representative, or the dog is    *)
(* gone and nobody can bring it back.                                      *)
Granted(q) ==
    LET d == req[q].in.rep IN
    \/ d \in Mine(q) /\ ov[q][d] \in {None, "rep"}
    \/ dogs[d] = None /\ \A p \in Requests : d \notin Mine(p)
AtCommit == \A q \in Requests : req[q].at = "commit" /\ req[q].in.rep # None => Granted(q)
Answered == asked # None => dogs[asked] \in {None, "rep"}

(* A dog there is, or was when a request that names it began, is one of the*)
(* first ones or its request has inserted it: ids are not used again.      *)
Past(q) == req[q].at \notin {"idle", "update", "create"}
Born(d) == d \in Existing \/ \E q \in Requests : Past(q) /\ d \in req[q].in.new
Named(q) == req[q].at \notin {"idle", "done"} /\ req[q].in.rep # None /\ req[q].in.rep \notin req[q].in.new
BornInv ==
    /\ \A d \in Ids : dogs[d] # None => Born(d)
    /\ \A q \in Requests : \A d \in Mine(q) : Born(d)
    /\ \A q \in Requests : Named(q) => Born(req[q].in.rep)

DogInv == Typed /\ Locks /\ Ended /\ OneCommitted /\ OneWriter /\ OthersPlain /\ AtCommit /\ Answered
-----------------------------------------------------------------------------
(* A statement that writes rows as plain or gone, of rows it is free to    *)
(* lock, keeps the invariant; a row it creates is not one that another     *)
(* request is about to commit as gone.                                     *)
LEMMA PlainWriteKeeps ==
    ASSUME RequestsAreSound, DogInv, NEW q \in Requests, NEW ds \in SUBSET Ids, NEW v \in {None, "plain"},
           Free(q, ds), Write(q, ds, v), UNCHANGED <<dogs, asked>>,
           NEW at \in Places, Goto(q, at), at \notin {"idle", "done"}, req[q].at # "idle",
           at = "commit" => req[q].in.rep = None,
           \A p \in Requests : p # q /\ req[p].at = "commit" => req[p].in.rep \notin ds \ Visible(q)
    PROVE  DogInv'
<1>1. /\ DOMAIN ov' = Requests
      /\ \A p \in Requests \ {q} : ov'[p] = ov[p]
      /\ Mine(q)' = Mine(q) \cup ds
      /\ \A d \in Mine(q)' : ov'[q][d] = IF d \in ds THEN v ELSE ov[q][d]
  BY DEF DogInv, Typed, Write, Mine
<1>2. /\ req' \in [Requests -> [at : Places, in : Asks, seen : SUBSET Ids]]
      /\ \A p \in Requests : req'[p].in = req[p].in
      /\ \A p \in Requests \ {q} : req'[p] = req[p]
      /\ req'[q].at = at
  BY DEF DogInv, Typed, Goto, Places
<1>3. Typed'
  <2>1. /\ dogs' \in [Ids -> Values] /\ asked' \in Ids \cup {None}
        /\ \A p \in Requests : Mine(p) \subseteq Ids /\ \A d \in Mine(p) : ov[p][d] \in Values
    BY DEF DogInv, Typed
  <2>2. Mine(q)' \subseteq Ids /\ \A d \in Mine(q)' : ov'[q][d] \in Values
    BY <1>1, <2>1 DEF Values
  <2>3. ASSUME NEW p \in Requests, p # q
        PROVE  Mine(p)' \subseteq Ids /\ \A d \in Mine(p)' : ov'[p][d] \in Values
    BY <1>1, <2>1, <2>3 DEF Mine
  <2>4. \A p \in Requests : req'[p].at # "idle" => req'[p].in \in Inputs[p]
    BY <1>2 DEF DogInv, Typed
  <2> QED BY <1>1, <1>2, <2>1, <2>2, <2>3, <2>4 DEF Typed
<1>4. Locks'
  BY <1>1 DEF DogInv, Locks, Free, Mine
<1>5. Ended'
  BY <1>1, <1>2 DEF DogInv, Ended, Mine
<1>6. OneCommitted' /\ Answered'
  BY DEF DogInv, OneCommitted, Answered
<1>7. \A p \in Requests : \A d \in Mine(p)' : ov'[p][d] = "rep" => d \in Mine(p) /\ ov[p][d] = "rep"
  BY <1>1 DEF Mine, None
<1>8. OneWriter'
  BY <1>7 DEF DogInv, OneWriter
<1>9. OthersPlain'
  <2> SUFFICES ASSUME NEW p \in Requests, NEW d \in Mine(p)', ov'[p][d] = "rep", NEW e \in Ids, Value(p, e)' = "rep"
               PROVE  e = d
    BY DEF OthersPlain
  <2>1. Value(p, e) = "rep"
    BY <1>1, <1>7 DEF Value, Mine, None
  <2> QED
    BY <2>1, <1>7 DEF DogInv, OthersPlain
<1>10. AtCommit'
  <2> SUFFICES ASSUME NEW p \in Requests, req'[p].at = "commit", req'[p].in.rep # None
               PROVE  Granted(p)'
    BY DEF AtCommit
  <2>1. p # q /\ req[p] = req'[p] /\ Granted(p)
    BY <1>2 DEF DogInv, AtCommit
  <2> DEFINE d == req[p].in.rep
  <2>2. CASE d \in Mine(p)
    BY <2>1, <2>2, <1>1 DEF Granted, Mine
  <2>3. CASE d \notin Mine(p)
    <3>1. d \notin Visible(q)
      BY <2>1, <2>3 DEF Granted, Visible, Value
    <3>2. d \notin ds
      BY <2>1, <3>1
    <3> QED
      BY <2>1, <2>3, <3>2, <1>1 DEF Granted, Mine
  <2> QED
    BY <2>2, <2>3
<1> QED
  BY <1>3, <1>4, <1>5, <1>6, <1>8, <1>9, <1>10 DEF DogInv

(* A transaction that rolls back drops its writes and its locks.           *)
LEMMA AbortKeeps ==
    ASSUME DogInv, NEW q \in Requests, req[q].at # "idle", Abort(q), UNCHANGED <<dogs, asked>>
    PROVE  DogInv'
<1>1. /\ DOMAIN ov' = Requests
      /\ \A p \in Requests \ {q} : ov'[p] = ov[p]
      /\ Mine(q)' = {}
  BY DEF DogInv, Typed, Abort, Mine
<1>2. /\ req' \in [Requests -> [at : Places, in : Asks, seen : SUBSET Ids]]
      /\ \A p \in Requests : req'[p].in = req[p].in
      /\ \A p \in Requests \ {q} : req'[p] = req[p]
      /\ req'[q].at = "done"
  BY DEF DogInv, Typed, Abort, Places
<1>3. Typed'
  BY <1>1, <1>2 DEF DogInv, Typed, Mine
<1>4. Locks' /\ Ended' /\ OneCommitted' /\ Answered'
  BY <1>1, <1>2 DEF DogInv, Locks, Ended, OneCommitted, Answered, Mine
<1>5. OneWriter' /\ OthersPlain'
  BY <1>1 DEF DogInv, OneWriter, OthersPlain, Mine, Value
<1>6. AtCommit'
  BY <1>1, <1>2 DEF DogInv, AtCommit, Granted, Mine
<1> QED
  BY <1>3, <1>4, <1>5, <1>6 DEF DogInv

(* A step that only reads, and does not lead to a commit.                  *)
LEMMA ReadKeeps ==
    ASSUME DogInv, NEW q \in Requests, UNCHANGED <<dogs, ov, asked>>,
           NEW r \in [at : Places, in : Asks, seen : SUBSET Ids], req' = [req EXCEPT ![q] = r],
           r.in \in Inputs[q], r.at # "commit", r.at \in {"idle", "done"} => Mine(q) = {}
    PROVE  DogInv'
<1>1. /\ req' \in [Requests -> [at : Places, in : Asks, seen : SUBSET Ids]]
      /\ \A p \in Requests \ {q} : req'[p] = req[p]
      /\ req'[q] = r
  BY DEF DogInv, Typed
<1>2. Typed'
  BY <1>1 DEF DogInv, Typed, Mine
<1>3. Locks' /\ Ended' /\ OneCommitted' /\ Answered' /\ OneWriter' /\ OthersPlain'
  BY <1>1 DEF DogInv, Locks, Ended, OneCommitted, Answered, OneWriter, OthersPlain, Mine, Value
<1>4. AtCommit'
  BY <1>1 DEF DogInv, AtCommit, Granted, Mine
<1> QED
  BY <1>2, <1>3, <1>4 DEF DogInv

(* The second statement of set_representative: the index admits the row or *)
(* the transaction is aborted.                                             *)
LEMMA SetKeeps ==
    ASSUME RequestsAreSound, DogInv, NEW q \in Requests, set_representative(q)
    PROVE  DogInv'
<1> DEFINE d == req[q].in.rep
<1>0. /\ req[q].at = "set" /\ Free(q, {d}) /\ UNCHANGED <<dogs, asked>>
      /\ \A p \in Requests \ {q} : \A e \in Mine(p) : ov[p][e] # "rep"
  BY DEF set_representative
<1>1. CASE d \in Visible(q) /\ unique_ok(q, d) /\ Write(q, {d}, "rep") /\ Goto(q, "commit")
  <2>1. d \in Ids
    BY <1>1 DEF Visible
  <2>2. /\ DOMAIN ov' = Requests
        /\ \A p \in Requests \ {q} : ov'[p] = ov[p]
        /\ Mine(q)' = Mine(q) \cup {d}
        /\ \A e \in Mine(q)' : ov'[q][e] = IF e = d THEN "rep" ELSE ov[q][e]
    BY <1>1 DEF DogInv, Typed, Write, Mine
  <2>3. /\ req' \in [Requests -> [at : Places, in : Asks, seen : SUBSET Ids]]
        /\ \A p \in Requests : req'[p].in = req[p].in
        /\ \A p \in Requests \ {q} : req'[p] = req[p]
        /\ req'[q].at = "commit"
    BY <1>1 DEF DogInv, Typed, Goto, Places
  <2>4. Typed'
    BY <1>0, <2>1, <2>2, <2>3 DEF DogInv, Typed, Values, Mine
  <2>5. Locks' /\ Ended' /\ OneCommitted' /\ Answered'
    BY <1>0, <2>2, <2>3 DEF DogInv, Locks, Ended, OneCommitted, Answered, Free, Mine
  <2>6. OneWriter'
    BY <1>0, <2>2 DEF OneWriter, Mine
  <2>7. OthersPlain'
    <3> SUFFICES ASSUME NEW p \in Requests, NEW c \in Mine(p)', ov'[p][c] = "rep",
                        NEW e \in Ids, Value(p, e)' = "rep"
                 PROVE  e = c
      BY DEF OthersPlain
    <3>1. p = q
      BY <1>0, <2>2 DEF Mine
    <3>2. \A x \in Ids : Value(q, x)' = "rep" => x = d
      BY <1>0, <1>1, <2>2 DEF unique_ok, Representatives, Value, Mine
    <3>3. c \in Ids /\ Value(q, c)' = "rep"
      BY <2>4, <3>1 DEF Typed, Value
    <3> QED
      BY <3>1, <3>2, <3>3
  <2>8. AtCommit'
    <3> SUFFICES ASSUME NEW p \in Requests, req'[p].at = "commit", req'[p].in.rep # None
                 PROVE  Granted(p)'
      BY DEF AtCommit
    <3>1. CASE p = q
      BY <3>1, <2>2, <2>3 DEF Granted, Mine
    <3>2. CASE p # q
      <4>1. Granted(p) /\ req'[p] = req[p]
        BY <3>2, <2>3 DEF DogInv, AtCommit
      <4>2. CASE req[p].in.rep \in Mine(p)
        BY <3>2, <4>1, <4>2, <2>2, <1>0 DEF Granted, Mine, Free
      <4>3. CASE req[p].in.rep \notin Mine(p)
        <5>1. dogs[req[p].in.rep] = None /\ \A x \in Requests : req[p].in.rep \notin Mine(x)
          BY <4>1, <4>3 DEF Granted
        <5>2. req[p].in.rep # d
          BY <5>1, <1>1 DEF Visible, Value
        <5> QED
          BY <1>0, <3>2, <4>1, <5>1, <5>2, <2>2 DEF Granted, Mine
      <4> QED
        BY <4>2, <4>3
    <3> QED
      BY <3>1, <3>2
  <2> QED
    BY <2>4, <2>5, <2>6, <2>7, <2>8 DEF DogInv
<1>2. CASE Abort(q)
  BY <1>0, <1>2, AbortKeeps
<1>3. CASE d \notin Visible(q) /\ req[q].in.op = "upsert" /\ Goto(q, "commit") /\ UNCHANGED ov
  <2>1. /\ req' \in [Requests -> [at : Places, in : Asks, seen : SUBSET Ids]]
        /\ \A p \in Requests : req'[p].in = req[p].in
        /\ \A p \in Requests \ {q} : req'[p] = req[p]
        /\ req'[q].at = "commit"
    BY <1>3 DEF DogInv, Typed, Goto, Places
  <2>2. Typed'
    BY <1>0, <1>3, <2>1 DEF DogInv, Typed, Mine
  <2>3. Locks' /\ Ended' /\ OneCommitted' /\ Answered' /\ OneWriter' /\ OthersPlain'
    BY <1>0, <1>3, <2>1 DEF DogInv, Locks, Ended, OneCommitted, Answered, OneWriter, OthersPlain,
       Mine, Value
  <2>4. d \in Ids => Granted(q)
    BY <1>0, <1>3 DEF DogInv, Typed, Granted, Visible, Value, Free
  <2>5. AtCommit'
    BY <1>0, <1>3, <2>1, <2>4 DEF DogInv, Typed, Asks, AtCommit, Granted, Mine
  <2> QED
    BY <2>2, <2>3, <2>5 DEF DogInv
<1> QED
  BY <1>1, <1>2, <1>3 DEF set_representative

(* The commit: what the transaction sees becomes what is committed.        *)
LEMMA CommitKeeps ==
    ASSUME RequestsAreSound, DogInv, NEW q \in Requests, commit(q)
    PROVE  DogInv'
<1>1. /\ DOMAIN ov' = Requests
      /\ \A p \in Requests \ {q} : ov'[p] = ov[p]
      /\ Mine(q)' = {}
  BY DEF DogInv, Typed, commit, Mine
<1>2. /\ req' \in [Requests -> [at : Places, in : Asks, seen : SUBSET Ids]]
      /\ \A p \in Requests : req'[p].in = req[p].in
      /\ \A p \in Requests \ {q} : req'[p] = req[p]
      /\ req'[q].at = "done" /\ req[q].at = "commit"
      /\ asked' = req[q].in.rep
  BY DEF DogInv, Typed, commit, Goto, Places
<1>3. \A d \in Ids : Value(q, d) \in Values /\ dogs'[d] = Value(q, d)
  BY DEF DogInv, Typed, commit, Value
<1>4. Typed'
  <2>1. dogs' \in [Ids -> Values]
    BY <1>3 DEF commit
  <2> QED
    BY <2>1, <1>1, <1>2 DEF DogInv, Typed, Asks, Mine
<1>5. Locks' /\ Ended'
  BY <1>1, <1>2 DEF DogInv, Locks, Ended, Mine
<1>6. OneCommitted'
  BY <1>3 DEF DogInv, OneCommitted, OthersPlain, Value
<1>7. OneWriter'
  BY <1>1 DEF DogInv, OneWriter, Mine
<1>8. OthersPlain'
  <2> SUFFICES ASSUME NEW p \in Requests, NEW d \in Mine(p)', ov'[p][d] = "rep", NEW e \in Ids, Value(p, e)' = "rep"
               PROVE  e = d
    BY DEF OthersPlain
  <2>1. p # q /\ ov'[p] = ov[p]
    BY <1>1
  <2>2. \A x \in Mine(q) : ov[q][x] # "rep"
    BY <2>1 DEF DogInv, OneWriter, Mine
  <2>3. Value(p, e) = "rep"
    BY <1>3, <2>1, <2>2 DEF Value, Mine
  <2> QED
    BY <2>1, <2>3 DEF DogInv, OthersPlain, Mine
<1>9. AtCommit'
  <2> SUFFICES ASSUME NEW p \in Requests, req'[p].at = "commit", req'[p].in.rep # None
               PROVE  Granted(p)'
    BY DEF AtCommit
  <2>1. p # q /\ req'[p] = req[p] /\ Granted(p) /\ ov'[p] = ov[p]
    BY <1>1, <1>2 DEF DogInv, AtCommit
  <2>2. req[p].in.rep \in Ids
    BY <2>1 DEF DogInv, Typed, Asks
  <2> QED
    BY <1>1, <1>3, <2>1, <2>2 DEF Granted, Value, Mine
<1>10. Answered'
  <2> SUFFICES ASSUME req[q].in.rep # None
               PROVE  Value(q, req[q].in.rep) \in {None, "rep"}
    BY <1>2, <1>3, <1>4 DEF Answered, Typed
  <2> QED
    BY <1>2 DEF DogInv, AtCommit, Granted, Value
<1> QED
  BY <1>4, <1>5, <1>6, <1>7, <1>8, <1>9, <1>10 DEF DogInv
-----------------------------------------------------------------------------
(* A step of q: the requests of the others stay, that of q does not start  *)
(* over, and the rows it writes or commits are rows it sees or inserts.    *)
LEMMA BornStep ==
    ASSUME Typed, BornInv, NEW q \in Requests, DOMAIN ov' = Requests,
           \A p \in Requests : p # q => req'[p] = req[p] /\ ov'[p] = ov[p],
           Past(q) => Past(q)' /\ req'[q].in = req[q].in,
           \A d \in Mine(q)' : Born(d) \/ Born(d)',
           \A d \in Ids : dogs'[d] # None => dogs[d] # None \/ d \in Mine(q),
           Named(q)' => Born(req'[q].in.rep) \/ (Named(q) /\ req'[q].in = req[q].in)
    PROVE  BornInv'
<1>1. ASSUME NEW d, Born(d) PROVE Born(d)'
  <2>1. CASE d \in Existing BY <2>1 DEF Born
  <2>2. ASSUME NEW p \in Requests, Past(p), d \in req[p].in.new PROVE Born(d)'
    <3>1. Past(p)' /\ req'[p].in = req[p].in BY <2>2 DEF Past
    <3> QED BY <2>2, <3>1 DEF Born
  <2> QED BY <1>1, <2>1, <2>2 DEF Born
<1>2. ASSUME NEW d \in Ids, dogs'[d] # None PROVE Born(d)' BY <1>1, <1>2 DEF BornInv
<1>3. ASSUME NEW p \in Requests, NEW d \in Mine(p)' PROVE Born(d)'
  <2>1. CASE p = q BY <1>1, <1>3, <2>1
  <2>2. CASE p # q
    <3>1. d \in Mine(p) BY <1>3, <2>2 DEF Mine
    <3> QED BY <1>1, <3>1 DEF BornInv
  <2> QED BY <2>1, <2>2
<1>4. ASSUME NEW p \in Requests, Named(p)' PROVE Born(req[p].in.rep)'
  <2>1. CASE p = q
    <3>1. Born(req'[q].in.rep) BY <1>4, <2>1 DEF BornInv
    <3> QED BY <1>1, <2>1, <3>1
  <2>2. CASE p # q
    <3>1. req'[p] = req[p] /\ Named(p) BY <1>4, <2>2 DEF Named
    <3>2. Born(req'[p].in.rep) BY <3>1 DEF BornInv
    <3> QED BY <1>1, <3>2
  <2> QED BY <2>1, <2>2
<1> QED BY <1>2, <1>3, <1>4 DEF BornInv

\* A dog a request sees was inserted.
LEMMA SeenIsBorn == ASSUME BornInv, NEW q \in Requests, NEW d \in Visible(q) PROVE Born(d)
<1>1. CASE d \in Mine(q) BY <1>1 DEF BornInv
<1>2. CASE d \notin Mine(q) BY <1>2 DEF BornInv, Visible, Value
<1> QED BY <1>1, <1>2

(* A statement that writes rows the request sees, or its own new ones once *)
(* it is past their insertion.                                             *)
LEMMA BornWrite ==
    ASSUME Typed, BornInv, NEW q \in Requests, NEW ds, NEW v, NEW at, Write(q, ds, v), Goto(q, at),
           UNCHANGED dogs, req[q].at # "idle", at \notin {"idle", "done"}, req[q].at # "done",
           Past(q) => at \notin {"update", "create"},
           \A d \in ds : d \in Visible(q) \/ (d \in req[q].in.new /\ at \notin {"update", "create"})
    PROVE  BornInv'
<1>1. /\ DOMAIN ov' = Requests
      /\ \A p \in Requests : p # q => ov'[p] = ov[p]
      /\ Mine(q)' = Mine(q) \cup ds
  BY DEF Typed, Write, Mine
<1>2. /\ \A p \in Requests : p # q => req'[p] = req[p]
      /\ req'[q].at = at /\ req'[q].in = req[q].in
  BY DEF Typed, Goto
<1>3. Past(q) => Past(q)' BY <1>2 DEF Past
<1>4. ASSUME NEW d \in Mine(q)' PROVE Born(d) \/ Born(d)'
  <2>1. CASE d \in Mine(q) BY <2>1 DEF BornInv
  <2>2. CASE d \in Visible(q) BY <2>2, SeenIsBorn
  <2>3. CASE d \in req[q].in.new /\ at \notin {"update", "create"}
    <3>1. Past(q)' /\ d \in req'[q].in.new BY <1>2, <2>3 DEF Past
    <3> QED BY <3>1 DEF Born
  <2> QED BY <1>1, <1>4, <2>1, <2>2, <2>3
<1>5. Named(q)' => Named(q) BY <1>2 DEF Named
<1> QED BY <1>1, <1>2, <1>3, <1>4, <1>5, BornStep

\* A transaction that ends, by a commit or a rollback.
LEMMA BornEnd ==
    ASSUME Typed, BornInv, NEW q \in Requests, req[q].at \notin {"idle", "done"},
           ov' = [ov EXCEPT ![q] = <<>>], Goto(q, "done"),
           \A d \in Ids : dogs'[d] # None => dogs[d] # None \/ d \in Mine(q)
    PROVE  BornInv'
<1>1. /\ DOMAIN ov' = Requests
      /\ \A p \in Requests : p # q => ov'[p] = ov[p]
      /\ Mine(q)' = {}
  BY DEF Typed, Mine
<1>2. /\ \A p \in Requests : p # q => req'[p] = req[p]
      /\ req'[q].at = "done" /\ req'[q].in = req[q].in
  BY DEF Typed, Goto
<1>3. Past(q)' BY <1>2 DEF Past
<1>4. ~Named(q)' BY <1>2 DEF Named
<1> QED BY <1>1, <1>2, <1>3, <1>4, BornStep

\* At first only the existing dogs are there.
LEMMA BornInit == ASSUME Init PROVE BornInv
<1>1. \A q \in Requests : Mine(q) = {} /\ ~Named(q) BY DEF Init, Mine, Named, NoReq
<1>2. \A d \in Ids : dogs[d] # None => d \in Existing BY DEF Init
<1> QED BY <1>1, <1>2 DEF BornInv, Born

\* Every step of a request keeps it.
LEMMA BornNext == ASSUME RequestsAreSound, DogInv, BornInv, [Next]_vars PROVE BornInv'
<1>0. CASE UNCHANGED vars BY <1>0 DEF vars, BornInv, Born, Named, Past, Mine
<1> SUFFICES ASSUME NEW q \in Requests,
                    \/ upsert_dog_profile(q) \/ bulk_update_by_owner(q) \/ create_many(q)
                    \/ bulk_delete_by_owner_ids(q) \/ set_representative_dog(q) \/ clear_snapshot(q)
                    \/ clear_representative(q) \/ set_representative(q) \/ commit(q) \/ rollback(q)
             PROVE  BornInv'
  BY <1>0 DEF Next
<1>a. Typed /\ DOMAIN ov = Requests BY DEF DogInv, Typed
<1>1. CASE upsert_dog_profile(q)
  <2>1. PICK in \in Inputs[q] :
           /\ req[q].at = "idle" /\ in.op = "upsert"
           /\ req' = [req EXCEPT ![q] = [at |-> IF in.keep \subseteq Visible(q) THEN "update" ELSE "done",
                                         in |-> in, seen |-> Visible(q)]]
           /\ UNCHANGED <<dogs, ov, asked>>
    BY <1>1 DEF upsert_dog_profile
  <2>2. /\ req'[q].at = (IF in.keep \subseteq Visible(q) THEN "update" ELSE "done") /\ req'[q].in = in
    BY <2>1, <1>a DEF Typed
  <2>3. ASSUME Named(q)' PROVE Born(in.rep)
    <3>1. in.keep \subseteq Visible(q) /\ in.rep # None /\ in.rep \notin in.new BY <2>2, <2>3 DEF Named
    <3>2. in.rep \in in.keep \cup in.new \cup {None} BY <2>1 DEF RequestsAreSound
    <3> QED BY <3>1, <3>2, SeenIsBorn
  <2>4. ~Past(q) /\ Mine(q)' = Mine(q) BY <2>1 DEF Past, Mine
  <2>5. \A p \in Requests : p # q => req'[p] = req[p] /\ ov'[p] = ov[p] BY <2>1, <1>a DEF Typed
  <2>6. Named(q)' => Born(req'[q].in.rep) BY <2>2, <2>3
  <2>7. \A d \in Mine(q)' : Born(d) BY <2>4 DEF BornInv
  <2> QED BY <2>1, <2>4, <2>5, <2>6, <2>7, <1>a, BornStep
<1>2. CASE bulk_update_by_owner(q)
  <2>1. /\ Write(q, req[q].in.keep \cap Visible(q), "plain") /\ Goto(q, "create") /\ req[q].at = "update"
        /\ UNCHANGED dogs /\ ~Past(q)
    BY <1>2 DEF bulk_update_by_owner, Past
  <2> QED BY <2>1, <1>a, BornWrite
<1>3. CASE create_many(q)
  <2>1. Write(q, req[q].in.new, "plain") /\ Goto(q, "delete") /\ req[q].at = "create" /\ UNCHANGED dogs
    BY <1>3 DEF create_many
  <2> QED BY <2>1, <1>a, BornWrite
<1>4. CASE bulk_delete_by_owner_ids(q)
  <2> DEFINE ds == (req[q].seen \ (req[q].in.keep \cup req[q].in.new)) \cap Visible(q)
             at == IF req[q].in.rep = None THEN "commit" ELSE "clear"
  <2>1. Write(q, ds, None) /\ Goto(q, at) /\ req[q].at = "delete" /\ UNCHANGED dogs
    BY <1>4 DEF bulk_delete_by_owner_ids
  <2>2. ds \subseteq Visible(q) /\ at \in {"commit", "clear"} OBVIOUS
  <2> HIDE DEF ds, at
  <2> QED BY <2>1, <2>2, <1>a, BornWrite
<1>5. CASE set_representative_dog(q)
  <2>1. PICK in \in Inputs[q] :
           /\ req[q].at = "idle" /\ in.op = "set"
           /\ req' = [req EXCEPT ![q] = [at |-> IF dogs[in.rep] # None THEN "clear" ELSE "done",
                                         in |-> in, seen |-> {}]]
           /\ UNCHANGED <<dogs, ov, asked>>
    BY <1>5 DEF set_representative_dog
  <2>2. /\ req'[q].at = (IF dogs[in.rep] # None THEN "clear" ELSE "done") /\ req'[q].in = in
    BY <2>1, <1>a DEF Typed
  <2>3. ASSUME Named(q)' PROVE Born(in.rep)
    <3>1. dogs[in.rep] # None BY <2>2, <2>3 DEF Named
    <3>2. in.rep \in Ids BY <2>1 DEF RequestsAreSound
    <3> QED BY <3>1, <3>2 DEF BornInv
  <2>4. ~Past(q) /\ Mine(q)' = Mine(q) BY <2>1 DEF Past, Mine
  <2>5. \A p \in Requests : p # q => req'[p] = req[p] /\ ov'[p] = ov[p] BY <2>1, <1>a DEF Typed
  <2>6. Named(q)' => Born(req'[q].in.rep) BY <2>2, <2>3
  <2>7. \A d \in Mine(q)' : Born(d) BY <2>4 DEF BornInv
  <2> QED BY <2>1, <2>4, <2>5, <2>6, <2>7, <1>a, BornStep
<1>6. CASE clear_snapshot(q)
  <2>1. /\ req' = [req EXCEPT ![q] = [at |-> "clear rows", in |-> req[q].in, seen |-> Visible(q)]]
        /\ req[q].at = "clear" /\ UNCHANGED <<dogs, ov, asked>>
    BY <1>6 DEF clear_snapshot
  <2>2. req'[q].in = req[q].in /\ Mine(q)' = Mine(q) BY <2>1, <1>a DEF Typed, Mine
  <2>3. Named(q)' => Named(q) BY <2>1, <2>2 DEF Named
  <2>4. \A p \in Requests : p # q => req'[p] = req[p] /\ ov'[p] = ov[p] BY <2>1, <1>a DEF Typed
  <2>5. Past(q)' BY <2>1, <1>a DEF Past, Typed
  <2>6. \A d \in Mine(q)' : Born(d) BY <2>2 DEF BornInv
  <2>7. UNCHANGED dogs /\ DOMAIN ov' = Requests BY <2>1, <1>a
  <2> QED BY <2>2, <2>3, <2>4, <2>5, <2>6, <2>7, <1>a, BornStep
<1>7. CASE clear_representative(q)
  <2> DEFINE ds == req[q].seen \cap Visible(q)
  <2>1. Write(q, ds, "plain") /\ Goto(q, "set") /\ req[q].at = "clear rows" /\ UNCHANGED dogs
    BY <1>7 DEF clear_representative
  <2>2. ds \subseteq Visible(q) OBVIOUS
  <2> HIDE DEF ds
  <2> QED BY <2>1, <2>2, <1>a, BornWrite
<1>8. CASE set_representative(q)
  <2> DEFINE d == req[q].in.rep
  <2>0. req[q].at = "set" /\ UNCHANGED dogs BY <1>8 DEF set_representative
  <2>1. CASE d \in Visible(q) /\ Write(q, {d}, "rep") /\ Goto(q, "commit")
    BY <2>0, <2>1, <1>a, BornWrite
  <2>2. CASE Abort(q) BY <2>0, <2>2, <1>a, BornEnd DEF Abort, Goto
  <2>3. CASE Goto(q, "commit") /\ UNCHANGED ov
    <3>1. /\ \A p \in Requests : p # q => req'[p] = req[p]
          /\ req'[q].at = "commit" /\ req'[q].in = req[q].in
      BY <2>3, <1>a DEF Typed, Goto
    <3>2. Past(q)' /\ (Named(q)' => Named(q)) BY <2>0, <3>1 DEF Past, Named
    <3>3. Mine(q)' = Mine(q) BY <2>3 DEF Mine
    <3>4. \A e \in Mine(q)' : Born(e) BY <3>3 DEF BornInv
    <3> QED BY <2>0, <2>3, <3>1, <3>2, <3>4, <1>a, BornStep
  <2> QED BY <1>8, <2>1, <2>2, <2>3 DEF set_representative
<1>9. CASE commit(q)
  <2>1. /\ req[q].at = "commit" /\ ov' = [ov EXCEPT ![q] = <<>>] /\ Goto(q, "done")
        /\ \A d \in Ids : dogs'[d] = Value(q, d)
    BY <1>9 DEF commit
  <2>2. \A d \in Ids : dogs'[d] # None => dogs[d] # None \/ d \in Mine(q) BY <2>1 DEF Value
  <2> QED BY <2>1, <2>2, <1>a, BornEnd
<1>10. CASE rollback(q) BY <1>10, <1>a, BornEnd DEF rollback, Abort, Goto
<1> QED BY <1>1, <1>2, <1>3, <1>4, <1>5, <1>6, <1>7, <1>8, <1>9, <1>10

(* A new dog is not one that another request names: ids are made once.     *)
LEMMA NewIsNotNamed ==
    ASSUME RequestsAreSound, DogInv, BornInv, NEW q \in Requests, req[q].at = "create",
           NEW p \in Requests, p # q, req[p].at = "commit"
    PROVE  req[p].in.rep \notin req[q].in.new
<1> DEFINE d == req[p].in.rep
<1> SUFFICES ASSUME d \in req[q].in.new PROVE FALSE OBVIOUS
<1>1. /\ req[q].in \in Inputs[q]
      /\ \A x \in Requests : req[x].at # "idle" => req[x].in \in Inputs[x]
  BY DEF DogInv, Typed
<1>2. \A x \in Requests : x # q /\ req[x].at # "idle" => d \notin req[x].in.new
  BY <1>1 DEF RequestsAreSound
<1>3. d \notin Existing /\ d # None
  <2>1. req[q].in \in Asks /\ req[q].in.new \cap Existing = {} BY <1>1 DEF RequestsAreSound
  <2>2. d \in Ids BY <2>1 DEF Asks
  <2> QED BY <2>1, <2>2 DEF RequestsAreSound
<1>4. Named(p) BY <1>2, <1>3 DEF Named
<1>5. Born(d) BY <1>4 DEF BornInv
<1>6. PICK x \in Requests : Past(x) /\ d \in req[x].in.new BY <1>3, <1>5 DEF Born
<1> QED BY <1>2, <1>6 DEF Past

\* At the start nothing is held and at most one row is marked.
LEMMA DogInit == ASSUME RequestsAreSound, Init PROVE DogInv
<1>1. \A q \in Requests : Mine(q) = {}
  BY DEF Init, Mine
<1>2. Typed
  BY <1>1 DEF Init, Typed, Values, Asks, NoReq, Mine, Places
<1> QED
  BY <1>1, <1>2 DEF DogInv, Init, Locks, Ended, OneCommitted, OneWriter, OthersPlain, AtCommit,
     Answered, NoReq, None

\* Every step of a request on the dog profiles keeps the invariant.
LEMMA DogNext == ASSUME RequestsAreSound, DogInv, BornInv, [Next]_vars PROVE DogInv'
<1>0. CASE UNCHANGED vars
  BY <1>0 DEF vars, DogInv, Typed, Locks, Ended, OneCommitted, OneWriter, OthersPlain, AtCommit,
     Granted,
              Answered, Mine, Value
<1> SUFFICES ASSUME NEW q \in Requests,
                    \/ upsert_dog_profile(q) \/ bulk_update_by_owner(q) \/ create_many(q)
                    \/ bulk_delete_by_owner_ids(q) \/ set_representative_dog(q) \/ clear_snapshot(q)
                    \/ clear_representative(q) \/ set_representative(q) \/ commit(q) \/ rollback(q)
             PROVE  DogInv'
  BY <1>0 DEF Next
<1>1. CASE upsert_dog_profile(q)
  <2>1. PICK in \in Inputs[q] :
           /\ req[q].at = "idle"
           /\ req' = [req EXCEPT ![q] = [at |-> IF in.keep \subseteq Visible(q) THEN "update" ELSE "done",
                                         in |-> in, seen |-> Visible(q)]]
           /\ UNCHANGED <<dogs, ov, asked>>
    BY <1>1 DEF upsert_dog_profile
  <2> DEFINE r == [at |-> IF in.keep \subseteq Visible(q) THEN "update" ELSE "done", in |-> in, seen |-> Visible(q)]
  <2>2. /\ r \in [at : Places, in : Asks, seen : SUBSET Ids] /\ r.in \in Inputs[q] /\ r.at # "commit"
        /\ Mine(q) = {}
    BY <2>1 DEF DogInv, Ended, RequestsAreSound, Visible, Places
  <2> QED
    BY <2>1, <2>2, ReadKeeps
<1>2. CASE bulk_update_by_owner(q)
  <2> DEFINE ds == req[q].in.keep \cap Visible(q)
  <2>1. /\ ds \in SUBSET Ids /\ ds \subseteq Visible(q) /\ Free(q, ds)
        /\ Write(q, ds, "plain") /\ Goto(q, "create") /\ req[q].at = "update" /\ UNCHANGED <<dogs, asked>>
    BY <1>2 DEF bulk_update_by_owner, Free, Visible
  <2> QED
    BY <2>1, PlainWriteKeeps DEF Places
<1>3. CASE create_many(q)
  <2>1. /\ req[q].in.new \in SUBSET Ids /\ Free(q, req[q].in.new)
        /\ Write(q, req[q].in.new, "plain") /\ Goto(q, "delete") /\ req[q].at = "create" /\ UNCHANGED <<dogs, asked>>
    BY <1>3 DEF create_many, DogInv, Typed, Asks
  <2>2. \A p \in Requests : p # q /\ req[p].at = "commit" => req[p].in.rep \notin req[q].in.new \ Visible(q)
    BY <2>1, NewIsNotNamed
  <2> QED
    BY <2>1, <2>2, PlainWriteKeeps DEF Places
<1>4. CASE bulk_delete_by_owner_ids(q)
  <2> DEFINE ds == (req[q].seen \ (req[q].in.keep \cup req[q].in.new)) \cap Visible(q)
             at == IF req[q].in.rep = None THEN "commit" ELSE "clear"
  <2>1. /\ ds \in SUBSET Ids /\ ds \subseteq Visible(q) /\ Free(q, ds)
        /\ Write(q, ds, None) /\ Goto(q, at) /\ req[q].at = "delete" /\ UNCHANGED <<dogs, asked>>
    BY <1>4 DEF bulk_delete_by_owner_ids, Free, Visible
  <2> HIDE DEF ds
  <2> QED
    BY <2>1, PlainWriteKeeps DEF Places
<1>5. CASE set_representative_dog(q)
  <2>1. PICK in \in Inputs[q] :
           /\ req[q].at = "idle"
           /\ req' = [req EXCEPT ![q] = [at |-> IF dogs[in.rep] # None THEN "clear" ELSE "done",
                                         in |-> in, seen |-> {}]]
           /\ UNCHANGED <<dogs, ov, asked>>
    BY <1>5 DEF set_representative_dog
  <2> DEFINE r == [at |-> IF dogs[in.rep] # None THEN "clear" ELSE "done", in |-> in, seen |-> {}]
  <2>2. /\ r \in [at : Places, in : Asks, seen : SUBSET Ids] /\ r.in \in Inputs[q] /\ r.at # "commit"
        /\ Mine(q) = {}
    BY <2>1 DEF DogInv, Ended, RequestsAreSound, Places
  <2> QED
    BY <2>1, <2>2, ReadKeeps
<1>6. CASE clear_snapshot(q)
  <2> DEFINE r == [at |-> "clear rows", in |-> req[q].in, seen |-> Visible(q)]
  <2>1. /\ r \in [at : Places, in : Asks, seen : SUBSET Ids] /\ r.in \in Inputs[q]
        /\ r.at \notin {"commit", "idle", "done"}
        /\ req' = [req EXCEPT ![q] = r] /\ UNCHANGED <<dogs, ov, asked>>
    BY <1>6 DEF clear_snapshot, DogInv, Typed, Visible, Places
  <2> QED
    BY <2>1, ReadKeeps
<1>7. CASE clear_representative(q)
  <2> DEFINE ds == req[q].seen \cap Visible(q)
  <2>1. /\ ds \in SUBSET Ids /\ ds \subseteq Visible(q) /\ Free(q, ds)
        /\ Write(q, ds, "plain") /\ Goto(q, "set") /\ req[q].at = "clear rows" /\ UNCHANGED <<dogs, asked>>
    BY <1>7 DEF clear_representative, Free, Visible
  <2> QED
    BY <2>1, PlainWriteKeeps DEF Places
<1>8. CASE set_representative(q)
  BY <1>8, SetKeeps
<1>9. CASE commit(q)
  BY <1>9, CommitKeeps
<1>10. CASE rollback(q)
  BY <1>10, AbortKeeps DEF rollback
<1> QED
  BY <1>1, <1>2, <1>3, <1>4, <1>5, <1>6, <1>7, <1>8, <1>9, <1>10

\* The invariant says what the property does.
LEMMA InvGivesOne == ASSUME DogInv PROVE OneRepresentative
<1> DEFINE R == {d \in Ids : dogs[d] = "rep"}
<1>1. CASE R = {}
  BY <1>1, FS_EmptySet DEF DogInv, Answered, OneRepresentative
<1>2. CASE R # {}
  <2>1. PICK d \in R : TRUE
    BY <1>2
  <2>2. R = {d}
    BY <2>1 DEF DogInv, OneCommitted
  <2>3. Cardinality(R) = 1
    BY <2>2, FS_Singleton
  <2> QED
    BY <2>3 DEF DogInv, Answered, OneRepresentative
<1> QED
  BY <1>1, <1>2

(* An owner never has two representative dogs committed, and the dog the   *)
(* last commit asked for is the one or is gone, for any set of concurrent  *)
(* requests (set_representative, upsert_dog_profile and the partial unique *)
(* index).                                                                 *)
THEOREM RepresentativeIsUnique == ASSUME RequestsAreSound PROVE Spec => []OneRepresentative
<1>1. Init => DogInv /\ BornInv
  BY DogInit, BornInit
<1>2. DogInv /\ BornInv /\ [Next]_vars => DogInv' /\ BornInv'
  BY DogNext, BornNext
<1>3. DogInv => OneRepresentative
  BY InvGivesOne
<1> QED
  BY <1>1, <1>2, <1>3, PTL DEF Spec
=============================================================================
