------------------------ MODULE DesignServices_proofs ------------------------
(***************************************************************************)
(* What the services around a design do, for any users, calls, designs,    *)
(* layers, jobs and limits: each section is about one component.           *)
(***************************************************************************)
EXTENDS MCDesignServices, Sequences, FiniteSetTheorems, TLAPS

(***************************************************************************)
(* The life of a design.  A call goes from await to await; LifePath says   *)
(* which operations stop at a step, and where the call carries a revision. *)
(***************************************************************************)
Revs == 0..MaxRevision
Written == 1..MaxRevision

LifeCall ==
    [op : Life!Reads \cup Life!Writes \cup {"none"}, step : Life!Steps,
     who : Users \cup {"none"}, rev : Revs, with : Revs, lay : Revs, saw : BOOLEAN]
LifeCache ==
    [meta : SUBSET (Written \X Revs), layers : SUBSET Revs, canvas : SUBSET Written,
     state : SUBSET (Written \X Revs \X Revs \X Written)]

LifePath(x) ==
    /\ x.op = "none" => x.step \in {"idle", "served"}
    /\ x.op # "none" => x.who \in Users
    /\ x.step = "cached" => x.op \in Life!Reads
    /\ x.step \in {"meta", "find", "check", "store"} => x.op \in {"get", "state"}
    /\ x.step = "storeLayers" => x.op \in {"get", "state", "layers"}
    /\ x.step \in {"stateLayers", "stateStore"} => x.op = "state"
    /\ x.step \in {"write", "clear"} => x.op \in Life!Writes
    /\ x.step = "commit" => x.op = "fork"
    /\ x.step = "validate" => x.op = "publish"
    /\ x.step = "reread" => x.op \in {"update", "publish", "unpublish", "archive"}
    /\ x.step = "refill" => x.op \in {"update", "canvasUpdate"}
    /\ \/ x.step \in {"check", "store", "stateLayers", "stateStore", "refill"}
       \/ x.step = "storeLayers" /\ x.op # "layers"
       \/ x.step = "clear" /\ x.op \in {"update", "canvasUpdate"}
       => x.rev \in Written

(* Whoever may see the design now has seen it open, and nothing is handed  *)
(* out or copied for anybody who has not.                                  *)
Entitled(x) ==
    /\ x.op # "none" /\ Life!Allowed(x.who, Life!RoleFor(x.op), design.visibility) => x.saw
    /\ x.step \in {"served", "storeLayers", "stateLayers", "stateStore"} => x.saw
    /\ x.step = "cached" /\ x.op \in {"layers", "canvas"} => x.saw

(* While no calls overlap, a call that is between its write and its        *)
(* invalidation is the only excuse for a stale entry that no write left    *)
(* out, and what a call carries is current unless it comes from such one.  *)
RowDirty(x) == x.step = "reread" \/ (x.step = "clear" /\ x.op \notin {"layer", "canvasUpdate"})
LayersDirty(x) == x.step = "clear" /\ x.op = "layer"
CanvasDirty(x) == x.step = "clear" /\ x.op = "canvasUpdate"

HasRow(x) == x.rev = design.rev /\ x.with = layerRev
Carries(x) ==
    /\ x.step = "store" => HasRow(x)
    /\ x.step \in {"check", "stateLayers", "stateStore"} => "meta" \in missed \/ HasRow(x)
    /\ x.step = "storeLayers" /\ x.op # "layers" => "meta" \in missed \/ HasRow(x)
    /\ x.step \in {"store", "storeLayers", "stateStore"} => x.lay = layerRev
    /\ x.step \in {"clear", "refill"} /\ x.op = "update" => HasRow(x)
    /\ x.step \in {"clear", "refill"} /\ x.op = "canvasUpdate" => x.rev = canvasRev

Idles(r) == Life!At(r, "idle")
AloneInv == ~overlap => \A q, r \in Requests : q # r => Idles(q) \/ Idles(r)
CarryInv == ~overlap => \A r \in Requests : Carries(req[r])
MetaFresh == "meta" \in missed \/ cache.meta \subseteq {<<design.rev, layerRev>>}
LayersFresh == "layers" \in missed \/ cache.layers \subseteq {layerRev}
CanvasFresh == "canvas" \in missed \/ cache.canvas \subseteq {canvasRev}
StateFresh == "state" \in missed
                \/ cache.state \subseteq {<<design.rev, layerRev, layerRev, canvasRev>>}
FreshInv ==
    ~overlap =>
        /\ (\E r \in Requests : RowDirty(req[r])) \/ MetaFresh
        /\ (\E r \in Requests : RowDirty(req[r]) \/ LayersDirty(req[r])) \/ LayersFresh
        /\ (\E r \in Requests : RowDirty(req[r]) \/ CanvasDirty(req[r])) \/ CanvasFresh
        /\ (\E r \in Requests : RowDirty(req[r]) \/ LayersDirty(req[r]) \/ CanvasDirty(req[r]))
              \/ StateFresh

LifeRows ==
    /\ design \in Life!Design /\ layerRev \in Revs /\ canvasRev \in Written
    /\ cache \in LifeCache /\ missed \subseteq Life!Keys
LifeBooks == overlap \in BOOLEAN /\ calls \in 0..MaxCalls
LifeCalls == req \in [Requests -> LifeCall]
LifePaths == \A r \in Requests : LifePath(req[r])
LifeSaw == \A r \in Requests : Entitled(req[r])

LifeInv ==
    /\ LifeRows /\ LifeBooks /\ LifeCalls /\ LifePaths /\ LifeSaw
    /\ AloneInv /\ CarryInv /\ FreshInv

-----------------------------------------------------------------------------
(* Revisions, apart from arithmetic.                                       *)
LEMMA Revisions ==
    /\ 0 \in Revs /\ 1 \in Written /\ Written \subseteq Revs /\ 0 \notin Written
    /\ MaxRevision \in Nat /\ MaxCalls \in Nat
BY LimitsAssumption DEF Revs, Written

(* The row has a revision that was written.                                *)
LEMMA RowRevision == ASSUME design \in Life!Design PROVE design.rev \in Written
BY DEF Life!Design, Written

(* What a call is after each kind of move, field by field.                 *)
Others(r) == \A q \in Requests \ {r} : req'[q] = req[q]
Kept(r) == req'[r].op = req[r].op /\ req'[r].who = req[r].who /\ req'[r].saw = req[r].saw

(* A call goes to its next step.                                           *)
LEMMA GoFields ==
    ASSUME LifeCalls, NEW r \in Requests, NEW s \in Life!Steps, Life!Go(r, s)
    PROVE  /\ LifeCalls' /\ Others(r) /\ Kept(r)
           /\ req'[r].step = s /\ req'[r].rev = req[r].rev
           /\ req'[r].with = req[r].with /\ req'[r].lay = req[r].lay
BY DEF LifeCalls, LifeCall, Others, Kept, Life!Go

(* A call ends.                                                            *)
LEMMA FinishFields ==
    ASSUME LifeCalls, NEW r \in Requests, Life!Finish(r)
    PROVE  /\ LifeCalls' /\ Others(r)
           /\ req'[r].step = "idle" /\ req'[r].op = "none"
BY Revisions DEF LifeCalls, LifeCall, Others, Life!Finish, Life!Idle, Life!Steps

(* A call is served and has its answer to give.                            *)
LEMMA ServeFields ==
    ASSUME LifeCalls, NEW r \in Requests, Life!Serve(r)
    PROVE  /\ LifeCalls' /\ Others(r)
           /\ req'[r].step = "served" /\ req'[r].op = "none" /\ req'[r].saw = req[r].saw
BY Revisions DEF LifeCalls, LifeCall, Others, Life!Serve, Life!Idle, Life!Steps

(* A call goes on with a revision of the row in hand.                      *)
LEMMA RevFields ==
    ASSUME LifeCalls, NEW r \in Requests, NEW s \in Life!Steps, NEW n \in Revs,
           req' = [req EXCEPT ![r].step = s, ![r].rev = n]
    PROVE  /\ LifeCalls' /\ Others(r) /\ Kept(r)
           /\ req'[r].step = s /\ req'[r].rev = n /\ req'[r].lay = req[r].lay
BY DEF LifeCalls, LifeCall, Others, Kept

(* A call goes on with a revision of the layers in hand.                   *)
LEMMA LayFields ==
    ASSUME LifeCalls, NEW r \in Requests, NEW s \in Life!Steps, NEW m \in Revs,
           req' = [req EXCEPT ![r].step = s, ![r].lay = m]
    PROVE  /\ LifeCalls' /\ Others(r) /\ Kept(r)
           /\ req'[r].step = s /\ req'[r].rev = req[r].rev
           /\ req'[r].with = req[r].with /\ req'[r].lay = m
BY DEF LifeCalls, LifeCall, Others, Kept

-----------------------------------------------------------------------------
(* A call that moves while the others stay: what is to be shown of it.     *)
FreshFor(x) ==
    /\ RowDirty(x) \/ MetaFresh
    /\ RowDirty(x) \/ LayersDirty(x) \/ LayersFresh
    /\ RowDirty(x) \/ CanvasDirty(x) \/ CanvasFresh
    /\ RowDirty(x) \/ LayersDirty(x) \/ CanvasDirty(x) \/ StateFresh

CallMoves(r) ==
    /\ LifeCalls' /\ Others(r) /\ LifePath(req'[r]) /\ Entitled(req[r])'
    /\ ~overlap => Carries(req[r])'

(* While nothing overlapped, what the one call carries is fresh.           *)
LEMMA AloneFresh ==
    ASSUME LifeInv, NEW r \in Requests, ~Idles(r), ~overlap
    PROVE  FreshFor(req[r])
<1>1. \A q \in Requests \ {r} :
         ~RowDirty(req[q]) /\ ~LayersDirty(req[q]) /\ ~CanvasDirty(req[q])
  BY DEF LifeInv, AloneInv, Idles, Life!At, RowDirty, LayersDirty, CanvasDirty
<1>2. QED
  BY <1>1 DEF LifeInv, FreshInv, FreshFor

(* A step of one call that keeps the rows sound.                           *)
LEMMA OneMoves ==
    ASSUME LifeInv, NEW r \in Requests, ~Idles(r), CallMoves(r), LifeRows',
           ~overlap => FreshFor(req[r])',
           UNCHANGED <<overlap, calls, design.visibility>>
    PROVE  LifeInv'
<1>1. LifePaths' /\ LifeCalls'
  BY DEF LifeInv, LifePaths, CallMoves, Others
<1>2. LifeSaw'
  <2> SUFFICES ASSUME NEW q \in Requests PROVE Entitled(req[q])'
    BY DEF LifeSaw
  <2>1. CASE q = r
    BY <2>1 DEF CallMoves
  <2>2. CASE q # r
    BY <2>2 DEF CallMoves, Others, LifeInv, LifeSaw, Entitled, Life!Allowed
  <2>3. QED
    BY <2>1, <2>2
<1>3. AloneInv'
  BY DEF LifeInv, AloneInv, CallMoves, Others, Idles, Life!At
<1>4. CarryInv'
  <2> SUFFICES ASSUME ~overlap, NEW q \in Requests, q # r PROVE Carries(req[q])'
    BY DEF CarryInv, CallMoves
  <2>1. req'[q].step = "idle"
    BY DEF LifeInv, AloneInv, Idles, Life!At, CallMoves, Others
  <2>2. QED
    BY <2>1 DEF Carries
<1>5. FreshInv'
  BY DEF FreshInv, FreshFor
<1>6. LifeBooks'
  BY DEF LifeInv, LifeBooks
<1>7. QED
  BY <1>1, <1>2, <1>3, <1>4, <1>5, <1>6 DEF LifeInv

(* Nothing but the call changes, and it was not about to invalidate.       *)
LEMMA CallOnly ==
    ASSUME LifeInv, NEW r \in Requests, ~Idles(r), CallMoves(r),
           Life!KeepRows, Life!Same,
           req[r].step = "reread" \/
             ~(RowDirty(req[r]) \/ LayersDirty(req[r]) \/ CanvasDirty(req[r])),
           req[r].step = "reread" => RowDirty(req'[r])
    PROVE  LifeInv'
<1>1. LifeRows'
  BY DEF LifeInv, LifeRows, Life!KeepRows, Life!Same
<1>2. ~overlap => FreshFor(req[r])'
  BY AloneFresh DEF FreshFor, MetaFresh, LayersFresh, CanvasFresh, StateFresh, Life!KeepRows,
     Life!Same, RowDirty, LayersDirty, CanvasDirty
<1>3. UNCHANGED <<overlap, calls, design.visibility>>
  BY DEF Life!KeepRows
<1>4. QED
  BY <1>1, <1>2, <1>3, OneMoves

(* A call may end wherever it is.                                          *)
LEMMA CallEnds ==
    ASSUME LifeInv, NEW r \in Requests, ~Idles(r), Life!Finish(r), design' = design
    PROVE  CallMoves(r)
BY FinishFields DEF LifeInv, CallMoves, LifePath, Entitled, Carries

(* A call that was entitled at some time may be served.                    *)
LEMMA CallServed ==
    ASSUME LifeInv, NEW r \in Requests, ~Idles(r), Life!Serve(r), req[r].saw, design' = design
    PROVE  CallMoves(r)
BY ServeFields DEF LifeInv, CallMoves, LifePath, Entitled, Carries

-----------------------------------------------------------------------------
(* A call comes in.                                                        *)
LEMMA CallFields ==
    ASSUME LifeCalls, NEW r \in Requests, NEW x \in LifeCall, req' = [req EXCEPT ![r] = x]
    PROVE  LifeCalls' /\ Others(r) /\ req'[r] = x
BY DEF LifeCalls, Others

(* A call comes in.                                                        *)
LEMMA LifeStart ==
    ASSUME LifeInv, NEW r \in Requests, Life!Start(r)
    PROVE  LifeInv'
<1> PICK op \in Life!Reads \cup Life!Writes, u \in Users :
       req' = [req EXCEPT ![r] =
                 [Life!Idle EXCEPT !.op = op, !.who = u,
                              !.step = CASE op \in {"get", "state"} -> "cached"
                                         [] op = "view" -> "write"
                                         [] OTHER -> "access",
                              !.saw = Life!Allowed(u, Life!RoleFor(op), design.visibility)]]
  BY DEF Life!Start
<1>1. PICK x : /\ req' = [req EXCEPT ![r] = x]
               /\ x \in LifeCall /\ x.op = op /\ x.who = u
               /\ x.step \in {"cached", "write", "access"}
               /\ x.step = "cached" => op \in {"get", "state"}
               /\ x.step = "write" => op = "view"
               /\ x.saw = Life!Allowed(u, Life!RoleFor(op), design.visibility)
  <2>1. PICK b \in BOOLEAN : b = Life!Allowed(u, Life!RoleFor(op), design.visibility)
    BY DEF Life!Allowed
  <2>2. PICK s \in {"cached", "write", "access"} :
           /\ s = CASE op \in {"get", "state"} -> "cached" [] op = "view" -> "write"
                    [] OTHER -> "access"
           /\ s = "cached" => op \in {"get", "state"}
           /\ s = "write" => op = "view"
    OBVIOUS
  <2> DEFINE x == [Life!Idle EXCEPT !.op = op, !.who = u, !.step = s, !.saw = b]
  <2>3. req' = [req EXCEPT ![r] = x]
    BY <2>1, <2>2
  <2>4. s \in Life!Steps
    BY <2>2 DEF Life!Steps
  <2> HIDE DEF x
  <2>5. x \in LifeCall /\ x.op = op /\ x.who = u /\ x.step = s /\ x.saw = b
    BY <2>4, Revisions DEF x, LifeCall, Life!Idle
  <2>6. QED
    BY <2>1, <2>2, <2>3, <2>5
<1>4. LifeCalls' /\ Others(r) /\ req'[r] = x
  BY <1>1, CallFields DEF LifeInv
<1> USE DEF LifeInv, Life!Start, Life!At
<1>5. LifePath(req'[r])
  BY <1>1, <1>4 DEF LifePath, Life!Reads, Life!Writes
<1>6. LifePaths'
  BY <1>4, <1>5 DEF LifePaths, Others
<1>7. LifeSaw'
  <2>1. Entitled(req[r])'
    BY <1>1, <1>4 DEF Entitled
  <2>2. ASSUME NEW q \in Requests \ {r} PROVE Entitled(req[q])'
    BY <1>4 DEF Others, LifeSaw, Entitled
  <2>3. QED
    BY <2>1, <2>2 DEF LifeSaw
<1>8. LifeBooks'
  <2>1. overlap' \in BOOLEAN
    BY DEF LifeBooks
  <2>2. calls' \in 0..MaxCalls
    BY Revisions DEF LifeBooks
  <2>3. QED
    BY <2>1, <2>2 DEF LifeBooks
<1>9. LifeRows'
  BY DEF LifeRows
<1>10. AloneInv' /\ CarryInv' /\ FreshInv'
  <2> SUFFICES ASSUME ~overlap' PROVE AloneInv' /\ CarryInv' /\ FreshInv'
    BY DEF AloneInv, CarryInv, FreshInv
  <2>1. ~overlap /\ \A q \in Requests : req[q].step = "idle"
    OBVIOUS
  <2>2. \A q \in Requests : req'[q].step \in {"idle", "cached", "write", "access"}
    BY <1>1, <1>4, <2>1 DEF Others
  <2>3. AloneInv'
    BY <1>4, <2>1 DEF AloneInv, Others, Idles
  <2>4. CarryInv'
    BY <2>2 DEF CarryInv, Carries
  <2>5. FreshInv'
    BY <2>1 DEF FreshInv, MetaFresh, LayersFresh, CanvasFresh, StateFresh, RowDirty,
       LayersDirty, CanvasDirty
  <2>6. QED
    BY <2>3, <2>4, <2>5
<1>11. QED
  BY <1>4, <1>6, <1>7, <1>8, <1>9, <1>10

(* Its checks and reads, which leave rows and entries alone.               *)
LEMMA LifeReads ==
    ASSUME LifeInv, NEW r \in Requests,
           \/ Life!VerifyAccess(r) \/ Life!FindOriginal(r) \/ Life!CommitFork(r)
           \/ Life!GetCached(r) \/ Life!FindDesign(r) \/ Life!GetVerify(r)
           \/ Life!StateCached(r) \/ Life!StateLayers(r)
           \/ Life!ValidateDesignCompleteness(r) \/ Life!Reread(r) \/ Life!Answer(r)
    PROVE  LifeInv'
<1> USE DEF Life!At, Life!KeepRows, Life!Same, Kept
<1>1. LifePath(req[r]) /\ Entitled(req[r]) /\ req[r] \in LifeCall /\ LifeCalls
  BY DEF LifeInv, LifePaths, LifeSaw, LifeCalls
<1>2. design.rev \in Written /\ layerRev \in Revs /\ cache.meta \subseteq Written \X Revs /\ Written \subseteq Revs
  BY RowRevision, Revisions DEF LifeInv, LifeRows, LifeCache
<1>3. ~Idles(r) /\ ~overlap => Carries(req[r]) /\ FreshFor(req[r])
  BY AloneFresh DEF LifeInv, CarryInv
<1>4. ASSUME NEW s \in {"cached", "validate", "write", "meta", "find"}, Life!Go(r, s),
             LifePath([req[r] EXCEPT !.step = s]), design' = design,
             s = "cached" /\ req[r].op \in {"layers", "canvas"} => req[r].saw
      PROVE  CallMoves(r)
  <2>1. /\ LifeCalls' /\ Others(r) /\ Kept(r)
        /\ req'[r].step = s /\ req'[r].rev = req[r].rev /\ req'[r].lay = req[r].lay
    BY <1>1, <1>4, GoFields DEF Life!Steps
  <2>2. LifePath(req'[r])
    BY <1>1, <1>4, <2>1 DEF LifePath, LifeCall
  <2>3. Entitled(req[r])'
    BY <1>1, <1>4, <2>1 DEF Entitled
  <2>4. Carries(req[r])'
    BY <2>1 DEF Carries
  <2>5. QED
    BY <2>1, <2>2, <2>3, <2>4 DEF CallMoves
<1>5. CASE Life!VerifyAccess(r)
  <2> USE <1>5 DEF Life!VerifyAccess
  <2>1. CASE ~Life!Allowed(req[r].who, Life!RoleFor(req[r].op), design.visibility)
    BY <2>1, CallEnds, CallOnly DEF Idles, RowDirty, LayersDirty, CanvasDirty
  <2>2. CASE Life!Allowed(req[r].who, Life!RoleFor(req[r].op), design.visibility)
    <3>1. PICK s \in {"cached", "validate", "write"} :
             /\ Life!Go(r, s)
             /\ s = "cached" => req[r].op \in Life!Reads
             /\ s # "cached" => req[r].op \notin Life!Reads
             /\ s = "validate" => req[r].op = "publish"
      BY <2>2 DEF Life!Reads
    <3>2. req[r].op # "none"
      BY <1>1 DEF LifePath
    <3>3. LifePath([req[r] EXCEPT !.step = s])
      BY <1>1, <3>1, <3>2 DEF LifePath, LifeCall
    <3>4. req[r].saw
      BY <1>1, <2>2, <3>2 DEF Entitled
    <3>5. CallMoves(r)
      BY <1>4, <3>1, <3>3, <3>4
    <3>6. QED
      BY <3>5, CallOnly DEF Idles, RowDirty, LayersDirty, CanvasDirty
  <2>3. QED
    BY <2>1, <2>2
<1>6. CASE Life!GetCached(r)
  <2> USE <1>6 DEF Life!GetCached
  <2>1. CASE Life!Go(r, "find")
    <3>1. LifePath([req[r] EXCEPT !.step = "find"])
      BY <1>1 DEF LifePath, LifeCall
    <3>2. CallMoves(r)
      BY <1>4, <2>1, <3>1
    <3>3. QED
      BY <3>2, CallOnly DEF Idles, RowDirty, LayersDirty, CanvasDirty
  <2>2. ASSUME NEW n \in cache.meta,
               req' = [req EXCEPT ![r].step = "check", ![r].rev = n[1], ![r].with = n[2]]
        PROVE  LifeInv'
    <3>1. PICK a \in Written, b \in Revs : n = <<a, b>>
      <4>1. n \in Written \X Revs
        BY <1>2
      <4>2. QED
        BY ONLY <4>1
    <3>2. req' = [req EXCEPT ![r].step = "check", ![r].rev = a, ![r].with = b]
      BY <2>2, <3>1
    <3>3. /\ LifeCalls' /\ Others(r) /\ Kept(r)
          /\ req'[r].step = "check" /\ req'[r].rev = a /\ req'[r].with = b
      <4>1. "check" \in Life!Steps /\ a \in Revs
        BY <1>2 DEF Life!Steps
      <4>2. PICK x \in LifeCall : x = [req[r] EXCEPT !.step = "check", !.rev = a, !.with = b]
        BY <1>1, <4>1 DEF LifeCall
      <4>3. req' = [req EXCEPT ![r] = x]
        BY <3>2, <4>2
      <4>4. x.step = "check" /\ x.rev = a /\ x.with = b
            /\ x.op = req[r].op /\ x.who = req[r].who /\ x.saw = req[r].saw
        BY <1>1, <4>2 DEF LifeCall
      <4>5. QED
        BY <1>1, <4>3, <4>4, CallFields
    <3>4. LifePath(req'[r]) /\ Entitled(req[r])'
      BY <1>1, <1>2, <3>3 DEF LifePath, Entitled
    <3>5. ~overlap => "meta" \in missed \/ n = <<design.rev, layerRev>>
      BY <1>3 DEF FreshFor, MetaFresh, Idles, RowDirty
    <3>6. ~overlap => "meta" \in missed \/ (a = design.rev /\ b = layerRev)
      BY <3>1, <3>5
    <3>7. CallMoves(r)
      BY <3>3, <3>4, <3>6 DEF CallMoves, Carries, HasRow
    <3>8. QED
      BY <3>7, CallOnly DEF Idles, RowDirty, LayersDirty, CanvasDirty
  <2>3. QED
    BY <2>1, <2>2
<1>7. CASE Life!FindDesign(r)
  <2> USE <1>7 DEF Life!FindDesign
  <2>1. /\ LifeCalls' /\ Others(r) /\ Kept(r)
        /\ req'[r].step = "store" /\ req'[r].rev = design.rev
        /\ req'[r].with = layerRev /\ req'[r].lay = layerRev
    <3>1. "store" \in Life!Steps /\ design.rev \in Revs /\ layerRev \in Revs
      BY <1>2 DEF Life!Steps
    <3>2. PICK x \in LifeCall : x = [req[r] EXCEPT !.step = "store", !.rev = design.rev,
                                                 !.with = layerRev, !.lay = layerRev]
      BY <1>1, <3>1 DEF LifeCall
    <3>3. req' = [req EXCEPT ![r] = x]
      BY <3>2
    <3>4. x.step = "store" /\ x.rev = design.rev /\ x.with = layerRev /\ x.lay = layerRev
          /\ x.op = req[r].op /\ x.who = req[r].who /\ x.saw = req[r].saw
      BY <1>1, <3>2 DEF LifeCall
    <3>5. QED
      BY <1>1, <3>3, <3>4, CallFields DEF Kept
  <2>2. LifePath(req'[r]) /\ Entitled(req[r])'
    BY <1>1, <1>2, <2>1 DEF LifePath, Entitled
  <2>3. CallMoves(r)
    BY <2>1, <2>2 DEF CallMoves, Carries, HasRow
  <2>4. QED
    BY <2>3, CallOnly DEF Idles, RowDirty, LayersDirty, CanvasDirty
<1>8. CASE Life!GetVerify(r)
  <2> USE <1>8 DEF Life!GetVerify
  <2>1. req[r].op \in {"get", "state"} /\ Life!RoleFor(req[r].op) = "viewer"
    BY <1>1 DEF LifePath, Life!RoleFor, Life!Reads
  <2>2. CASE ~Life!Allowed(req[r].who, "viewer", design.visibility)
    BY <2>2, CallEnds, CallOnly DEF Idles, RowDirty, LayersDirty, CanvasDirty
  <2>3. CASE Life!Allowed(req[r].who, "viewer", design.visibility)
    <3>1. req[r].saw
      BY <1>1, <2>1, <2>3 DEF Entitled
    <3>2. CASE Life!Serve(r)
      BY <3>1, <3>2, CallServed, CallOnly DEF Idles, RowDirty, LayersDirty, CanvasDirty
    <3>3. CASE req[r].op = "state" /\ Life!Go(r, "stateLayers")
      <4>1. /\ LifeCalls' /\ Others(r) /\ Kept(r)
            /\ req'[r].step = "stateLayers" /\ req'[r].rev = req[r].rev /\ req'[r].with = req[r].with
        BY <1>1, <3>3, GoFields DEF Life!Steps
      <4>2. LifePath(req'[r]) /\ Entitled(req[r])'
        BY <1>1, <3>1, <3>3, <4>1 DEF LifePath, Entitled
      <4>3. Carries(req[r])' \/ overlap
        BY <1>3, <4>1 DEF Carries, HasRow, Idles
      <4>4. CallMoves(r)
        BY <4>1, <4>2, <4>3 DEF CallMoves
      <4>5. QED
        BY <4>4, CallOnly DEF Idles, RowDirty, LayersDirty, CanvasDirty
    <3>4. QED
      BY <2>3, <3>2, <3>3 DEF Life!AfterGet
  <2>4. QED
    BY <2>2, <2>3
<1>9. CASE Life!StateCached(r)
  <2> USE <1>9 DEF Life!StateCached
  <2>1. CASE Life!Go(r, "meta")
    <3>1. LifePath([req[r] EXCEPT !.step = "meta"])
      BY <1>1 DEF LifePath, LifeCall
    <3>2. CallMoves(r)
      BY <1>4, <2>1, <3>1
    <3>3. QED
      BY <3>2, CallOnly DEF Idles, RowDirty, LayersDirty, CanvasDirty
  <2>2. CASE Life!Finish(r)
    BY <2>2, CallEnds, CallOnly DEF Idles, RowDirty, LayersDirty, CanvasDirty
  <2>3. CASE Life!Allowed(req[r].who, "viewer", design.visibility) /\ Life!Serve(r)
    <3>1. req[r].saw
      BY <1>1, <2>3 DEF Entitled, Life!RoleFor, Life!Reads
    <3>2. QED
      BY <2>3, <3>1, CallServed, CallOnly DEF Idles, RowDirty, LayersDirty, CanvasDirty
  <2>4. QED
    BY <2>1, <2>2, <2>3
<1>10. CASE Life!StateLayers(r)
  <2> USE <1>10 DEF Life!StateLayers
  <2>1. /\ LifeCalls' /\ Others(r) /\ Kept(r)
        /\ req'[r].step = "stateStore" /\ req'[r].rev = req[r].rev
        /\ req'[r].with = req[r].with /\ req'[r].lay = layerRev
    <3>1. "stateStore" \in Life!Steps /\ layerRev \in Revs
      BY <1>2 DEF Life!Steps
    <3>2. req' = [req EXCEPT ![r].step = "stateStore", ![r].lay = layerRev]
      OBVIOUS
    <3>3. QED
      BY ONLY r \in Requests, <1>1, <3>1, <3>2, LayFields
  <2>2. LifePath(req'[r]) /\ Entitled(req[r])'
    BY <1>1, <2>1 DEF LifePath, Entitled
  <2>3. Carries(req[r])' \/ overlap
    BY <1>3, <2>1 DEF Carries, HasRow, Idles
  <2>4. CallMoves(r)
    BY <2>1, <2>2, <2>3 DEF CallMoves
  <2>5. QED
    BY <2>4, CallOnly DEF Idles, RowDirty, LayersDirty, CanvasDirty
<1>11. CASE Life!ValidateDesignCompleteness(r)
  <2> USE <1>11 DEF Life!ValidateDesignCompleteness
  <2>1. CASE Life!Finish(r)
    BY <2>1, CallEnds, CallOnly DEF Idles, RowDirty, LayersDirty, CanvasDirty
  <2>2. CASE Life!Go(r, "write")
    <3>1. LifePath([req[r] EXCEPT !.step = "write"])
      BY <1>1 DEF LifePath, LifeCall, Life!Writes
    <3>2. CallMoves(r)
      BY <1>4, <2>2, <3>1
    <3>3. QED
      BY <3>2, CallOnly DEF Idles, RowDirty, LayersDirty, CanvasDirty
  <2>3. QED
    BY <2>1, <2>2
<1>12. CASE Life!Reread(r)
  <2> USE <1>12 DEF Life!Reread
  <2>1. /\ LifeCalls' /\ Others(r) /\ Kept(r)
        /\ req'[r].step = "clear" /\ req'[r].rev = design.rev /\ req'[r].with = layerRev
    <3>1. "clear" \in Life!Steps /\ design.rev \in Revs /\ layerRev \in Revs
      BY <1>2 DEF Life!Steps
    <3>2. PICK x \in LifeCall :
             x = [req[r] EXCEPT !.step = "clear", !.rev = design.rev, !.with = layerRev]
      BY <1>1, <3>1 DEF LifeCall
    <3>3. req' = [req EXCEPT ![r] = x]
      BY <3>2
    <3>4. x.step = "clear" /\ x.rev = design.rev /\ x.with = layerRev
          /\ x.op = req[r].op /\ x.who = req[r].who /\ x.saw = req[r].saw
      BY <1>1, <3>2 DEF LifeCall
    <3>5. QED
      BY <1>1, <3>3, <3>4, CallFields
  <2>2. LifePath(req'[r]) /\ Entitled(req[r])'
    BY <1>1, <1>2, <2>1 DEF LifePath, Entitled, Life!Writes
  <2>3. Carries(req[r])' /\ RowDirty(req'[r])
    BY <1>1, <2>1 DEF Carries, HasRow, LifePath, RowDirty
  <2>4. CallMoves(r)
    BY <2>1, <2>2, <2>3 DEF CallMoves
  <2>5. QED
    BY <2>3, <2>4, CallOnly DEF Idles
<1>13. CASE Life!Answer(r)
  BY <1>13, CallEnds, CallOnly DEF Life!Answer, Idles, RowDirty, LayersDirty, CanvasDirty
<1>14. CASE Life!FindOriginal(r)
  <2> USE <1>14 DEF Life!FindOriginal
  <2>1. CASE Life!Finish(r)
    BY <2>1, CallEnds, CallOnly DEF Idles, RowDirty, LayersDirty, CanvasDirty
  <2>2. CASE Life!Go(r, "write")
    <3>1. LifePath([req[r] EXCEPT !.step = "write"])
      BY <1>1 DEF LifePath, LifeCall, Life!Writes
    <3>2. CallMoves(r)
      BY <1>4, <2>2, <3>1
    <3>3. QED
      BY <3>2, CallOnly DEF Idles, RowDirty, LayersDirty, CanvasDirty
  <2>3. QED
    BY <2>1, <2>2
<1>15. CASE Life!CommitFork(r)
  BY <1>15, CallEnds, CallOnly DEF Life!CommitFork, Idles, RowDirty, LayersDirty, CanvasDirty
<1>16. QED
  BY <1>5, <1>6, <1>7, <1>8, <1>9, <1>10, <1>11, <1>12, <1>13, <1>14, <1>15

-----------------------------------------------------------------------------
(* The steps that fill an entry, which their call may do if it carries     *)
(* what is current.                                                        *)
LEMMA EntryFields ==
    ASSUME cache \in LifeCache, NEW n \in Written, NEW l \in Revs, NEW m \in Revs,
           NEW k \in Written
    PROVE  /\ [cache EXCEPT !.meta = {<<n, m>>}] \in LifeCache
           /\ [cache EXCEPT !.layers = {m}] \in LifeCache
           /\ [cache EXCEPT !.canvas = {n}] \in LifeCache
           /\ [cache EXCEPT !.state = {<<n, l, m, k>>}] \in LifeCache
<1>1. {<<n, l, m, k>>} \subseteq Written \X Revs \X Revs \X Written /\ {<<n, m>>} \subseteq Written \X Revs
  OBVIOUS
<1>2. QED
  BY <1>1 DEF LifeCache

(* A read puts into the cache what it read.                                *)
LEMMA LifeStores ==
    ASSUME LifeInv, NEW r \in Requests,
           \/ Life!StoreDesign(r) \/ Life!StoreLayers(r) \/ Life!StateStore(r)
           \/ Life!LayersCached(r) \/ Life!CanvasCached(r) \/ Life!Refill(r)
    PROVE  LifeInv'
<1> USE DEF Life!At, Life!KeepRows, Life!Same, Kept, MetaFresh, LayersFresh, CanvasFresh, StateFresh
<1>1. LifePath(req[r]) /\ Entitled(req[r]) /\ req[r] \in LifeCall /\ LifeCalls
  BY DEF LifeInv, LifePaths, LifeSaw, LifeCalls
<1>2. /\ design.rev \in Written /\ layerRev \in Revs /\ canvasRev \in Written
      /\ cache \in LifeCache /\ LifeRows /\ missed \subseteq Life!Keys
  BY RowRevision DEF LifeInv, LifeRows
<1>3. ~Idles(r) /\ ~overlap => Carries(req[r]) /\ FreshFor(req[r])
  BY AloneFresh DEF LifeInv, CarryInv
<1>5. CASE Life!StoreDesign(r)
  <2> USE <1>5 DEF Life!StoreDesign
  <2>1. CASE ~Life!Allowed(req[r].who, "viewer", design.visibility)
    BY <2>1, CallEnds, CallOnly DEF Idles, RowDirty, LayersDirty, CanvasDirty
  <2>2. CASE Life!Allowed(req[r].who, "viewer", design.visibility)
    <3>1. req[r].op \in {"get", "state"} /\ Life!RoleFor(req[r].op) = "viewer" /\ req[r].rev \in Written
          /\ req[r].with \in Revs
      BY <1>1 DEF LifePath, LifeCall, Life!RoleFor, Life!Reads
    <3>2. req[r].saw
      BY <1>1, <2>2, <3>1 DEF Entitled
    <3>3. /\ LifeCalls' /\ Others(r) /\ Kept(r)
          /\ req'[r].step = "storeLayers" /\ req'[r].rev = req[r].rev
          /\ req'[r].with = req[r].with /\ req'[r].lay = req[r].lay
      BY <1>1, <2>2, GoFields DEF Life!Steps
    <3>4. LifePath(req'[r]) /\ Entitled(req[r])'
      BY <3>1, <3>2, <3>3, <1>1 DEF LifePath, Entitled
    <3>5. ~overlap => Carries(req[r])'
      BY <1>3, <3>3 DEF Carries, HasRow, Idles
    <3>6. CallMoves(r)
      BY <3>3, <3>4, <3>5 DEF CallMoves
    <3>7. LifeRows'
      BY <1>2, <2>2, <3>1, EntryFields DEF LifeRows
    <3>8. ~overlap => FreshFor(req[r])'
      <4>1. cache'.meta = {<<req[r].rev, req[r].with>>} /\ cache'.layers = cache.layers
            /\ cache'.canvas = cache.canvas /\ cache'.state = cache.state
        BY <1>2, <2>2 DEF LifeCache
      <4>2. QED
        BY <1>3, <3>3, <4>1 DEF Carries, HasRow, FreshFor, Idles, RowDirty, LayersDirty, CanvasDirty
    <3>9. QED
      BY <3>6, <3>7, <3>8, OneMoves DEF Idles
  <2>3. QED
    BY <2>1, <2>2
<1>6. CASE Life!StoreLayers(r)
  <2> USE <1>6 DEF Life!StoreLayers
  <2>1. req[r].op \in {"get", "state", "layers"} /\ req[r].saw
    BY <1>1 DEF LifePath, Entitled
  <2>2. CallMoves(r)
    <3>1. CASE Life!Serve(r)
      BY <2>1, <3>1, CallServed DEF Idles
    <3>2. CASE req[r].op = "state" /\ Life!Go(r, "stateLayers")
      <4>1. /\ LifeCalls' /\ Others(r) /\ Kept(r)
            /\ req'[r].step = "stateLayers" /\ req'[r].rev = req[r].rev /\ req'[r].with = req[r].with
        BY <1>1, <3>2, GoFields DEF Life!Steps
      <4>2. LifePath(req'[r]) /\ Entitled(req[r])'
        BY <1>1, <2>1, <3>2, <4>1 DEF LifePath, Entitled
      <4>3. ~overlap => Carries(req[r])'
        BY <1>3, <3>2, <4>1 DEF Carries, HasRow, Idles
      <4>4. QED
        BY <4>1, <4>2, <4>3 DEF CallMoves
    <3>3. QED
      BY <3>1, <3>2, <2>1 DEF Life!AfterGet
  <2>3. req[r].lay \in Revs
    BY <1>1 DEF LifeCall
  <2>4. LifeRows'
    BY <1>2, <2>3, EntryFields DEF LifeRows
  <2>5. ~overlap => FreshFor(req[r])'
    <3>1. cache'.meta = cache.meta /\ cache'.layers = {req[r].lay}
          /\ cache'.canvas = cache.canvas /\ cache'.state = cache.state
      BY <1>2 DEF LifeCache
    <3>2. QED
      BY <1>3, <3>1 DEF Carries, HasRow, FreshFor, Idles, RowDirty, LayersDirty, CanvasDirty
  <2>6. QED
    BY <2>2, <2>4, <2>5, OneMoves DEF Idles
<1>7. CASE Life!StateStore(r)
  <2> USE <1>7 DEF Life!StateStore
  <2>1. CallMoves(r)
    BY <1>1, CallServed DEF Idles, Entitled
  <2>2. req[r].rev \in Written /\ req[r].with \in Revs /\ req[r].lay \in Revs
    BY <1>1 DEF LifePath, LifeCall
  <2>3. LifeRows'
    <3>1. cache' \in LifeCache
      BY <1>2, <2>2, EntryFields
    <3>2. missed' \subseteq Life!Keys
      BY <1>2 DEF Life!Keys
    <3>3. QED
      BY <1>2, <3>1, <3>2 DEF LifeRows
  <2>4. ~overlap => FreshFor(req[r])'
    <3>1. cache'.meta = cache.meta /\ cache'.layers = cache.layers
          /\ cache'.canvas = cache.canvas /\ cache'.state = {<<req[r].rev, req[r].with, req[r].lay, canvasRev>>}
      BY <1>2 DEF LifeCache
    <3>2. QED
      BY <1>3, <3>1 DEF Carries, HasRow, FreshFor, Idles, RowDirty, LayersDirty, CanvasDirty
  <2>5. QED
    BY <2>1, <2>3, <2>4, OneMoves DEF Idles
<1>8. CASE Life!LayersCached(r)
  <2> USE <1>8 DEF Life!LayersCached
  <2>1. req[r].saw
    BY <1>1 DEF Entitled
  <2>2. CASE Life!Serve(r)
    BY <2>1, <2>2, CallServed, CallOnly DEF Idles, RowDirty, LayersDirty, CanvasDirty
  <2>3. CASE req' = [req EXCEPT ![r].step = "storeLayers", ![r].lay = layerRev]
    <3>1. "storeLayers" \in Life!Steps
      BY DEF Life!Steps
    <3>2. /\ LifeCalls' /\ Others(r) /\ Kept(r)
          /\ req'[r].step = "storeLayers" /\ req'[r].rev = req[r].rev /\ req'[r].lay = layerRev
      BY ONLY r \in Requests, <1>1, <1>2, <2>3, <3>1, LayFields DEF Kept
    <3>3. LifePath(req'[r]) /\ Entitled(req[r])'
      BY <1>1, <2>1, <3>2 DEF LifePath, Entitled
    <3>4. Carries(req[r])'
      BY <3>2 DEF Carries
    <3>5. CallMoves(r)
      BY <3>2, <3>3, <3>4 DEF CallMoves
    <3>6. QED
      BY <3>5, CallOnly DEF Idles, RowDirty, LayersDirty, CanvasDirty
  <2>4. QED
    BY <2>2, <2>3
<1>9. CASE Life!CanvasCached(r)
  <2> USE <1>9 DEF Life!CanvasCached
  <2>1. CallMoves(r)
    BY <1>1, CallServed DEF Idles, Entitled
  <2>2. CASE Life!Same
    BY <2>1, <2>2, CallOnly DEF Idles, RowDirty, LayersDirty, CanvasDirty
  <2>3. CASE cache' = [cache EXCEPT !.canvas = {canvasRev}] /\ missed' = missed \ {"canvas"}
    <3>1. LifeRows'
      BY <1>2, <2>3, EntryFields DEF LifeRows
    <3>2. ~overlap => FreshFor(req[r])'
      <4>1. cache'.meta = cache.meta /\ cache'.layers = cache.layers
            /\ cache'.canvas = {canvasRev} /\ cache'.state = cache.state
        BY <1>2, <2>3 DEF LifeCache
      <4>2. QED
        BY <1>3, <4>1 DEF FreshFor, Idles, RowDirty, LayersDirty, CanvasDirty
    <3>3. QED
      BY <2>1, <3>1, <3>2, OneMoves DEF Idles
  <2>4. QED
    BY <2>2, <2>3
<1>10. CASE Life!Refill(r)
  <2> USE <1>10 DEF Life!Refill
  <2>1. CallMoves(r)
    BY CallEnds DEF Idles
  <2>2. req[r].op \in {"update", "canvasUpdate"} /\ req[r].rev \in Written /\ req[r].with \in Revs
    BY <1>1 DEF LifePath, LifeCall
  <2>3. LifeRows'
    <3>1. cache' \in LifeCache
      BY <1>2, <2>2, EntryFields
    <3>2. QED
      BY <1>2, <3>1 DEF LifeRows
  <2>4. ~overlap => FreshFor(req[r])'
    <3>1. CASE req[r].op = "update"
      <4>1. cache'.meta = {<<req[r].rev, req[r].with>>} /\ cache'.layers = cache.layers
            /\ cache'.canvas = cache.canvas /\ cache'.state = cache.state
        BY <1>2, <3>1 DEF LifeCache
      <4>2. QED
        BY <1>3, <3>1, <4>1 DEF Carries, HasRow, FreshFor, Idles, RowDirty, LayersDirty, CanvasDirty
    <3>2. CASE req[r].op = "canvasUpdate"
      <4>1. cache'.meta = cache.meta /\ cache'.layers = cache.layers
            /\ cache'.canvas = {req[r].rev} /\ cache'.state = cache.state
        BY <1>2, <3>2 DEF LifeCache
      <4>2. QED
        BY <1>3, <3>2, <4>1 DEF Carries, HasRow, FreshFor, Idles, RowDirty, LayersDirty, CanvasDirty
    <3>3. QED
      BY <2>2, <3>1, <3>2
  <2>5. QED
    BY <2>1, <2>3, <2>4, OneMoves DEF Idles
<1>11. QED
  BY <1>5, <1>6, <1>7, <1>8, <1>9, <1>10


-----------------------------------------------------------------------------
(* An invalidation empties what its write has made stale.                  *)
LEMMA LifeInvalidate ==
    ASSUME LifeInv, NEW r \in Requests, Life!Invalidate(r)
    PROVE  LifeInv'
<1> USE DEF Life!At, Life!KeepRows, Kept, Life!Invalidate
<1>1. LifePath(req[r]) /\ Entitled(req[r]) /\ req[r] \in LifeCall /\ LifeCalls
  BY DEF LifeInv, LifePaths, LifeSaw, LifeCalls
<1>2. LifeRows /\ cache \in LifeCache
  BY DEF LifeInv, LifeRows
<1>3. ~overlap => Carries(req[r]) /\ FreshFor(req[r])
  BY AloneFresh DEF LifeInv, CarryInv, Idles
<1>4. CallMoves(r) /\ req'[r].step # "reread" /\ req'[r].step # "clear"
  <2>1. CASE Life!Finish(r)
    BY <1>1, <2>1, CallEnds, FinishFields DEF Idles
  <2>2. CASE req[r].op \in {"update", "canvasUpdate"} /\ Life!Go(r, "refill")
    <3>1. /\ LifeCalls' /\ Others(r) /\ Kept(r)
          /\ req'[r].step = "refill" /\ req'[r].rev = req[r].rev /\ req'[r].with = req[r].with
      BY <1>1, <2>2, GoFields DEF Life!Steps
    <3>2. LifePath(req'[r]) /\ Entitled(req[r])'
      BY <1>1, <2>2, <3>1 DEF LifePath, Entitled
    <3>3. ~overlap => Carries(req[r])'
      BY <1>3, <3>1 DEF Carries, HasRow, Idles
    <3>4. QED
      BY <3>1, <3>2, <3>3 DEF CallMoves
  <2>3. QED
    BY <2>1, <2>2
<1>5. PICK d \in {"layers", "canvas", "all"} :
         /\ d = "layers" => req[r].op = "layer" /\ cache' = Life!InvalidateLayers
         /\ d = "canvas" => req[r].op = "canvasUpdate" /\ cache' = Life!InvalidateCanvas
         /\ d = "all" => req[r].op \notin {"layer", "canvasUpdate"} /\ cache' = Life!InvalidateDesign
         /\ missed' = missed \ Life!Deleted(req[r].op)
  OBVIOUS
<1>6. /\ cache' \in LifeCache
      /\ cache'.state = {}
      /\ cache'.layers \in {{}, cache.layers} /\ cache'.meta \in {{}, cache.meta}
      /\ cache'.canvas \in {{}, cache.canvas}
      /\ d = "layers" => cache'.layers = {}
      /\ d = "canvas" => cache'.canvas = {}
      /\ d = "all" => cache'.meta = {} /\ cache'.layers = {} /\ cache'.canvas = {}
      /\ cache'.meta = {} \/ ("meta" \in missed => "meta" \in missed')
      /\ cache'.layers = {} \/ ("layers" \in missed => "layers" \in missed')
      /\ cache'.canvas = {} \/ ("canvas" \in missed => "canvas" \in missed')
      /\ missed' \subseteq missed
  BY <1>2, <1>5 DEF LifeCache, Life!InvalidateLayers, Life!InvalidateCanvas,
     Life!InvalidateDesign, Life!Empty, Life!Nothing, Life!Deleted
<1>7. LifeRows'
  BY <1>2, <1>6 DEF LifeRows
<1>8. ~overlap => FreshFor(req[r])'
  BY <1>3, <1>4, <1>5, <1>6 DEF FreshFor, MetaFresh, LayersFresh, CanvasFresh, StateFresh,
     RowDirty, LayersDirty, CanvasDirty
<1>9. QED
  BY <1>4, <1>7, <1>8, OneMoves DEF Idles

(* A call that fails between its write and its invalidation leaves every   *)
(* key of that invalidation out.                                           *)
LEMMA LifeFails ==
    ASSUME LifeInv, NEW r \in Requests, Life!CallFails(r)
    PROVE  LifeInv'
<1> USE DEF Life!At, Life!KeepRows, Life!CallFails
<1>1. LifePath(req[r]) /\ LifeCalls /\ LifeRows /\ missed \subseteq Life!Keys
  BY DEF LifeInv, LifePaths, LifeRows
<1>2. ~overlap => FreshFor(req[r])
  BY AloneFresh DEF Idles
<1>3. CallMoves(r)
  BY CallEnds DEF Idles
<1>4. missed' \subseteq Life!Keys /\ missed \subseteq missed'
      /\ (RowDirty(req[r]) => missed' = Life!Keys)
      /\ (LayersDirty(req[r]) => {"layers", "state"} \subseteq missed')
      /\ (CanvasDirty(req[r]) => {"canvas", "state"} \subseteq missed')
  <2>1. req[r].step = "reread" => req[r].op \notin {"layer", "canvasUpdate"}
    BY <1>1 DEF LifePath
  <2>2. QED
    BY <1>1, <2>1 DEF RowDirty, LayersDirty, CanvasDirty, Life!Deleted, Life!Keys
<1>5. LifeRows'
  BY <1>1, <1>4 DEF LifeRows
<1>6. ~overlap => FreshFor(req[r])'
  BY <1>2, <1>4 DEF FreshFor, MetaFresh, LayersFresh, CanvasFresh, StateFresh, Life!Keys
<1>7. QED
  BY <1>3, <1>5, <1>6, OneMoves DEF Idles

(* An entry of the cache expires.                                          *)
LEMMA LifeExpire ==
    ASSUME LifeInv, Life!Expire
    PROVE  LifeInv'
<1> USE DEF LifeInv, Life!Expire
<1>1. PICK key \in DOMAIN cache : cache' = [cache EXCEPT ![key] = {}]
  BY DEF Life!Nothing
<1>2. cache \in LifeCache /\ key \in {"meta", "layers", "canvas", "state"}
  BY <1>1 DEF LifeRows, LifeCache
<1>3. /\ cache' \in LifeCache
      /\ cache'.meta \subseteq cache.meta /\ cache'.layers \subseteq cache.layers
      /\ cache'.canvas \subseteq cache.canvas /\ cache'.state \subseteq cache.state
  BY <1>1, <1>2 DEF LifeCache
<1>4. LifeRows' /\ LifeBooks' /\ LifeCalls' /\ LifePaths'
  BY <1>3 DEF LifeRows, LifeBooks, LifeCalls, LifePaths
<1>5. LifeSaw'
  BY DEF LifeSaw, Entitled
<1>6. AloneInv' /\ CarryInv'
  BY DEF AloneInv, CarryInv, Carries, HasRow, Idles, Life!At
<1>7. FreshInv'
  BY <1>3 DEF FreshInv, MetaFresh, LayersFresh, CanvasFresh, StateFresh
<1>8. QED
  BY <1>4, <1>5, <1>6, <1>7

-----------------------------------------------------------------------------
(* The UPDATEs of the row, which tell every call what it may see now.      *)
LEMMA NextRevision ==
    ASSUME LifeRows, Life!Writable
    PROVE  design.rev + 1 \in Written /\ layerRev + 1 \in Revs /\ canvasRev + 1 \in Written
BY LimitsAssumption DEF LifeRows, Life!Writable, Life!Design, Written, Revs

(* Writing the row lets every call in flight see the new visibility.       *)
LEMMA SetDesignFields ==
    ASSUME LifeInv, NEW r \in Requests, NEW to \in Life!Design, NEW next \in Life!Steps,
           Life!SetDesign(r, to, next), NEW q \in Requests
    PROVE  /\ req'[q] \in LifeCall
           /\ req'[q].step = IF q = r THEN next ELSE req[q].step
           /\ req'[q].op = req[q].op /\ req'[q].who = req[q].who /\ req'[q].rev = req[q].rev
           /\ req'[q].saw <=> \/ req[q].saw
                              \/ /\ req[q].who \in Users
                                 /\ Life!Allowed(req[q].who, Life!RoleFor(req[q].op), to.visibility)
<1>1. req[q] \in LifeCall
  BY DEF LifeInv, LifeCalls
<1>2. PICK s \in Life!Steps : s = IF q = r THEN next ELSE req[q].step
  BY <1>1 DEF LifeCall
<1>3. PICK b \in BOOLEAN :
         b = (req[q].saw \/ (req[q].who \in Users /\
                Life!Allowed(req[q].who, Life!RoleFor(req[q].op), to.visibility)))
  OBVIOUS
<1>4. req'[q] = [req[q] EXCEPT !.step = s, !.saw = b]
  BY <1>1, <1>2, <1>3 DEF Life!SetDesign, LifeCall
<1>5. /\ req'[q] \in LifeCall /\ req'[q].step = s /\ req'[q].saw = b
      /\ req'[q].op = req[q].op /\ req'[q].who = req[q].who /\ req'[q].rev = req[q].rev
  BY <1>1, <1>4 DEF LifeCall
<1>6. QED
  BY <1>2, <1>3, <1>5

(* A write of the row that keeps its revision.                             *)
LEMMA SetDesignKeeps ==
    ASSUME LifeInv, NEW r \in Requests, req[r].step = "write",
           NEW to \in Life!Design, to.rev = design.rev,
           NEW next \in {"reread", "clear", "commit"}, Life!SetDesign(r, to, next),
           next # "commit" => missed' = missed,
           next = "commit" => req[r].op = "fork" /\ missed' = missed \cup {"meta", "state"},
           next = "reread" => req[r].op \in {"update", "publish", "unpublish", "archive"},
           next = "clear" => req[r].op \in {"delete", "view"}
    PROVE  LifeInv'
<1>1. next \in Life!Steps
  BY DEF Life!Steps
<1>2. \A q \in Requests :
         /\ req'[q] \in LifeCall
         /\ req'[q].step = IF q = r THEN next ELSE req[q].step
         /\ req'[q].op = req[q].op /\ req'[q].who = req[q].who /\ req'[q].rev = req[q].rev
         /\ req'[q].saw <=> \/ req[q].saw
                            \/ /\ req[q].who \in Users
                               /\ Life!Allowed(req[q].who, Life!RoleFor(req[q].op), to.visibility)
  BY <1>1, SetDesignFields
<1>3. \A q \in Requests : LifePath(req[q]) /\ Entitled(req[q])
  BY DEF LifeInv, LifePaths, LifeSaw
<1>4. LifeCalls'
  BY <1>2 DEF LifeCalls, Life!SetDesign
<1>5. design' \in Life!Design /\ design'.visibility = to.visibility
  <2>1. design.rev + 1 \in Written /\ design' = [to EXCEPT !.rev = design.rev + 1]
    BY NextRevision DEF Life!SetDesign, LifeInv
  <2>2. ASSUME NEW n \in Written
        PROVE  /\ [to EXCEPT !.rev = n] \in Life!Design
               /\ [to EXCEPT !.rev = n].visibility = to.visibility
    BY DEF Life!Design, Written
  <2>3. QED
    BY <2>1, <2>2
<1>6. LifeRows' /\ LifeBooks'
  <2>1. missed' \subseteq Life!Keys
    BY DEF LifeInv, LifeRows, Life!Keys
  <2>2. QED
    BY <1>5, <2>1 DEF LifeInv, LifeRows, LifeBooks, Life!SetDesign
<1>7. ASSUME NEW q \in Requests PROVE LifePath(req'[q])
  <2>1. CASE q = r
    BY <1>2, <1>3, <2>1 DEF LifePath, Life!Writes
  <2>2. CASE q # r
    BY <1>2, <1>3, <2>2 DEF LifePath
  <2>3. QED
    BY <2>1, <2>2
<1>8. ASSUME NEW q \in Requests PROVE Entitled(req[q])'
  <2>1. req[q].op # "none" => req[q].who \in Users
    BY <1>3 DEF LifePath
  <2>2. CASE q = r
    BY <1>2, <1>5, <2>1, <2>2 DEF Entitled
  <2>3. CASE q # r
    BY <1>2, <1>3, <1>5, <2>1, <2>3 DEF Entitled
  <2>4. QED
    BY <2>2, <2>3
<1>9. AloneInv'
  <2>1. overlap' = overlap /\ next # "idle"
    BY DEF Life!SetDesign
  <2>2. \A q \in Requests : req'[q].step = "idle" <=> req[q].step = "idle"
    BY <1>2, <2>1
  <2>3. QED
    BY <2>1, <2>2 DEF LifeInv, AloneInv, Idles, Life!At
<1>10. CarryInv'
  <2> SUFFICES ASSUME ~overlap, NEW q \in Requests PROVE Carries(req[q])'
    BY DEF CarryInv, Life!SetDesign
  <2>1. CASE q = r
    BY <1>2, <2>1 DEF Carries
  <2>2. CASE q # r
    <3>1. req'[q].step = "idle"
      BY <1>2, <2>2 DEF LifeInv, AloneInv, Idles, Life!At
    <3>2. QED
      BY <3>1 DEF Carries
  <2>3. QED
    BY <2>1, <2>2
<1>11. FreshInv'
  <2>1. CASE next # "commit"
    <3>1. RowDirty(req'[r])
      BY <1>2, <2>1 DEF RowDirty
    <3>2. QED
      BY <3>1 DEF FreshInv
  <2>2. CASE next = "commit"
    <3>1. ~overlap => FreshFor(req[r])
      BY AloneFresh DEF Idles, Life!At
    <3>2. ~overlap => LayersFresh /\ CanvasFresh
      BY <3>1 DEF FreshFor, RowDirty, LayersDirty, CanvasDirty
    <3>3. {"meta", "state"} \subseteq missed' /\ missed \subseteq missed'
      BY <2>2
    <3>4. UNCHANGED <<cache, layerRev, canvasRev, overlap>>
      BY DEF Life!SetDesign
    <3>5. QED
      BY <3>2, <3>3, <3>4 DEF FreshInv, MetaFresh, LayersFresh, CanvasFresh, StateFresh
  <2>3. QED
    BY <2>1, <2>2
<1>12. QED
  BY <1>4, <1>6, <1>7, <1>8, <1>9, <1>10, <1>11 DEF LifeInv, LifePaths, LifeSaw

(* Every write of the row keeps the invariant.                             *)
LEMMA LifeWrites ==
    ASSUME LifeInv, NEW r \in Requests,
           \/ Life!UpdateDesign(r) \/ Life!PublishDesign(r) \/ Life!UnpublishDesign(r)
           \/ Life!ArchiveDesign(r) \/ Life!DeleteDesign(r) \/ Life!IncrementViewCount(r)
           \/ Life!ForkDesign(r)
    PROVE  LifeInv'
<1> USE DEF Life!At
<1> DEFINE Rows == [status : {"draft", "published", "archived"}, visibility : Life!Visibilities,
                    complete : BOOLEAN, deleted : BOOLEAN, rev : Written]
<1>1. design \in Life!Design /\ Life!Design = Rows
  BY DEF LifeInv, LifeRows, Life!Design, Written
<1>2. CASE Life!UpdateDesign(r)
  <2>1. PICK v \in Life!Visibilities, b \in BOOLEAN :
           Life!SetDesign(r, [design EXCEPT !.visibility = v, !.complete = b], "reread")
    BY <1>2 DEF Life!UpdateDesign
  <2>2. /\ [design EXCEPT !.visibility = v, !.complete = b] \in Life!Design
        /\ [design EXCEPT !.visibility = v, !.complete = b].rev = design.rev
    BY <1>1
  <2>3. QED
    BY <1>2, <2>1, <2>2, SetDesignKeeps DEF Life!UpdateDesign
<1>3. ASSUME NEW s \in {"draft", "published", "archived"}
      PROVE  /\ [design EXCEPT !.status = s] \in Life!Design
             /\ [design EXCEPT !.status = s].rev = design.rev
  BY <1>1
<1>4. CASE Life!PublishDesign(r)
  BY <1>3, <1>4, SetDesignKeeps DEF Life!PublishDesign
<1>5. CASE Life!UnpublishDesign(r)
  BY <1>3, <1>5, SetDesignKeeps DEF Life!UnpublishDesign
<1>6. CASE Life!ArchiveDesign(r)
  BY <1>3, <1>6, SetDesignKeeps DEF Life!ArchiveDesign
<1>7. CASE Life!DeleteDesign(r)
  <2>1. PICK b \in BOOLEAN : b = TRUE
    OBVIOUS
  <2>2. /\ [design EXCEPT !.deleted = b] \in Life!Design
        /\ [design EXCEPT !.deleted = b].rev = design.rev
    BY <1>1
  <2>3. QED
    BY <1>7, <2>1, <2>2, SetDesignKeeps DEF Life!DeleteDesign
<1>8. CASE Life!IncrementViewCount(r)
  BY <1>1, <1>8, SetDesignKeeps DEF Life!IncrementViewCount
<1>9. CASE Life!ForkDesign(r)
  BY <1>1, <1>9, SetDesignKeeps DEF Life!ForkDesign
<1>10. QED
  BY <1>2, <1>4, <1>5, <1>6, <1>7, <1>8, <1>9

(* The writes of the layers and of the canvas settings.                    *)
LEMMA LifeLayersWrite ==
    ASSUME LifeInv, NEW r \in Requests, Life!ChangeLayers(r)
    PROVE  LifeInv'
<1> USE DEF Life!At, Kept, Life!ChangeLayers
<1>1. LifePath(req[r]) /\ Entitled(req[r]) /\ req[r] \in LifeCall /\ LifeCalls
  BY DEF LifeInv, LifePaths, LifeSaw, LifeCalls
<1>2. /\ LifeCalls' /\ Others(r) /\ Kept(r)
      /\ req'[r].step = "clear"
  BY <1>1, GoFields DEF Life!Steps
<1>3. LifePath(req'[r]) /\ Entitled(req[r])'
  BY <1>1, <1>2 DEF LifePath, Entitled, Life!Writes
<1>4. CallMoves(r) /\ LayersDirty(req'[r])
  BY <1>2, <1>3 DEF CallMoves, Carries, LayersDirty
<1>5. LifeRows'
  BY NextRevision DEF LifeInv, LifeRows, Life!Keys
<1>6. ~overlap => FreshFor(req[r])'
  BY <1>4, AloneFresh DEF FreshFor, MetaFresh, LayersFresh, CanvasFresh, StateFresh, Idles,
     RowDirty, LayersDirty, CanvasDirty
<1>7. QED
  BY <1>4, <1>5, <1>6, OneMoves DEF Idles

(* The canvas is written beside the row.                                   *)
LEMMA LifeCanvasWrite ==
    ASSUME LifeInv, NEW r \in Requests, Life!UpdateCanvasSettings(r)
    PROVE  LifeInv'
<1> USE DEF Life!At, Kept, Life!UpdateCanvasSettings
<1>1. LifePath(req[r]) /\ Entitled(req[r]) /\ req[r] \in LifeCall /\ LifeCalls
  BY DEF LifeInv, LifePaths, LifeSaw, LifeCalls
<1>2. PICK n \in Written : n = canvasRev + 1
  BY NextRevision DEF LifeInv
<1>3. /\ LifeCalls' /\ Others(r) /\ Kept(r)
      /\ req'[r].step = "clear" /\ req'[r].rev = n /\ req'[r].lay = req[r].lay
  <2>1. "clear" \in Life!Steps /\ n \in Revs
    BY Revisions DEF Life!Steps
  <2>2. req' = [req EXCEPT ![r].step = "clear", ![r].rev = n]
    BY <1>2
  <2>3. QED
    BY ONLY r \in Requests, <1>1, <2>1, <2>2, RevFields DEF Kept
<1>4. LifePath(req'[r]) /\ Entitled(req[r])'
  BY <1>1, <1>3 DEF LifePath, Entitled, Life!Writes
<1>5. CallMoves(r) /\ CanvasDirty(req'[r])
  BY <1>2, <1>3, <1>4 DEF CallMoves, Carries, CanvasDirty
<1>6. LifeRows'
  BY <1>2 DEF LifeInv, LifeRows
<1>7. ~overlap => FreshFor(req[r])'
  BY <1>5, AloneFresh DEF FreshFor, MetaFresh, LayersFresh, CanvasFresh, StateFresh, Idles,
     RowDirty, LayersDirty, CanvasDirty
<1>8. QED
  BY <1>5, <1>6, <1>7, OneMoves DEF Idles

-----------------------------------------------------------------------------
(* The invariant of a design's life, and what it says.                     *)
LEMMA LifeInit == Life!Init => LifeInv
<1> SUFFICES ASSUME Life!Init PROVE LifeInv
  OBVIOUS
<1> USE DEF Life!Init
<1>1. PICK v \in Born : design = [status |-> "draft", visibility |-> v, complete |-> TRUE,
                                  deleted |-> FALSE, rev |-> 1]
  OBVIOUS
<1>2. design \in Life!Design /\ design.rev = 1
  <2>1. v \in Life!Visibilities
    BY <1>1, BornAssumption
  <2>2. Life!Design = [status : {"draft", "published", "archived"}, visibility : Life!Visibilities,
                       complete : BOOLEAN, deleted : BOOLEAN, rev : Written]
    BY DEF Life!Design, Written
  <2>3. PICK b, c \in BOOLEAN : b = TRUE /\ c = FALSE
    OBVIOUS
  <2>4. design = [status |-> "draft", visibility |-> v, complete |-> b, deleted |-> c, rev |-> 1]
    BY <1>1, <2>3
  <2>5. QED
    BY <2>1, <2>2, <2>4, Revisions
<1>3. cache = [meta |-> {<<1, 0>>}, layers |-> {0}, canvas |-> {}, state |-> {}]
  BY DEF Life!Empty, Life!Nothing
<1>4. LifeRows
  <2>1. /\ {<<1, 0>>} \in SUBSET (Written \X Revs) /\ {0} \in SUBSET Revs /\ {} \in SUBSET Written
        /\ {} \in SUBSET (Written \X Revs \X Revs \X Written)
    BY Revisions
  <2>2. ASSUME NEW a \in SUBSET (Written \X Revs), NEW b \in SUBSET Revs,
               NEW c \in SUBSET Written, NEW s \in SUBSET (Written \X Revs \X Revs \X Written)
        PROVE  [meta |-> a, layers |-> b, canvas |-> c, state |-> s] \in LifeCache
    BY DEF LifeCache
  <2>3. cache \in LifeCache
    BY ONLY <1>3, <2>1, <2>2
  <2>4. QED
    BY <1>2, <2>3, Revisions DEF LifeRows
<1>5. \A r \in Requests : req[r] = Life!Idle
  OBVIOUS
<1>6. PICK idle \in LifeCall : idle = Life!Idle /\ idle.op = "none" /\ idle.step = "idle"
  <2>1. PICK b \in BOOLEAN : b = FALSE
    OBVIOUS
  <2>2. "idle" \in Life!Steps
    BY DEF Life!Steps
  <2> DEFINE idle == [op |-> "none", step |-> "idle", who |-> "none", rev |-> 0, with |-> 0, lay |-> 0,
                     saw |-> b]
  <2>3. idle \in LifeCall /\ idle.op = "none" /\ idle.step = "idle"
    BY <2>2, Revisions DEF LifeCall
  <2>4. idle = Life!Idle
    BY <2>1 DEF Life!Idle
  <2>5. QED
    BY <2>3, <2>4
<1>7. LifeCalls
  BY <1>6 DEF LifeCalls
<1>8. LifePaths /\ LifeSaw
  BY <1>5, <1>6 DEF LifePaths, LifePath, LifeSaw, Entitled
<1>9. AloneInv /\ CarryInv
  BY <1>5, <1>6 DEF AloneInv, CarryInv, Carries, Idles, Life!At
<1>10. FreshInv
  <2>1. cache.meta = {<<1, 0>>} /\ cache.layers = {0} /\ cache.canvas = {} /\ cache.state = {}
    BY ONLY <1>3
  <2>2. layerRev = 0
    OBVIOUS
  <2>3. QED
    BY <1>2, <2>1, <2>2 DEF FreshInv, MetaFresh, LayersFresh, CanvasFresh, StateFresh
<1>11. LifeBooks
  <2>1. calls \in 0..MaxCalls
    BY Revisions
  <2>2. QED
    BY <2>1 DEF LifeBooks
<1>12. QED
  BY <1>4, <1>7, <1>8, <1>9, <1>10, <1>11 DEF LifeInv

(* Nothing of the life cycle moves.                                        *)
LEMMA LifeRests ==
    ASSUME LifeInv, UNCHANGED lifeVars
    PROVE  LifeInv'
<1> USE DEF LifeInv, lifeVars
<1>1. LifeRows' /\ LifeBooks' /\ LifeCalls' /\ LifePaths'
  BY DEF LifeRows, LifeBooks, LifeCalls, LifePaths
<1>2. LifeSaw'
  BY DEF LifeSaw, Entitled
<1>3. AloneInv' /\ CarryInv'
  BY DEF AloneInv, CarryInv, Carries, HasRow, Idles, Life!At
<1>4. FreshInv'
  BY DEF FreshInv, MetaFresh, LayersFresh, CanvasFresh, StateFresh
<1>5. QED
  BY <1>1, <1>2, <1>3, <1>4

(* Every step keeps the invariant of the life cycle.                       *)
LEMMA LifeSteps == LifeInv /\ [Next]_vars => LifeInv'
<1> SUFFICES ASSUME LifeInv, [Next]_vars PROVE LifeInv'
  OBVIOUS
<1>1. CASE Next /\ ~UNCHANGED lifeVars
  <2>1. \/ Life!Expire
        \/ \E r \in Requests :
             \/ Life!Start(r) \/ Life!VerifyAccess(r) \/ Life!GetCached(r)
             \/ Life!FindDesign(r) \/ Life!GetVerify(r) \/ Life!StoreDesign(r)
             \/ Life!StoreLayers(r) \/ Life!StateCached(r) \/ Life!StateLayers(r)
             \/ Life!StateStore(r) \/ Life!LayersCached(r) \/ Life!CanvasCached(r)
             \/ Life!ValidateDesignCompleteness(r) \/ Life!UpdateDesign(r)
             \/ Life!PublishDesign(r) \/ Life!UnpublishDesign(r)
             \/ Life!ArchiveDesign(r) \/ Life!DeleteDesign(r)
             \/ Life!IncrementViewCount(r) \/ Life!Reread(r) \/ Life!ChangeLayers(r)
             \/ Life!UpdateCanvasSettings(r) \/ Life!Invalidate(r)
             \/ Life!Refill(r) \/ Life!Answer(r) \/ Life!FindOriginal(r)
             \/ Life!ForkDesign(r) \/ Life!CommitFork(r) \/ Life!CallFails(r)
    BY <1>1 DEF Next, OnLife, OnCreation, OnRender
  <2>2. QED
    BY <2>1, LifeExpire, LifeStart, LifeReads, LifeStores, LifeWrites, LifeLayersWrite,
       LifeCanvasWrite, LifeInvalidate, LifeFails
<1>2. CASE UNCHANGED lifeVars
  BY <1>2, LifeRests
<1>3. QED
  BY <1>1, <1>2 DEF vars

(* The invariant of the life cycle.                                        *)
LEMMA LifeHolds == Spec => []LifeInv
<1>1. Init => LifeInv
  BY LifeInit DEF Init
<1>2. LifeInv /\ [Next]_vars => LifeInv'
  BY LifeSteps
<1>3. QED
  BY <1>1, <1>2, PTL DEF Spec

(* It contains type correctness.                                           *)
LEMMA LifeTypes == LifeInv => Life!TypeOK
<1> SUFFICES ASSUME LifeInv PROVE Life!TypeOK
  OBVIOUS
<1> USE DEF LifeInv
<1>1. design \in Life!Design /\ layerRev \in Revs /\ canvasRev \in Written
  BY DEF LifeRows
<1>2. /\ cache.meta \subseteq Written \X Revs /\ cache.layers \subseteq Revs
      /\ cache.canvas \subseteq Written /\ cache.state \subseteq Written \X Revs \X Revs \X Written
      /\ missed \subseteq Life!Keys
  BY DEF LifeRows, LifeCache
<1>3. \A r \in Requests :
         /\ req[r].op \in Life!Reads \cup Life!Writes \cup {"none"} /\ req[r].step \in Life!Steps
         /\ req[r].who \in Users \cup {"none"} /\ req[r].saw \in BOOLEAN
         /\ {req[r].rev, req[r].with, req[r].lay} \subseteq Revs
  BY DEF LifeCalls, LifeCall
<1>4. overlap \in BOOLEAN /\ calls \in 0..MaxCalls
  BY DEF LifeBooks
<1>5. QED
  BY <1>1, <1>2, <1>3, <1>4, Zenon DEF Life!TypeOK, Revs, Written

(* However stale a cached copy is, nobody is served a design that was      *)
(* closed to them throughout their call: saw is kept true of whoever may   *)
(* see the row, and every way to an answer passes a check of the row.      *)
THEOREM OpenDesignsServed == Spec => []ServedOnlyIfOpen
<1>1. LifeInv => ServedOnlyIfOpen
  BY DEF LifeInv, LifeSaw, Entitled, ServedOnlyIfOpen, Life!ServedOnlyIfOpen, Life!At
<1>2. QED
  BY <1>1, LifeHolds, PTL

(* As long as calls do not overlap, a cached copy that no write left out   *)
(* is the current one when nothing runs: only a call between its write and *)
(* its invalidation leaves a stale entry, a call that fails there leaves   *)
(* all its keys out, and what a call stores is what it just read.          *)
THEOREM CacheFresh == Spec => []CacheFreshAlone
<1>1. LifeInv => CacheFreshAlone
  BY DEF LifeInv, FreshInv, MetaFresh, LayersFresh, CanvasFresh, StateFresh, RowDirty,
     LayersDirty, CanvasDirty, CacheFreshAlone,
     Life!CacheFreshAlone, Life!At
<1>2. QED
  BY <1>1, LifeHolds, PTL

-----------------------------------------------------------------------------
(***************************************************************************)
(* The creation of designs.  Each call of createDesign or forkDesign is    *)
(* counted where it stands: a call that has inserted its row and not yet   *)
(* answered builds a design; one that has passed the tier's check and not  *)
(* inserted yet is admitted.                                               *)
(***************************************************************************)
Ops == {"none", "create", "fork", "export", "snapshot", "restore", "layer"}
Stages == {"idle", "insert", "layers", "canvas", "version", "count", "snapshot", "restore"}
Numbers == 0..3
Names == Designs \cup {Creation!None}

CallerRecord == [op : Ops, step : Stages, who : Owners \cup {Creation!None},
                 design : Names, from : Names, n : Numbers]
RowRecord == [owner : Owners, from : Names, forks : Nat]
Present == DOMAIN row

Builds(x) == x.design # Creation!None /\ x.op \in {"create", "fork"}
Admitted(x) == x.op = "create" /\ x.step = "insert"

CallerPath(x) ==
    /\ x.step = "idle" <=> x.op = "none"
    /\ x.op \in {"create", "fork"} =>
          x.step \in {"insert", "layers", "canvas", "version", "count"}
    /\ x.op \in {"create", "fork", "export"} => x.who \in Owners
    /\ x.op = "create" => x.from = Creation!None
    /\ x.op = "fork" => x.from \in Present
    /\ x.step = "insert" => x.op \in {"create", "fork", "export"} /\ x.design = Creation!None
    /\ x.step \in {"layers", "canvas", "version", "count"} =>
          x.op \in {"create", "fork"} /\ x.design \in Present
    /\ x.step \in {"version", "count"} => x.design \in canvas
    /\ x.step = "count" => x.op = "fork" /\ <<x.design, 1>> \in versions

CreationTypes ==
    /\ Present \subseteq Designs /\ row \in [Present -> RowRecord]
    /\ canvas \subseteq Designs /\ layered \subseteq Designs
    /\ versions \subseteq Creation!Version
    /\ caller \in [Callers -> CallerRecord]
CreationBooks == exported \in [Owners -> 0..MaxExported] /\ failures \in 0..MaxFailures
CallerPaths == \A c \in Callers : CallerPath(caller[c])
Origins == \A d \in Present : row[d].from \in Present \cup {Creation!None}

(* What the counts are of.                                                 *)
Built == {caller[c].design : c \in Creation!Building}
Lost == Creation!Unfinished \ Built
ForksOf(d) == {e \in Present : row[e].from = d}
Pending(d) == {c \in Creation!Building : caller[c].from = d}
Own(u) == {d \in Creation!Owned(u) : row[d].from = Creation!None}
Inserting(u) == {c \in Callers : Admitted(caller[c]) /\ caller[c].who = u}

(* An unfinished design that nobody is building is one of a failed call;   *)
(* the counter of forks is behind by those being built and those that      *)
(* failed; the designs there are and those admitted go over the limit by   *)
(* the other callers at most.                                              *)
LostInv == Cardinality(Lost) <= failures
ForkInv ==
    \A d \in Present :
        /\ row[d].forks + Cardinality(Pending(d)) <= Cardinality(ForksOf(d))
        /\ Cardinality(ForksOf(d)) <= row[d].forks + Cardinality(Pending(d)) + failures
QuotaInv ==
    \A u \in Owners : Limits[u].maxDesigns # -1 =>
        Cardinality(Own(u)) + Cardinality(Inserting(u))
            <= Limits[u].maxDesigns + Cardinality(Callers) - 1

CreationInv ==
    /\ CreationTypes /\ CreationBooks /\ CallerPaths /\ Origins
    /\ LostInv /\ ForkInv /\ QuotaInv

-----------------------------------------------------------------------------
(* Counting.                                                               *)
LEMMA SameCount == \A S : Creation!Cardinality(S) = Cardinality(S)
BY DEF Creation!Cardinality, Cardinality

(* Sets of callers and of designs are finite and can be counted.           *)
LEMMA Parts ==
    /\ \A S \in SUBSET Callers : IsFiniteSet(S) /\ Cardinality(S) \in Nat
                                   /\ Cardinality(S) <= Cardinality(Callers)
    /\ \A S \in SUBSET Designs : IsFiniteSet(S) /\ Cardinality(S) \in Nat
    /\ Cardinality(Callers) \in Nat \ {0}
<1>1. IsFiniteSet(Callers) /\ IsFiniteSet(Designs) /\ Callers # {}
  BY FiniteAssumption, NamesAssumption
<1>2. Cardinality(Callers) \in Nat \ {0}
  BY <1>1, FS_CardinalityType, FS_EmptySet
<1>3. ASSUME NEW S \in SUBSET Callers
      PROVE  IsFiniteSet(S) /\ Cardinality(S) \in Nat /\ Cardinality(S) <= Cardinality(Callers)
  BY <1>1, FS_Subset, FS_CardinalityType
<1>4. ASSUME NEW S \in SUBSET Designs PROVE IsFiniteSet(S) /\ Cardinality(S) \in Nat
  BY <1>1, FS_Subset, FS_CardinalityType
<1>5. QED
  BY <1>2, <1>3, <1>4

(* One element more, at most one more to count.                            *)
LEMMA CountAdd ==
    ASSUME NEW S, NEW x, IsFiniteSet(S), Cardinality(S) \in Nat
    PROVE  /\ Cardinality(S \cup {x}) <= Cardinality(S) + 1
           /\ x \notin S => Cardinality(S \cup {x}) = Cardinality(S) + 1
BY FS_AddElement

(* One element less, at most one less to count.                            *)
LEMMA CountRemove ==
    ASSUME NEW S, NEW x, IsFiniteSet(S), Cardinality(S) \in Nat
    PROVE  /\ Cardinality(S \ {x}) <= Cardinality(S)
           /\ Cardinality(S) <= Cardinality(S \ {x}) + 1
           /\ x \in S => Cardinality(S \ {x}) = Cardinality(S) - 1
<1>1. Cardinality(S \ {x}) = IF x \in S THEN Cardinality(S) - 1 ELSE Cardinality(S)
  BY FS_RemoveElement
<1>2. PICK n \in Nat : n = Cardinality(S)
  OBVIOUS
<1>3. QED
  BY <1>1, <1>2

(* A part has no more elements than the whole.                             *)
LEMMA CountSubset ==
    ASSUME NEW S, NEW T \in SUBSET S, IsFiniteSet(S)
    PROVE  Cardinality(T) <= Cardinality(S)
BY FS_Subset

-----------------------------------------------------------------------------
(* What a call becomes, and the sets it enters and leaves.                 *)
LEMMA FirstNumbers == 0 \in Numbers /\ 1 \in Numbers /\ 2 \in Numbers /\ 3 \in Numbers
BY DEF Numbers

(* One caller's record changes.                                            *)
LEMMA CallerMoves ==
    ASSUME CreationTypes, NEW c \in Callers, NEW x \in CallerRecord,
           caller' = [caller EXCEPT ![c] = x]
    PROVE  /\ caller' \in [Callers -> CallerRecord] /\ caller'[c] = x
           /\ \A q \in Callers \ {c} : caller'[q] = caller[q]
BY DEF CreationTypes

(* A caller goes to another step and keeps the rest.                       *)
LEMMA StepMoves ==
    ASSUME CreationTypes, NEW c \in Callers, NEW s \in Stages, Creation!Now(c, s)
    PROVE  \E x \in CallerRecord :
             /\ caller' = [caller EXCEPT ![c] = x]
             /\ x.step = s /\ x.op = caller[c].op /\ x.who = caller[c].who
             /\ x.design = caller[c].design /\ x.from = caller[c].from
<1>1. caller[c] \in CallerRecord
  BY DEF CreationTypes
<1>2. [caller[c] EXCEPT !.step = s] \in CallerRecord
  BY <1>1 DEF CallerRecord
<1>3. QED
  BY <1>1, <1>2 DEF Creation!Now, CallerRecord

(* A caller without a call builds nothing and counts for nothing.          *)
LEMMA QuietCall ==
    /\ Creation!Quiet \in CallerRecord
    /\ ~Builds(Creation!Quiet) /\ ~Admitted(Creation!Quiet) /\ CallerPath(Creation!Quiet)
BY FirstNumbers DEF Creation!Quiet, Creation!None, CallerRecord, Builds, Admitted, CallerPath,
   Ops, Stages, Names

(* The sets of callers that are counted change by one caller at most.      *)
LEMMA GroupsMove ==
    ASSUME NEW c \in Callers, NEW x, caller'[c] = x,
           \A q \in Callers \ {c} : caller'[q] = caller[q]
    PROVE  /\ Builds(x) => (Creation!Building)' = Creation!Building \cup {c}
           /\ ~Builds(x) => (Creation!Building)' = Creation!Building \ {c}
           /\ \A u : /\ Admitted(x) /\ x.who = u => Inserting(u)' = Inserting(u) \cup {c}
                     /\ ~(Admitted(x) /\ x.who = u) => Inserting(u)' = Inserting(u) \ {c}
           /\ \A d : /\ Builds(x) /\ x.from = d => Pending(d)' = Pending(d) \cup {c}
                     /\ ~(Builds(x) /\ x.from = d) => Pending(d)' = Pending(d) \ {c}
<1>1. \A q \in Callers : q # c => caller'[q] = caller[q]
  OBVIOUS
<1>2. /\ Builds(x) => (Creation!Building)' = Creation!Building \cup {c}
      /\ ~Builds(x) => (Creation!Building)' = Creation!Building \ {c}
  BY <1>1 DEF Creation!Building, Builds
<1>3. ASSUME NEW u
      PROVE  /\ Admitted(x) /\ x.who = u => Inserting(u)' = Inserting(u) \cup {c}
             /\ ~(Admitted(x) /\ x.who = u) => Inserting(u)' = Inserting(u) \ {c}
  BY <1>1 DEF Inserting, Admitted
<1>4. ASSUME NEW d
      PROVE  /\ Builds(x) /\ x.from = d => Pending(d)' = Pending(d) \cup {c}
             /\ ~(Builds(x) /\ x.from = d) => Pending(d)' = Pending(d) \ {c}
  BY <1>1 DEF Pending, Creation!Building, Builds
<1>5. QED
  BY <1>2, <1>3, <1>4

(* More rows disturb no call in flight.                                    *)
LEMMA PathsKept ==
    ASSUME CallerPaths, NEW c \in Callers, CallerPath(caller[c])',
           \A q \in Callers \ {c} : caller'[q] = caller[q],
           Present \subseteq DOMAIN row', canvas \subseteq canvas', versions \subseteq versions'
    PROVE  CallerPaths'
<1> SUFFICES ASSUME NEW q \in Callers, q # c PROVE CallerPath(caller[q])'
  BY DEF CallerPaths
<1>1. CallerPath(caller[q]) /\ caller'[q] = caller[q]
  BY DEF CallerPaths
<1>2. QED
  BY <1>1 DEF CallerPath, Present

(* The sets that are counted.                                              *)
LEMMA Counted ==
    ASSUME CreationTypes
    PROVE  /\ Creation!Building \in SUBSET Callers /\ Creation!Unfinished \in SUBSET Designs
           /\ Lost \in SUBSET Designs
           /\ \A d : ForksOf(d) \in SUBSET Designs /\ Pending(d) \in SUBSET Callers
           /\ \A u : Own(u) \in SUBSET Designs /\ Inserting(u) \in SUBSET Callers
BY DEF CreationTypes, Creation!Building, Creation!Unfinished, Creation!Present, Lost, ForksOf,
   Pending, Own, Creation!Owned, Inserting, Present

-----------------------------------------------------------------------------
(* A move of a call that builds no design and leaves the rows alone; if it *)
(* is one that admits a creation, the limit was not reached.               *)
LEMMA OutsideMoves ==
    ASSUME CreationInv, NEW c \in Callers, NEW x \in CallerRecord,
           caller' = [caller EXCEPT ![c] = x],
           ~Builds(caller[c]), ~Builds(x), CallerPath(x),
           \A u \in Owners : Admitted(x) /\ x.who = u /\ Limits[u].maxDesigns # -1 =>
              Cardinality(Own(u)) < Limits[u].maxDesigns,
           UNCHANGED <<row, canvas, versions, layered, failures>>,
           CreationBooks'
    PROVE  CreationInv'
<1>1. /\ caller' \in [Callers -> CallerRecord] /\ caller'[c] = x
      /\ \A q \in Callers \ {c} : caller'[q] = caller[q]
  BY CallerMoves DEF CreationInv
<1>2. CreationTypes'
  BY <1>1 DEF CreationInv, CreationTypes, Present
<1>3. CallerPaths'
  <2>1. CallerPath(caller[c])'
    BY <1>1 DEF CallerPath, Present
  <2>2. QED
    BY <1>1, <2>1, PathsKept DEF CreationInv, Present
<1>4. Origins'
  BY DEF CreationInv, Origins, Present
<1>5. /\ c \notin Creation!Building
      /\ (Creation!Building)' = Creation!Building
      /\ \A d : Pending(d)' = Pending(d)
  BY <1>1, GroupsMove DEF Creation!Building, Builds, Pending
<1>6. /\ (Creation!Unfinished)' = Creation!Unfinished
      /\ \A d : ForksOf(d)' = ForksOf(d)
      /\ \A u : Own(u)' = Own(u)
  BY DEF Creation!Unfinished, Creation!Present, ForksOf, Present, Own, Creation!Owned
<1>7. Lost' = Lost
  <2>1. Built' = Built
    BY <1>1, <1>5 DEF Built, Creation!Building
  <2>2. QED
    BY <1>6, <2>1 DEF Lost
<1>8. LostInv' /\ ForkInv'
  BY <1>5, <1>6, <1>7 DEF CreationInv, LostInv, ForkInv, Present
<1>9. QuotaInv'
  <2> SUFFICES ASSUME NEW u \in Owners, Limits[u].maxDesigns # -1
               PROVE  Cardinality(Own(u)) + Cardinality(Inserting(u)')
                        <= Limits[u].maxDesigns + Cardinality(Callers) - 1
    BY <1>6 DEF QuotaInv
  <2>1. Limits[u].maxDesigns \in Nat
    BY LimitsAssumption
  <2>2. Cardinality(Own(u)) \in Nat /\ Inserting(u) \in SUBSET Callers
        /\ IsFiniteSet(Inserting(u)) /\ Cardinality(Inserting(u)) \in Nat
        /\ Cardinality(Callers) \in Nat \ {0}
    BY Counted, Parts DEF CreationInv
  <2>3. CASE Admitted(x) /\ x.who = u
    <3>1. Inserting(u)' \in SUBSET Callers
      BY <1>1, <2>2, <2>3, GroupsMove
    <3>2. Cardinality(Inserting(u)') <= Cardinality(Callers) /\ Cardinality(Inserting(u)') \in Nat
      BY <3>1, Parts
    <3>3. Cardinality(Own(u)) < Limits[u].maxDesigns
      BY <2>3
    <3>4. QED
      BY <2>1, <2>2, <3>2, <3>3
  <2>4. CASE ~(Admitted(x) /\ x.who = u)
    <3>1. Inserting(u)' = Inserting(u) \ {c}
      BY <1>1, <2>4, GroupsMove
    <3>2. Cardinality(Inserting(u)') <= Cardinality(Inserting(u)) /\ Cardinality(Inserting(u)') \in Nat
      BY <2>2, <3>1, CountRemove, Parts
    <3>3. Cardinality(Own(u)) + Cardinality(Inserting(u))
            <= Limits[u].maxDesigns + Cardinality(Callers) - 1
      BY DEF CreationInv, QuotaInv
    <3>4. QED
      BY <2>1, <2>2, <3>2, <3>3
  <2>5. QED
    BY <2>3, <2>4
<1>10. QED
  BY <1>2, <1>3, <1>4, <1>8, <1>9 DEF CreationInv

(* A step of a call that builds: more of its design is there.              *)
LEMMA InsideMoves ==
    ASSUME CreationInv, NEW c \in Callers, NEW x \in CallerRecord,
           caller' = [caller EXCEPT ![c] = x],
           Builds(caller[c]), ~Admitted(caller[c]), ~Admitted(x), CallerPath(caller[c])',
           x.op = caller[c].op, x.design = caller[c].design, x.from = caller[c].from,
           canvas \subseteq canvas', canvas' \subseteq Designs,
           versions \subseteq versions', versions' \subseteq Creation!Version,
           layered' \subseteq Designs,
           UNCHANGED <<row, exported, failures>>
    PROVE  CreationInv'
<1>1. /\ caller' \in [Callers -> CallerRecord] /\ caller'[c] = x
      /\ \A q \in Callers \ {c} : caller'[q] = caller[q]
  BY CallerMoves DEF CreationInv
<1>2. CreationTypes' /\ CreationBooks'
  BY <1>1 DEF CreationInv, CreationTypes, CreationBooks, Present
<1>3. CallerPaths'
  BY <1>1, PathsKept DEF CreationInv, Present
<1>4. Origins'
  BY DEF CreationInv, Origins, Present
<1>5. /\ c \in Creation!Building /\ Builds(x)
      /\ (Creation!Building)' = Creation!Building
      /\ \A d : Pending(d)' = Pending(d)
      /\ \A u : Inserting(u)' = Inserting(u)
  BY <1>1, GroupsMove DEF Creation!Building, Builds, Pending, Inserting
<1>6. /\ (Creation!Unfinished)' \subseteq Creation!Unfinished
      /\ \A d : ForksOf(d)' = ForksOf(d)
      /\ \A u : Own(u)' = Own(u)
  BY DEF Creation!Unfinished, Creation!Present, ForksOf, Present, Own, Creation!Owned
<1>7. Lost' \subseteq Lost
  <2>1. \A q \in Callers : caller'[q].design = caller[q].design
    BY <1>1
  <2>2. Built' = Built
    BY <1>5, <2>1 DEF Built, Creation!Building
  <2>3. QED
    BY <1>6, <2>2 DEF Lost
<1>8. LostInv'
  <2>1. Cardinality(Lost') <= Cardinality(Lost)
        /\ Cardinality(Lost') \in Nat /\ Cardinality(Lost) \in Nat
    <3>1. Lost \in SUBSET Designs /\ Lost' \in SUBSET Designs
      BY <1>7, Counted DEF CreationInv
    <3>2. QED
      BY <1>7, <3>1, Parts, CountSubset
  <2>2. failures \in Nat /\ Cardinality(Lost) <= failures
    BY LimitsAssumption DEF CreationInv, CreationBooks, LostInv
  <2>3. QED
    BY <2>1, <2>2 DEF LostInv
<1>9. ForkInv' /\ QuotaInv'
  BY <1>5, <1>6 DEF CreationInv, ForkInv, QuotaInv, Present
<1>10. QED
  BY <1>2, <1>3, <1>4, <1>8, <1>9 DEF CreationInv

-----------------------------------------------------------------------------
(* A row is inserted, and its call builds it from then on.                 *)
LEMMA InsertFields ==
    ASSUME CreationInv, NEW c \in Callers, NEW d \in Designs \ Present,
           row' = [e \in Present \cup {d} |->
                     IF e = d THEN [owner |-> caller[c].who, from |-> caller[c].from, forks |-> 0]
                     ELSE row[e]],
           caller[c].op \in {"create", "fork"}
    PROVE  /\ DOMAIN row' = Present \cup {d} /\ row' \in [DOMAIN row' -> RowRecord]
           /\ \A e \in Present : row'[e] = row[e]
           /\ row'[d].owner = caller[c].who /\ row'[d].from = caller[c].from /\ row'[d].forks = 0
           /\ caller[c].from \in Present \cup {Creation!None}
           /\ caller[c].from = Creation!None <=> caller[c].op = "create"
<1>1. caller[c] \in CallerRecord /\ CallerPath(caller[c]) /\ Present \subseteq Designs
      /\ row \in [Present -> RowRecord]
  BY DEF CreationInv, CreationTypes, CallerPaths
<1>2. /\ caller[c].who \in Owners /\ caller[c].from \in Present \cup {Creation!None}
      /\ caller[c].from = Creation!None <=> caller[c].op = "create"
  BY <1>1, NamesAssumption DEF CallerPath
<1>3. [owner |-> caller[c].who, from |-> caller[c].from, forks |-> 0] \in RowRecord
  BY <1>1, <1>2 DEF RowRecord, Names
<1>4. QED
  BY <1>1, <1>2, <1>3

(* The design's row is inserted: the first of the creation's rows.         *)
LEMMA CreationInsert ==
    ASSUME CreationInv, NEW c \in Callers, Creation!InsertDesign(c)
    PROVE  CreationInv'
<1> USE DEF Creation!On
<1>1. PICK d \in Designs \ Present :
         /\ row' = [e \in Present \cup {d} |->
                      IF e = d THEN [owner |-> caller[c].who, from |-> caller[c].from, forks |-> 0]
                      ELSE row[e]]
         /\ caller' = [caller EXCEPT ![c].design = d,
                          ![c].step = IF caller[c].from \in layered THEN "layers" ELSE "canvas"]
  BY DEF Creation!InsertDesign, Creation!Present, Present
<1>2. /\ caller[c] \in CallerRecord /\ CallerPath(caller[c]) /\ Present \subseteq Designs
      /\ caller[c].step = "insert" /\ caller[c].op \in {"create", "fork"}
      /\ UNCHANGED <<canvas, versions, layered, exported, failures>>
  BY DEF CreationInv, CreationTypes, CallerPaths, Creation!InsertDesign
<1>3. /\ DOMAIN row' = Present \cup {d} /\ row' \in [DOMAIN row' -> RowRecord]
      /\ \A e \in Present : row'[e] = row[e]
      /\ row'[d].owner = caller[c].who /\ row'[d].from = caller[c].from /\ row'[d].forks = 0
      /\ caller[c].from \in Present \cup {Creation!None}
      /\ caller[c].from = Creation!None <=> caller[c].op = "create"
  BY <1>1, <1>2, InsertFields
<1>4. PICK x \in CallerRecord :
         /\ caller' = [caller EXCEPT ![c] = x]
         /\ x.design = d /\ x.step \in {"layers", "canvas"}
         /\ x.op = caller[c].op /\ x.who = caller[c].who /\ x.from = caller[c].from
  <2>1. PICK s \in {"layers", "canvas"} :
           s = IF caller[c].from \in layered THEN "layers" ELSE "canvas"
    OBVIOUS
  <2>2. [caller[c] EXCEPT !.design = d, !.step = s] \in CallerRecord
    BY <1>2 DEF CallerRecord, Names, Stages
  <2>3. caller' = [caller EXCEPT ![c] = [caller[c] EXCEPT !.design = d, !.step = s]]
    BY <1>1, <2>1
  <2>4. QED
    BY <1>2, <2>2, <2>3 DEF CallerRecord
<1>5. /\ caller' \in [Callers -> CallerRecord] /\ caller'[c] = x
      /\ \A q \in Callers \ {c} : caller'[q] = caller[q]
  BY <1>4, CallerMoves DEF CreationInv
<1>6. /\ Builds(x) /\ ~Admitted(x) /\ ~Builds(caller[c])
      /\ Admitted(caller[c]) <=> caller[c].op = "create"
  BY <1>2, <1>4, NamesAssumption DEF Builds, Admitted, CallerPath
<1>7. CreationTypes' /\ CreationBooks'
  BY <1>2, <1>3, <1>5 DEF CreationInv, CreationTypes, CreationBooks, Present
<1>8. CallerPaths'
  <2>1. CallerPath(caller[c])'
    BY <1>2, <1>3, <1>4, <1>5 DEF CallerPath, Present
  <2>2. QED
    BY <1>2, <1>3, <1>5, <2>1, PathsKept DEF CreationInv, Present
<1>9. Origins'
  BY <1>3 DEF CreationInv, Origins, Present
<1>10. /\ c \notin Creation!Building /\ (Creation!Building)' = Creation!Building \cup {c}
       /\ \A e : /\ caller[c].from = e => c \notin Pending(e) /\ Pending(e)' = Pending(e) \cup {c}
                 /\ caller[c].from # e => Pending(e)' = Pending(e)
       /\ \A u : Inserting(u)' = Inserting(u) \ {c}
  BY <1>4, <1>5, <1>6, GroupsMove DEF Creation!Building, Builds, Pending
<1>11. LostInv'
  <2>1. Built' = Built \cup {d}
    <3>1. \A q \in Creation!Building : caller'[q] = caller[q]
      BY <1>5, <1>10 DEF Creation!Building
    <3>2. caller'[c].design = d
      BY <1>4, <1>5
    <3>3. QED
      BY <1>10, <3>1, <3>2 DEF Built
  <2>2. (Creation!Unfinished)' \subseteq Creation!Unfinished \cup {d}
    BY <1>2, <1>3 DEF Creation!Unfinished, Creation!Present, Present
  <2>3. Lost' \subseteq Lost
    BY <2>1, <2>2 DEF Lost
  <2>4. Lost \in SUBSET Designs /\ Lost' \in SUBSET Designs
    BY <2>3, Counted DEF CreationInv
  <2>5. /\ Cardinality(Lost') <= Cardinality(Lost)
        /\ Cardinality(Lost') \in Nat /\ Cardinality(Lost) \in Nat
    BY <2>3, <2>4, Parts, CountSubset
  <2>6. failures \in Nat /\ Cardinality(Lost) <= failures
    BY LimitsAssumption DEF CreationInv, CreationBooks, LostInv
  <2>7. QED
    BY <1>2, <2>5, <2>6 DEF LostInv
<1>12. ForkInv'
  <2> SUFFICES ASSUME NEW e \in Present \cup {d}
               PROVE  /\ row'[e].forks + Cardinality(Pending(e)') <= Cardinality(ForksOf(e)')
                      /\ Cardinality(ForksOf(e)')
                           <= row'[e].forks + Cardinality(Pending(e)') + failures
    BY <1>2, <1>3 DEF ForkInv, Present
  <2>1. failures \in Nat
    BY LimitsAssumption DEF CreationInv, CreationBooks
  <2>2. CASE e = d
    <3>1. Pending(d) = {} /\ caller[c].from # d
      BY <1>3, NamesAssumption DEF CreationInv, CallerPaths, CallerPath, Pending, Creation!Building
    <3>2. ForksOf(d)' = {}
      BY <1>3, NamesAssumption DEF CreationInv, Origins, ForksOf, Present
    <3>3. QED
      BY <1>3, <1>10, <2>1, <2>2, <3>1, <3>2, FS_EmptySet
  <2>3. CASE e \in Present
    <3>1. /\ row'[e].forks = row[e].forks /\ row[e].forks \in Nat
      BY <1>3, <2>3 DEF CreationInv, CreationTypes, RowRecord
    <3>2. /\ IsFiniteSet(Pending(e)) /\ Cardinality(Pending(e)) \in Nat
          /\ IsFiniteSet(ForksOf(e)) /\ Cardinality(ForksOf(e)) \in Nat
      BY Counted, Parts DEF CreationInv
    <3>3. /\ row[e].forks + Cardinality(Pending(e)) <= Cardinality(ForksOf(e))
          /\ Cardinality(ForksOf(e)) <= row[e].forks + Cardinality(Pending(e)) + failures
      BY <2>3 DEF CreationInv, ForkInv
    <3>4. CASE caller[c].from = e
      <4>1. d \notin ForksOf(e) /\ ForksOf(e)' = ForksOf(e) \cup {d}
        BY <1>3, <3>4 DEF ForksOf, Present
      <4>2. Cardinality(ForksOf(e)') = Cardinality(ForksOf(e)) + 1
        BY <3>2, <4>1, CountAdd
      <4>3. Cardinality(Pending(e)') = Cardinality(Pending(e)) + 1
        BY <1>10, <3>2, <3>4, CountAdd
      <4>4. QED
        BY <2>1, <3>1, <3>2, <3>3, <4>2, <4>3
    <3>5. CASE caller[c].from # e
      <4>1. ForksOf(e)' = ForksOf(e)
        BY <1>3, <3>5 DEF ForksOf, Present
      <4>2. QED
        BY <1>10, <3>1, <3>3, <3>5, <4>1
    <3>6. QED
      BY <3>4, <3>5
  <2>4. QED
    BY <2>2, <2>3
<1>13. QuotaInv'
  <2> SUFFICES ASSUME NEW u \in Owners, Limits[u].maxDesigns # -1
               PROVE  Cardinality(Own(u)') + Cardinality(Inserting(u)')
                        <= Limits[u].maxDesigns + Cardinality(Callers) - 1
    BY DEF QuotaInv
  <2>1. Limits[u].maxDesigns \in Nat
    BY LimitsAssumption
  <2>2. /\ IsFiniteSet(Own(u)) /\ Cardinality(Own(u)) \in Nat
        /\ IsFiniteSet(Inserting(u)) /\ Cardinality(Inserting(u)) \in Nat
        /\ Inserting(u) \ {c} \in SUBSET Callers
        /\ Cardinality(Callers) \in Nat
    BY Counted, Parts DEF CreationInv
  <2>3. Cardinality(Own(u)) + Cardinality(Inserting(u))
          <= Limits[u].maxDesigns + Cardinality(Callers) - 1
    BY DEF CreationInv, QuotaInv
  <2>4. Cardinality(Inserting(u)') <= Cardinality(Inserting(u)) /\ Cardinality(Inserting(u)') \in Nat
    BY <1>10, <2>2, CountRemove, Parts
  <2>5. CASE caller[c].op = "create" /\ caller[c].who = u
    <3>1. c \in Inserting(u)
      BY <1>6, <2>5 DEF Inserting
    <3>2. Cardinality(Inserting(u)') = Cardinality(Inserting(u)) - 1
      BY <1>10, <2>2, <3>1, CountRemove
    <3>3. Own(u)' = Own(u) \cup {d}
      BY <1>3, <2>5 DEF Own, Creation!Owned, Creation!Present, Present
    <3>4. Cardinality(Own(u)') <= Cardinality(Own(u)) + 1 /\ Cardinality(Own(u)') \in Nat
      BY <2>2, <3>3, CountAdd, FS_AddElement, FS_CardinalityType
    <3>5. QED
      BY <2>1, <2>2, <2>3, <2>4, <3>2, <3>4
  <2>6. CASE ~(caller[c].op = "create" /\ caller[c].who = u)
    <3>1. Own(u)' = Own(u)
      BY <1>3, <2>6 DEF Own, Creation!Owned, Creation!Present, Present
    <3>2. QED
      BY <2>1, <2>2, <2>3, <2>4, <3>1
  <2>7. QED
    BY <2>5, <2>6
<1>14. QED
  BY <1>7, <1>8, <1>9, <1>11, <1>12, <1>13 DEF CreationInv

-----------------------------------------------------------------------------
(* A call ends, whole or not; the counter of a row may change meanwhile.   *)
LEMMA EndMoves ==
    ASSUME CreationInv, NEW c \in Callers, Creation!Done(c),
           DOMAIN row' = Present, row' \in [Present -> RowRecord],
           \A e \in Present : row'[e].owner = row[e].owner /\ row'[e].from = row[e].from,
           versions \subseteq versions', versions' \subseteq Creation!Version,
           UNCHANGED <<canvas, layered>>
    PROVE  /\ CreationTypes' /\ CallerPaths' /\ Origins' /\ QuotaInv'
           /\ \A d : Pending(d)' = Pending(d) \ {c}
           /\ \A d : ForksOf(d)' = ForksOf(d)
           /\ Lost' \subseteq Lost \cup {caller[c].design}
           /\ ~Builds(caller[c]) \/ caller[c].design \notin (Creation!Unfinished)' =>
                 Lost' \subseteq Lost
           /\ Lost \in SUBSET Designs /\ Lost' \in SUBSET Designs
           /\ IsFiniteSet(Lost) /\ Cardinality(Lost) \in Nat /\ Cardinality(Lost') \in Nat
           /\ failures \in Nat
<1> DEFINE x == Creation!Quiet
<1>1. /\ caller' \in [Callers -> CallerRecord] /\ caller'[c] = x
      /\ \A q \in Callers \ {c} : caller'[q] = caller[q]
  BY QuietCall, CallerMoves DEF CreationInv, Creation!Done
<1>2. ~Builds(x) /\ ~Admitted(x) /\ CallerPath(x)
  BY QuietCall
<1> HIDE DEF x
<1>3. CreationTypes'
  BY <1>1 DEF CreationInv, CreationTypes, Present
<1>4. CallerPaths'
  <2>1. CallerPath(caller[c])'
    BY <1>1 DEF x, Creation!Quiet, CallerPath
  <2>2. QED
    BY <1>1, <2>1, PathsKept DEF CreationInv
<1>5. Origins'
  BY DEF CreationInv, Origins, Present
<1>6. /\ (Creation!Building)' = Creation!Building \ {c}
      /\ \A d : Pending(d)' = Pending(d) \ {c}
      /\ \A u : Inserting(u)' = Inserting(u) \ {c}
  BY <1>1, <1>2, GroupsMove
<1>7. /\ (Creation!Unfinished)' \subseteq Creation!Unfinished
      /\ \A d : ForksOf(d)' = ForksOf(d)
      /\ \A u : Own(u)' = Own(u)
  BY DEF Creation!Unfinished, Creation!Present, ForksOf, Present, Own, Creation!Owned
<1>8. QuotaInv'
  <2> SUFFICES ASSUME NEW u \in Owners, Limits[u].maxDesigns # -1
               PROVE  Cardinality(Own(u)) + Cardinality(Inserting(u) \ {c})
                        <= Limits[u].maxDesigns + Cardinality(Callers) - 1
    BY <1>6, <1>7 DEF QuotaInv
  <2>1. Limits[u].maxDesigns \in Nat
    BY LimitsAssumption
  <2>2. /\ Cardinality(Own(u)) \in Nat /\ Cardinality(Callers) \in Nat
        /\ IsFiniteSet(Inserting(u)) /\ Cardinality(Inserting(u)) \in Nat
        /\ Cardinality(Inserting(u) \ {c}) \in Nat
    <3>1. Inserting(u) \ {c} \in SUBSET Callers
      BY DEF Inserting
    <3>2. QED
      BY <3>1, Counted, Parts DEF CreationInv
  <2>3. Cardinality(Inserting(u) \ {c}) <= Cardinality(Inserting(u))
    BY <2>2, CountRemove
  <2>4. Cardinality(Own(u)) + Cardinality(Inserting(u))
          <= Limits[u].maxDesigns + Cardinality(Callers) - 1
    BY DEF CreationInv, QuotaInv
  <2>5. QED
    BY <2>1, <2>2, <2>3, <2>4
<1>9. Built \subseteq Built' \cup {caller[c].design}
  <2>1. \A q \in Creation!Building \ {c} : caller'[q] = caller[q]
    BY <1>1 DEF Creation!Building
  <2>2. QED
    BY <1>6, <2>1 DEF Built
<1>10. Lost' \subseteq Lost \cup {caller[c].design}
  BY <1>7, <1>9 DEF Lost
<1>11. ~Builds(caller[c]) \/ caller[c].design \notin (Creation!Unfinished)' => Lost' \subseteq Lost
  <2>1. CASE ~Builds(caller[c])
    <3>1. c \notin Creation!Building
      BY <2>1 DEF Creation!Building, Builds
    <3>2. Built \subseteq Built'
      BY <1>1, <1>6, <3>1 DEF Built, Creation!Building
    <3>3. QED
      BY <1>7, <3>2 DEF Lost
  <2>2. CASE caller[c].design \notin (Creation!Unfinished)'
    BY <1>10, <2>2 DEF Lost
  <2>3. QED
    BY <2>1, <2>2
<1>12. /\ Lost \in SUBSET Designs /\ Lost' \in SUBSET Designs
       /\ IsFiniteSet(Lost) /\ Cardinality(Lost) \in Nat /\ Cardinality(Lost') \in Nat
  <2>1. Lost \in SUBSET Designs
    BY Counted DEF CreationInv
  <2>2. Lost' \in SUBSET Designs
    BY DEF Lost, Creation!Unfinished, Creation!Present, CreationInv, CreationTypes
  <2>3. QED
    BY <2>1, <2>2, Parts
<1>13. failures \in Nat
  BY LimitsAssumption DEF CreationInv, CreationBooks
<1>14. QED
  BY <1>3, <1>4, <1>5, <1>6, <1>7, <1>8, <1>10, <1>11, <1>12, <1>13

(* What is counted when a design's call ends.                              *)
LEMMA ForkCounts ==
    ASSUME CreationInv, NEW d \in Present
    PROVE  /\ row[d].forks \in Nat /\ failures \in Nat
           /\ IsFiniteSet(Pending(d)) /\ Cardinality(Pending(d)) \in Nat
           /\ Cardinality(ForksOf(d)) \in Nat
           /\ row[d].forks + Cardinality(Pending(d)) <= Cardinality(ForksOf(d))
           /\ Cardinality(ForksOf(d)) <= row[d].forks + Cardinality(Pending(d)) + failures
<1>1. row[d].forks \in Nat
  BY DEF CreationInv, CreationTypes, RowRecord
<1>2. failures \in Nat
  BY LimitsAssumption DEF CreationInv, CreationBooks
<1>3. /\ IsFiniteSet(Pending(d)) /\ Cardinality(Pending(d)) \in Nat
      /\ Cardinality(ForksOf(d)) \in Nat
  BY Counted, Parts DEF CreationInv
<1>4. QED
  BY <1>1, <1>2, <1>3 DEF CreationInv, ForkInv

(* A query fails, and what was inserted stays.                             *)
LEMMA CreationFails ==
    ASSUME CreationInv, NEW c \in Callers, Creation!QueryFails(c)
    PROVE  CreationInv'
<1> USE DEF Creation!QueryFails, Creation!On
<1>1. /\ CreationTypes' /\ CallerPaths' /\ Origins' /\ QuotaInv'
      /\ \A d : Pending(d)' = Pending(d) \ {c}
      /\ \A d : ForksOf(d)' = ForksOf(d)
      /\ Lost' \subseteq Lost \cup {caller[c].design}
      /\ Lost \in SUBSET Designs /\ Lost' \in SUBSET Designs
      /\ IsFiniteSet(Lost) /\ Cardinality(Lost) \in Nat /\ Cardinality(Lost') \in Nat
      /\ failures \in Nat
  BY EndMoves DEF CreationInv, CreationTypes, Present
<1>2. CreationBooks'
  BY LimitsAssumption DEF CreationInv, CreationBooks
<1>3. LostInv'
  <2>1. IsFiniteSet(Lost \cup {caller[c].design})
    BY <1>1, FS_AddElement
  <2>2. Cardinality(Lost') <= Cardinality(Lost \cup {caller[c].design})
    BY <1>1, <2>1, CountSubset
  <2>3. /\ Cardinality(Lost \cup {caller[c].design}) <= Cardinality(Lost) + 1
        /\ Cardinality(Lost \cup {caller[c].design}) \in Nat
    BY <1>1, <2>1, CountAdd, FS_CardinalityType
  <2>4. Cardinality(Lost) <= failures
    BY DEF CreationInv, LostInv
  <2>5. QED
    BY <1>1, <2>2, <2>3, <2>4 DEF LostInv
<1>4. ForkInv'
  <2> SUFFICES ASSUME NEW d \in Present
               PROVE  /\ row[d].forks + Cardinality(Pending(d)') <= Cardinality(ForksOf(d)')
                      /\ Cardinality(ForksOf(d)') <= row[d].forks + Cardinality(Pending(d)') + failures'
    BY DEF ForkInv, Present
  <2>1. /\ Cardinality(Pending(d) \ {c}) <= Cardinality(Pending(d))
        /\ Cardinality(Pending(d)) <= Cardinality(Pending(d) \ {c}) + 1
        /\ Cardinality(Pending(d) \ {c}) \in Nat
    BY ForkCounts, CountRemove, FS_RemoveElement, FS_CardinalityType
  <2>2. /\ row[d].forks \in Nat /\ failures \in Nat /\ failures' = failures + 1
        /\ Cardinality(Pending(d)) \in Nat /\ Cardinality(ForksOf(d)) \in Nat
        /\ row[d].forks + Cardinality(Pending(d)) <= Cardinality(ForksOf(d))
        /\ Cardinality(ForksOf(d)) <= row[d].forks + Cardinality(Pending(d)) + failures
    BY ForkCounts
  <2>3. Pending(d)' = Pending(d) \ {c} /\ ForksOf(d)' = ForksOf(d)
    BY <1>1
  <2>4. QED
    BY ONLY <2>1, <2>2, <2>3
<1>5. QED
  BY <1>1, <1>2, <1>3, <1>4 DEF CreationInv

(* The first version, after which a createDesign answers.                  *)
LEMMA CreationVersion ==
    ASSUME CreationInv, NEW c \in Callers, Creation!InsertVersion(c)
    PROVE  CreationInv'
<1> USE DEF Creation!On
<1>1. /\ caller[c] \in CallerRecord /\ CallerPath(caller[c]) /\ Present \subseteq Designs
      /\ caller[c].step = "version" /\ caller[c].op \in {"create", "fork"}
      /\ caller[c].design \in Present /\ caller[c].design \in canvas
      /\ versions' = versions \cup {<<caller[c].design, 1>>}
      /\ UNCHANGED <<row, canvas, layered, exported, failures>>
  BY DEF CreationInv, CreationTypes, CallerPaths, CallerPath, Creation!InsertVersion
<1>2. Builds(caller[c]) /\ ~Admitted(caller[c])
  BY <1>1, NamesAssumption DEF Builds, Admitted
<1>3. versions' \subseteq Creation!Version
  <2>1. 1 \in 1..2
    OBVIOUS
  <2>2. QED
    BY <1>1, <2>1 DEF CreationInv, CreationTypes, Creation!Version
<1>4. CASE caller[c].op = "fork"
  <2>1. PICK x \in CallerRecord :
             /\ caller' = [caller EXCEPT ![c] = x]
             /\ x.step = "count" /\ x.op = caller[c].op /\ x.who = caller[c].who
             /\ x.design = caller[c].design /\ x.from = caller[c].from
    BY <1>4, StepMoves DEF CreationInv, Creation!InsertVersion, Stages
  <2>2. caller'[c] = x
    BY <2>1, CallerMoves DEF CreationInv
  <2>3. ~Admitted(x) /\ CallerPath(caller[c])'
    BY <1>1, <1>4, <2>1, <2>2 DEF Admitted, CallerPath, Present
  <2>4. QED
    BY <1>1, <1>2, <1>3, <2>1, <2>3, InsideMoves DEF CreationInv, CreationTypes
<1>5. CASE caller[c].op = "create"
  <2>1. Creation!Done(c)
    BY <1>5 DEF Creation!InsertVersion
  <2>2. caller[c].design \notin (Creation!Unfinished)'
    BY <1>1 DEF Creation!Unfinished
  <2>3. /\ CreationTypes' /\ CallerPaths' /\ Origins' /\ QuotaInv'
        /\ \A d : Pending(d)' = Pending(d) \ {c}
        /\ \A d : ForksOf(d)' = ForksOf(d)
        /\ Lost' \subseteq Lost
        /\ Lost \in SUBSET Designs /\ Lost' \in SUBSET Designs
        /\ IsFiniteSet(Lost) /\ Cardinality(Lost) \in Nat /\ Cardinality(Lost') \in Nat
        /\ failures \in Nat
    BY <1>1, <1>3, <2>1, <2>2, EndMoves DEF CreationInv, CreationTypes, Present
  <2>4. CreationBooks'
    BY <1>1 DEF CreationInv, CreationBooks
  <2>5. LostInv'
    <3>1. Cardinality(Lost') <= Cardinality(Lost)
      BY <2>3, CountSubset
    <3>2. QED
      BY <1>1, <2>3, <3>1 DEF CreationInv, LostInv
  <2>6. ForkInv'
    <3>1. \A d \in Present : Pending(d)' = Pending(d)
      BY <1>1, <1>5, <2>3, NamesAssumption DEF CallerPath, Pending
    <3>2. QED
      BY <1>1, <2>3, <3>1 DEF CreationInv, ForkInv, Present
  <2>7. QED
    BY <2>3, <2>4, <2>5, <2>6 DEF CreationInv
<1>6. QED
  BY <1>1, <1>4, <1>5

(* A fork's call counts it at the original, and answers.                   *)
LEMMA CreationCounts ==
    ASSUME CreationInv, NEW c \in Callers, Creation!IncrementForkCount(c)
    PROVE  CreationInv'
<1> USE DEF Creation!On
<1>1. /\ CallerPath(caller[c]) /\ row \in [Present -> RowRecord]
      /\ caller[c].step = "count" /\ caller[c].op = "fork"
      /\ caller[c].from \in Present /\ caller[c].design \in Present
      /\ caller[c].design \in canvas /\ <<caller[c].design, 1>> \in versions
      /\ Present \subseteq Designs
      /\ UNCHANGED <<canvas, versions, layered, exported, failures>> /\ Creation!Done(c)
  BY DEF CreationInv, CreationTypes, CallerPaths, CallerPath, Creation!IncrementForkCount
<1> DEFINE f == caller[c].from
<1>2. /\ DOMAIN row' = Present /\ row' \in [Present -> RowRecord]
      /\ \A e \in Present : row'[e].owner = row[e].owner /\ row'[e].from = row[e].from
      /\ row'[f].forks = row[f].forks + 1
      /\ \A e \in Present \ {f} : row'[e].forks = row[e].forks
  <2>1. row[f] \in RowRecord /\ row' = [row EXCEPT ![f].forks = @ + 1]
    BY <1>1 DEF Creation!IncrementForkCount
  <2>2. PICK n \in RowRecord : /\ n.owner = row[f].owner /\ n.from = row[f].from
                               /\ n.forks = row[f].forks + 1
                               /\ row' = [row EXCEPT ![f] = n]
    <3>1. [row[f] EXCEPT !.forks = @ + 1] \in RowRecord
      BY <2>1 DEF RowRecord
    <3>2. row' = [row EXCEPT ![f] = [row[f] EXCEPT !.forks = @ + 1]]
      BY <2>1
    <3>3. QED
      BY <2>1, <3>1, <3>2 DEF RowRecord
  <2>3. QED
    BY <1>1, <2>2 DEF Present
<1>3. caller[c].design \notin (Creation!Unfinished)'
  BY <1>1 DEF Creation!Unfinished
<1>4. /\ CreationTypes' /\ CallerPaths' /\ Origins' /\ QuotaInv'
      /\ \A d : Pending(d)' = Pending(d) \ {c}
      /\ \A d : ForksOf(d)' = ForksOf(d)
      /\ Lost' \subseteq Lost
      /\ Lost \in SUBSET Designs /\ Lost' \in SUBSET Designs
      /\ IsFiniteSet(Lost) /\ Cardinality(Lost) \in Nat /\ Cardinality(Lost') \in Nat
      /\ failures \in Nat
  BY <1>1, <1>2, <1>3, EndMoves DEF CreationInv, CreationTypes, Present
<1>5. CreationBooks'
  BY <1>1 DEF CreationInv, CreationBooks
<1>6. LostInv'
  <2>1. Cardinality(Lost') <= Cardinality(Lost)
    BY <1>4, CountSubset
  <2>2. QED
    BY <1>1, <1>4, <2>1 DEF CreationInv, LostInv
<1>7. c \in Pending(f)
  BY <1>1, NamesAssumption DEF Pending, Creation!Building
<1>8. ForkInv'
  <2> SUFFICES ASSUME NEW d \in Present
               PROVE  /\ row'[d].forks + Cardinality(Pending(d)') <= Cardinality(ForksOf(d)')
                      /\ Cardinality(ForksOf(d)') <= row'[d].forks + Cardinality(Pending(d)') + failures
    BY <1>1, <1>2 DEF ForkInv, Present
  <2>1. /\ row[d].forks \in Nat /\ failures \in Nat
        /\ Cardinality(Pending(d)) \in Nat /\ Cardinality(ForksOf(d)) \in Nat
        /\ row[d].forks + Cardinality(Pending(d)) <= Cardinality(ForksOf(d))
        /\ Cardinality(ForksOf(d)) <= row[d].forks + Cardinality(Pending(d)) + failures
    BY ForkCounts
  <2>2. Pending(d)' = Pending(d) \ {c} /\ ForksOf(d)' = ForksOf(d)
    BY <1>4
  <2>3. CASE d = f
    <3>1. Cardinality(Pending(d) \ {c}) = Cardinality(Pending(d)) - 1
      BY <1>7, <2>3, ForkCounts, CountRemove
    <3>2. row'[d].forks = row[d].forks + 1
      BY <1>2, <2>3
    <3>3. QED
      BY ONLY <2>1, <2>2, <3>1, <3>2
  <2>4. CASE d # f
    <3>1. Pending(d) \ {c} = Pending(d)
      BY <2>4 DEF Pending
    <3>2. row'[d].forks = row[d].forks
      BY <1>2, <2>4
    <3>3. QED
      BY ONLY <2>1, <2>2, <3>1, <3>2
  <2>5. QED
    BY <2>3, <2>4
<1>9. QED
  BY <1>4, <1>5, <1>6, <1>8 DEF CreationInv

-----------------------------------------------------------------------------
(* The rest of a creation, and the calls that create no design.            *)
LEMMA CreationInside ==
    ASSUME CreationInv, NEW c \in Callers, Creation!CloneLayers(c) \/ Creation!InsertCanvas(c)
    PROVE  CreationInv'
<1> USE DEF Creation!On
<1>1. PICK s \in {"canvas", "version"} :
         /\ Creation!Now(c, s)
         /\ s = "canvas" => Creation!CloneLayers(c)
         /\ s = "version" => Creation!InsertCanvas(c)
  BY DEF Creation!CloneLayers, Creation!InsertCanvas
<1>2. PICK x \in CallerRecord :
         /\ caller' = [caller EXCEPT ![c] = x]
         /\ x.step = s /\ x.op = caller[c].op /\ x.who = caller[c].who
         /\ x.design = caller[c].design /\ x.from = caller[c].from
  BY <1>1, StepMoves DEF CreationInv, Stages
<1>3. /\ CallerPath(caller[c]) /\ Present \subseteq Designs /\ canvas \subseteq Designs
      /\ layered \subseteq Designs /\ versions \subseteq Creation!Version
      /\ caller[c].step \in {"layers", "canvas"} /\ caller[c].op \in {"create", "fork"}
      /\ caller[c].design \in Present
  BY DEF CreationInv, CreationTypes, CallerPaths, CallerPath, Creation!CloneLayers,
     Creation!InsertCanvas
<1>4. /\ UNCHANGED <<row, versions, exported, failures>>
      /\ canvas' = IF s = "version" THEN canvas \cup {caller[c].design} ELSE canvas
      /\ layered' \subseteq layered \cup {caller[c].design}
  BY <1>1 DEF Creation!CloneLayers, Creation!InsertCanvas
<1>5. caller'[c] = x
  BY <1>2, CallerMoves DEF CreationInv
<1>6. CallerPath(caller[c])'
  BY <1>2, <1>3, <1>4, <1>5 DEF CallerPath, Present
<1>7. Builds(caller[c]) /\ ~Admitted(caller[c]) /\ ~Admitted(x)
  BY <1>2, <1>3, NamesAssumption DEF Builds, Admitted
<1>8. QED
  BY <1>2, <1>3, <1>4, <1>6, <1>7, InsideMoves

(* The records of the calls that come in.                                  *)
LEMMA BeginFields ==
    ASSUME NEW op \in Ops, NEW s \in Stages, NEW u \in Owners, NEW d \in Names, NEW f \in Names,
           NEW n \in Numbers
    PROVE  /\ [Creation!Quiet EXCEPT !.op = op, !.step = s, !.who = u] \in CallerRecord
           /\ [Creation!Quiet EXCEPT !.op = op, !.step = s, !.who = u, !.from = f] \in CallerRecord
           /\ [Creation!Quiet EXCEPT !.op = op, !.step = s, !.design = d, !.n = n] \in CallerRecord
BY FirstNumbers DEF Creation!Quiet, CallerRecord, Names

(* The admission of a creation, and of a fork.                             *)
LEMMA CreationBegins ==
    ASSUME CreationInv, NEW c \in Callers,
           Creation!ValidateDesignCreation(c) \/ Creation!FindOriginal(c)
    PROVE  CreationInv'
<1> USE DEF Creation!On
<1>1. /\ CallerPath(caller[c]) /\ caller[c].op = "none" /\ ~Builds(caller[c])
      /\ Present \subseteq Designs /\ CreationTypes
      /\ UNCHANGED <<row, canvas, versions, layered, exported, failures>>
  BY DEF CreationInv, CreationTypes, CallerPaths, CallerPath, Builds,
     Creation!ValidateDesignCreation, Creation!FindOriginal
<1>2. CreationBooks'
  BY <1>1 DEF CreationInv, CreationBooks
<1>3. CASE Creation!ValidateDesignCreation(c)
  <2>1. PICK u \in Owners :
           /\ Creation!Within(Cardinality(Creation!Owned(u)), Limits[u].maxDesigns)
           /\ Creation!Begin(c, "create", "insert", u)
    BY <1>3, SameCount DEF Creation!ValidateDesignCreation
  <2>2. PICK x \in CallerRecord :
           /\ x.op = "create" /\ x.step = "insert" /\ x.who = u
           /\ x.design = Creation!None /\ x.from = Creation!None
           /\ caller' = [caller EXCEPT ![c] = x]
    <3>1. "create" \in Ops /\ "insert" \in Stages /\ Creation!None \in Names
      BY DEF Ops, Stages, Names
    <3>2. [Creation!Quiet EXCEPT !.op = "create", !.step = "insert", !.who = u] \in CallerRecord
      BY <3>1, FirstNumbers, BeginFields
    <3>3. QED
      BY <2>1, <3>2 DEF Creation!Quiet, Creation!Begin
  <2>3. ~Builds(x) /\ CallerPath(x)
    BY <2>2 DEF Builds, CallerPath
  <2>4. Limits[u].maxDesigns # -1 => Cardinality(Own(u)) < Limits[u].maxDesigns
    <3>1. Own(u) \in SUBSET Creation!Owned(u) /\ Creation!Owned(u) \in SUBSET Designs
      BY <1>1 DEF Own, Creation!Owned, Creation!Present, Present
    <3>2. /\ IsFiniteSet(Creation!Owned(u)) /\ Cardinality(Creation!Owned(u)) \in Nat
          /\ Cardinality(Own(u)) \in Nat
      BY <3>1, Parts
    <3>3. Cardinality(Own(u)) <= Cardinality(Creation!Owned(u))
      BY <3>1, <3>2, CountSubset
    <3>4. Limits[u].maxDesigns \in Nat \cup {-1}
      BY LimitsAssumption
    <3>5. QED
      BY <2>1, <3>2, <3>3, <3>4 DEF Creation!Within
  <2>5. QED
    BY <1>1, <1>2, <2>2, <2>3, <2>4, OutsideMoves
<1>4. CASE Creation!FindOriginal(c)
  <2>1. PICK u \in Owners, d \in Present :
           caller' = [caller EXCEPT ![c] =
              [Creation!Quiet EXCEPT !.op = "fork", !.step = "insert", !.who = u, !.from = d]]
    BY <1>4 DEF Creation!FindOriginal, Creation!Present, Present
  <2>2. PICK x \in CallerRecord :
           /\ x.op = "fork" /\ x.step = "insert" /\ x.who = u
           /\ x.design = Creation!None /\ x.from = d
           /\ caller' = [caller EXCEPT ![c] = x]
    <3>1. "fork" \in Ops /\ "insert" \in Stages /\ Creation!None \in Names /\ d \in Names
      BY <1>1 DEF Ops, Stages, Names
    <3>2. [Creation!Quiet EXCEPT !.op = "fork", !.step = "insert", !.who = u, !.from = d]
             \in CallerRecord
      BY <3>1, FirstNumbers, BeginFields
    <3>3. QED
      BY <2>1, <3>2 DEF Creation!Quiet
  <2>3. ~Builds(x) /\ CallerPath(x) /\ ~Admitted(x)
    BY <2>2 DEF Builds, CallerPath, Admitted
  <2>4. QED
    BY <1>1, <1>2, <2>2, <2>3, OutsideMoves
<1>5. QED
  BY <1>3, <1>4

(* Exports, of which no more than the bound are counted.                   *)
LEMMA CreationExports ==
    ASSUME CreationInv, NEW c \in Callers,
           Creation!ValidateExportCreation(c) \/ Creation!InsertExport(c)
    PROVE  CreationInv'
<1> USE DEF Creation!On
<1>1. /\ CallerPath(caller[c]) /\ CreationTypes
      /\ UNCHANGED <<row, canvas, versions, layered, failures>>
  BY DEF CreationInv, CallerPaths, Creation!ValidateExportCreation, Creation!InsertExport
<1>2. CASE Creation!ValidateExportCreation(c)
  <2>1. PICK u \in Owners : Creation!Begin(c, "export", "insert", u) /\ exported' = exported
    BY <1>2 DEF Creation!ValidateExportCreation
  <2>2. PICK x \in CallerRecord :
           /\ x.op = "export" /\ x.step = "insert" /\ x.who = u
           /\ x.design = Creation!None /\ x.from = Creation!None
           /\ caller' = [caller EXCEPT ![c] = x]
    <3>1. "export" \in Ops /\ "insert" \in Stages /\ Creation!None \in Names
      BY DEF Ops, Stages, Names
    <3>2. [Creation!Quiet EXCEPT !.op = "export", !.step = "insert", !.who = u] \in CallerRecord
      BY <3>1, FirstNumbers, BeginFields
    <3>3. QED
      BY <2>1, <3>2 DEF Creation!Quiet, Creation!Begin
  <2>3. ~Builds(x) /\ CallerPath(x) /\ ~Admitted(x)
    BY <2>2 DEF Builds, CallerPath, Admitted
  <2>4. caller[c].op = "none" /\ ~Builds(caller[c])
    BY <1>1, <1>2 DEF Creation!ValidateExportCreation, CallerPath, Builds
  <2>5. CreationBooks'
    BY <1>1, <2>1 DEF CreationInv, CreationBooks
  <2>6. QED
    BY <1>1, <2>2, <2>3, <2>4, <2>5, OutsideMoves
<1>3. CASE Creation!InsertExport(c)
  <2> DEFINE u == caller[c].who
  <2>1. /\ caller[c].op = "export" /\ u \in Owners /\ exported[u] < MaxExported
        /\ exported' = [exported EXCEPT ![u] = @ + 1] /\ Creation!Done(c)
    BY <1>1, <1>3 DEF Creation!InsertExport, CallerPath
  <2>2. ~Builds(caller[c])
    BY <2>1 DEF Builds
  <2>3. exported' \in [Owners -> 0..MaxExported]
    BY <2>1, LimitsAssumption DEF CreationInv, CreationBooks
  <2>4. CreationBooks'
    BY <1>1, <2>3 DEF CreationInv, CreationBooks
  <2>5. QED
    BY <1>1, <2>1, <2>2, <2>4, QuietCall, OutsideMoves DEF Creation!Done
<1>4. QED
  BY <1>2, <1>3

(* The next version number is a number.                                    *)
LEMMA NextNumber ==
    ASSUME CreationTypes, NEW d
    PROVE  Creation!GetNextVersionNumber(d) \in Numbers
<1>1. Creation!NumbersOf(d) \subseteq {1, 2}
  BY DEF CreationTypes, Creation!NumbersOf, Creation!Version
<1>2. CASE Creation!NumbersOf(d) = {}
  BY <1>2, FirstNumbers DEF Creation!GetNextVersionNumber
<1>3. CASE Creation!NumbersOf(d) # {}
  <2> DEFINE last == CHOOSE n \in Creation!NumbersOf(d) : \A m \in Creation!NumbersOf(d) : m <= n
  <2>1. \E n \in Creation!NumbersOf(d) : \A m \in Creation!NumbersOf(d) : m <= n
    <3>1. CASE 2 \in Creation!NumbersOf(d)
      BY <1>1, <3>1
    <3>2. CASE 2 \notin Creation!NumbersOf(d)
      BY <1>1, <1>3, <3>2
    <3>3. QED
      BY <3>1, <3>2
  <2>2. last \in {1, 2}
    BY <1>1, <2>1
  <2>3. 1 + last \in Numbers
    <3> HIDE DEF last
    <3>1. QED
      BY <2>2 DEF Numbers
  <2>4. QED
    BY <1>3, <2>3 DEF Creation!GetNextVersionNumber
<1>4. QED
  BY <1>2, <1>3

(* Snapshots and their restoring, which are refused.                       *)
LEMMA CreationSnapshots ==
    ASSUME CreationInv, NEW c \in Callers,
           \/ Creation!CreateSnapshot(c) \/ Creation!SnapshotRefused(c)
           \/ Creation!RestoreVersion(c) \/ Creation!RestoreRefused(c)
    PROVE  CreationInv'
<1> USE DEF Creation!On
<1>1. /\ CallerPath(caller[c]) /\ CreationTypes /\ Present \subseteq Designs
      /\ UNCHANGED <<row, canvas, versions, layered, exported, failures>>
      /\ caller[c].step \in {"idle", "snapshot", "restore"}
  BY DEF CreationInv, CallerPaths, CreationTypes, Creation!CreateSnapshot,
     Creation!SnapshotRefused, Creation!RestoreVersion, Creation!RestoreRefused
<1>2. ~Builds(caller[c]) /\ CreationBooks'
  BY <1>1 DEF CallerPath, Builds, CreationInv, CreationBooks
<1>3. CASE Creation!SnapshotRefused(c) \/ Creation!RestoreRefused(c)
  BY <1>1, <1>2, <1>3, QuietCall, OutsideMoves DEF Creation!Done, Creation!SnapshotRefused,
     Creation!RestoreRefused
<1>4. ASSUME NEW s \in {"snapshot", "restore"}, NEW d \in Designs, NEW n \in Numbers,
             caller' = [caller EXCEPT ![c] =
               [Creation!Quiet EXCEPT !.op = s, !.step = s, !.design = d, !.n = n]]
      PROVE  CreationInv'
  <2>1. PICK x \in CallerRecord :
           /\ x.op = s /\ x.step = s /\ x.design = d /\ x.from = Creation!None
           /\ caller' = [caller EXCEPT ![c] = x]
    <3>1. s \in Ops /\ s \in Stages /\ d \in Names
      BY DEF Ops, Stages, Names
    <3>2. [Creation!Quiet EXCEPT !.op = s, !.step = s, !.design = d, !.n = n] \in CallerRecord
      BY <3>1, FirstNumbers DEF Creation!Quiet, CallerRecord, Names
    <3>3. QED
      BY <1>4, <3>2 DEF Creation!Quiet
  <2>2. ~Builds(x) /\ CallerPath(x) /\ ~Admitted(x)
    BY <2>1 DEF Builds, CallerPath, Admitted
  <2>3. QED
    BY <1>1, <1>2, <2>1, <2>2, OutsideMoves
<1>5. CASE Creation!CreateSnapshot(c)
  <2>1. PICK d \in Present :
          caller' = [caller EXCEPT ![c] = [Creation!Quiet EXCEPT !.op = "snapshot",
                       !.step = "snapshot", !.design = d, !.n = Creation!GetNextVersionNumber(d)]]
    BY <1>5 DEF Creation!CreateSnapshot, Creation!Present, Present
  <2>2. Creation!GetNextVersionNumber(d) \in Numbers /\ d \in Designs
    BY <1>1, NextNumber
  <2>3. QED
    BY <1>4, <2>1, <2>2
<1>6. CASE Creation!RestoreVersion(c)
  <2>1. PICK v \in versions :
          caller' = [caller EXCEPT ![c] = [Creation!Quiet EXCEPT !.op = "restore",
                       !.step = "restore", !.design = v[1], !.n = v[2]]]
    BY <1>6 DEF Creation!RestoreVersion
  <2>2. v[1] \in Designs /\ v[2] \in Numbers
    BY <1>1 DEF CreationTypes, Creation!Version, Numbers
  <2>3. QED
    BY <1>4, <2>1, <2>2
<1>7. QED
  BY <1>3, <1>5, <1>6

(* What changes no call, no row and no count.                              *)
LEMMA CreationRests ==
    ASSUME CreationInv, UNCHANGED <<row, canvas, versions, caller, failures>>,
           layered' \subseteq Designs, CreationBooks'
    PROVE  CreationInv'
<1> USE DEF CreationInv
<1>1. CreationTypes' /\ CallerPaths' /\ Origins'
  BY DEF CreationTypes, CallerPaths, CallerPath, Origins, Present
<1>2. Lost' = Lost
  BY DEF Lost, Built, Creation!Unfinished, Creation!Present, Creation!Building
<1>3. LostInv'
  BY <1>2 DEF LostInv
<1>4. ForkInv'
  BY DEF ForkInv, ForksOf, Pending, Creation!Building, Present
<1>5. QuotaInv'
  BY DEF QuotaInv, Own, Creation!Owned, Creation!Present, Inserting, Admitted
<1>6. QED
  BY <1>1, <1>3, <1>4, <1>5

(* Layers are added, a day ends, or nothing moves.                         *)
LEMMA CreationOthers ==
    ASSUME CreationInv,
           \/ \E c \in Callers : Creation!AddLayer(c)
           \/ Creation!Midnight \/ UNCHANGED creationVars
    PROVE  CreationInv'
<1>1. CASE \E c \in Callers : Creation!AddLayer(c)
  BY <1>1, CreationRests DEF Creation!AddLayer, CreationInv, CreationTypes, CreationBooks,
     Creation!Present, Present
<1>2. CASE Creation!Midnight
  <2>1. 0 \in 0..MaxExported
    BY LimitsAssumption
  <2>2. QED
    BY <1>2, <2>1, CreationRests DEF Creation!Midnight, CreationInv, CreationTypes, CreationBooks
<1>3. CASE UNCHANGED creationVars
  BY <1>3, CreationRests DEF creationVars, CreationInv, CreationTypes, CreationBooks
<1>4. QED
  BY <1>1, <1>2, <1>3

-----------------------------------------------------------------------------
(* The invariant of the creation, and what it says.                        *)
LEMMA CreationInit == Creation!Init => CreationInv
<1> SUFFICES ASSUME Creation!Init PROVE CreationInv
  OBVIOUS
<1> USE DEF Creation!Init
<1>1. /\ Present = {} /\ canvas = {} /\ versions = {} /\ layered = {} /\ failures = 0
      /\ \A c \in Callers : caller[c] = Creation!Quiet
  BY DEF Present
<1>2. CreationTypes
  BY <1>1, QuietCall DEF CreationTypes
<1>3. CreationBooks
  BY LimitsAssumption DEF CreationBooks
<1>4. CallerPaths /\ Origins
  BY <1>1, QuietCall DEF CallerPaths, Origins
<1>5. Lost = {} /\ \A u : Own(u) = {} /\ Inserting(u) = {}
  BY <1>1, QuietCall DEF Lost, Creation!Unfinished, Creation!Present, Present, Own,
     Creation!Owned, Inserting
<1>6. LostInv /\ ForkInv
  BY <1>1, <1>5, FS_EmptySet DEF LostInv, ForkInv
<1>7. QuotaInv
  <2> SUFFICES ASSUME NEW u \in Owners, Limits[u].maxDesigns # -1
               PROVE  Cardinality(Own(u)) + Cardinality(Inserting(u))
                        <= Limits[u].maxDesigns + Cardinality(Callers) - 1
    BY DEF QuotaInv
  <2>1. Limits[u].maxDesigns \in Nat /\ Cardinality(Callers) \in Nat \ {0}
    BY LimitsAssumption, Parts
  <2>2. Cardinality(Own(u)) = 0 /\ Cardinality(Inserting(u)) = 0
    BY <1>5, FS_EmptySet
  <2>3. QED
    BY <2>1, <2>2
<1>8. QED
  BY <1>2, <1>3, <1>4, <1>6, <1>7 DEF CreationInv

(* Every step keeps the invariant of the creations.                        *)
LEMMA CreationSteps == CreationInv /\ [Next]_vars => CreationInv'
<1> SUFFICES ASSUME CreationInv, [Next]_vars PROVE CreationInv'
  OBVIOUS
<1>1. CASE Next /\ ~UNCHANGED creationVars
  <2>1. \/ Creation!Midnight
        \/ \E c \in Callers :
             \/ Creation!ValidateDesignCreation(c) \/ Creation!FindOriginal(c)
             \/ Creation!InsertDesign(c) \/ Creation!CloneLayers(c) \/ Creation!InsertCanvas(c)
             \/ Creation!InsertVersion(c) \/ Creation!IncrementForkCount(c)
             \/ Creation!QueryFails(c) \/ Creation!AddLayer(c)
             \/ Creation!ValidateExportCreation(c) \/ Creation!InsertExport(c)
             \/ Creation!CreateSnapshot(c) \/ Creation!SnapshotRefused(c)
             \/ Creation!RestoreVersion(c) \/ Creation!RestoreRefused(c)
    BY <1>1 DEF Next, OnLife, OnCreation, OnRender
  <2>2. QED
    BY <2>1, CreationBegins, CreationInsert, CreationInside, CreationVersion, CreationCounts,
       CreationFails, CreationExports, CreationSnapshots, CreationOthers
<1>2. CASE UNCHANGED creationVars
  BY <1>2, CreationOthers
<1>3. QED
  BY <1>1, <1>2 DEF vars

(* The invariant of the creations.                                         *)
LEMMA CreationHolds == Spec => []CreationInv
<1>1. Init => CreationInv
  BY CreationInit DEF Init
<1>2. CreationInv /\ [Next]_vars => CreationInv'
  BY CreationSteps
<1>3. QED
  BY <1>1, <1>2, PTL DEF Spec

(* It contains type correctness.                                           *)
LEMMA CreationTyped == CreationInv => Creation!TypeOK
<1> SUFFICES ASSUME CreationInv PROVE Creation!TypeOK
  OBVIOUS
<1> USE DEF CreationInv, CreationTypes, CreationBooks
<1>1. \A d \in Present :
         row[d].owner \in Owners /\ row[d].from \in Designs \cup {Creation!None}
         /\ row[d].forks \in Nat
  BY DEF RowRecord, Names
<1>2. \A c \in Callers :
         /\ caller[c].op \in {"none", "create", "fork", "export", "snapshot", "restore", "layer"}
         /\ caller[c].step \in {"idle", "insert", "layers", "canvas", "version", "count",
                                "snapshot", "restore"}
  BY DEF CallerRecord, Ops, Stages
<1>3. QED
  BY <1>1, <1>2 DEF Creation!TypeOK, Creation!Present, Present

(* A tier's limit is checked before it is acted on: with k calls at once   *)
(* the designs a user has created go over it by k - 1 at most, for every   *)
(* tier, and never with one call.                                          *)
LEMMA QuotaKept == CreationInv => Creation!QuotaOvershoot
<1> SUFFICES ASSUME CreationInv, NEW u \in Owners, Limits[u].maxDesigns # -1
             PROVE  Cardinality(Own(u)) <= Limits[u].maxDesigns + Cardinality(Callers) - 1
  BY SameCount DEF Creation!QuotaOvershoot, Own
<1>1. /\ Cardinality(Own(u)) \in Nat /\ Cardinality(Inserting(u)) \in Nat
      /\ Cardinality(Callers) \in Nat
  BY Counted, Parts DEF CreationInv
<1>2. Limits[u].maxDesigns \in Nat
  BY LimitsAssumption
<1>3. Cardinality(Own(u)) + Cardinality(Inserting(u))
        <= Limits[u].maxDesigns + Cardinality(Callers) - 1
  BY DEF CreationInv, QuotaInv
<1>4. QED
  BY ONLY <1>1, <1>2, <1>3

(* Every call that builds, builds one design.                              *)
LEMMA BuiltCounted ==
    ASSUME CreationTypes
    PROVE  /\ IsFiniteSet(Built) /\ Cardinality(Built) <= Cardinality(Creation!Building)
           /\ Cardinality(Built) \in Nat /\ Cardinality(Creation!Building) \in Nat
<1> DEFINE f == [c \in Creation!Building |-> caller[c].design]
<1>1. IsFiniteSet(Creation!Building) /\ Cardinality(Creation!Building) \in Nat
  BY Counted, Parts
<1>2. f \in Surjection(Creation!Building, Built)
  BY DEF Surjection, Built
<1> HIDE DEF f
<1>3. IsFiniteSet(Built) /\ Cardinality(Built) <= Cardinality(Creation!Building)
  BY <1>1, <1>2, FS_Surjection
<1>4. QED
  BY <1>1, <1>3, FS_CardinalityType

(* Designs without all their rows are those of failed calls.               *)
LEMMA FailuresAccountFor == CreationInv => Creation!BrokenAreFailures
<1> SUFFICES ASSUME CreationInv
             PROVE  Cardinality(Creation!Unfinished) <= failures + Cardinality(Creation!Building)
  BY SameCount DEF Creation!BrokenAreFailures
<1>1. /\ IsFiniteSet(Built) /\ Cardinality(Built) <= Cardinality(Creation!Building)
      /\ Cardinality(Built) \in Nat /\ Cardinality(Creation!Building) \in Nat
  BY BuiltCounted DEF CreationInv
<1>2. /\ IsFiniteSet(Lost) /\ Cardinality(Lost) \in Nat
      /\ Cardinality(Creation!Unfinished) \in Nat
  BY Counted, Parts DEF CreationInv
<1>3. /\ IsFiniteSet(Lost \cup Built)
      /\ Cardinality(Lost \cup Built) = Cardinality(Lost) + Cardinality(Built) - Cardinality(Lost \cap Built)
  BY <1>1, <1>2, FS_Union
<1>4. Cardinality(Lost \cap Built) \in Nat /\ Cardinality(Lost \cup Built) \in Nat
  BY <1>1, <1>2, <1>3, FS_Intersection, FS_CardinalityType
<1>5. Creation!Unfinished \in SUBSET (Lost \cup Built)
  BY DEF Lost
<1>6. Cardinality(Creation!Unfinished) <= Cardinality(Lost \cup Built)
  BY <1>3, <1>5, CountSubset
<1>7. failures \in Nat /\ Cardinality(Lost) <= failures
  BY LimitsAssumption DEF CreationInv, CreationBooks, LostInv
<1>8. QED
  BY ONLY <1>1, <1>2, <1>3, <1>4, <1>6, <1>7

(* With k calls at once a user's own designs go over the tier's limit by   *)
(* k - 1 at most, and the designs that are not whole are those being       *)
(* created and one for each query that failed.                             *)
THEOREM QuotaAndFailures == Spec => []QuotaOvershoot
<1>1. CreationInv => QuotaOvershoot
  BY QuotaKept, FailuresAccountFor DEF QuotaOvershoot
<1>2. QED
  BY <1>1, CreationHolds, PTL

(* A design's counter of forks never exceeds the forks there are, and is   *)
(* behind them by those being created and those that failed.               *)
THEOREM ForksAreCounted == Spec => []ForksCounted
<1>1. CreationInv => Creation!ForksCounted
  <2> SUFFICES ASSUME CreationInv, NEW d \in Present
               PROVE  /\ row[d].forks <= Cardinality(ForksOf(d))
                      /\ Cardinality(ForksOf(d))
                           <= row[d].forks + failures + Cardinality(Creation!Building)
    BY SameCount DEF Creation!ForksCounted, Creation!Present, ForksOf, Present
  <2>1. /\ row[d].forks \in Nat /\ failures \in Nat
        /\ Cardinality(Pending(d)) \in Nat /\ Cardinality(ForksOf(d)) \in Nat
        /\ row[d].forks + Cardinality(Pending(d)) <= Cardinality(ForksOf(d))
        /\ Cardinality(ForksOf(d)) <= row[d].forks + Cardinality(Pending(d)) + failures
    BY ForkCounts
  <2>2. Pending(d) \in SUBSET Creation!Building
        /\ IsFiniteSet(Creation!Building) /\ Cardinality(Creation!Building) \in Nat
    BY Counted, Parts DEF Pending, CreationInv
  <2>3. Cardinality(Pending(d)) <= Cardinality(Creation!Building)
    BY <2>2, CountSubset
  <2>4. QED
    BY ONLY <2>1, <2>2, <2>3
<1>2. CreationInv => ForksCounted
  BY <1>1 DEF ForksCounted
<1>3. QED
  BY <1>2, CreationHolds, PTL

-----------------------------------------------------------------------------
(***************************************************************************)
(* The rendering.  A job's copy of the layers has one record for a piece;  *)
(* a scene shows it if it starts with the avatar and goes on with the      *)
(* visible pieces in the order of their indexes.                           *)
(***************************************************************************)
Orders == 0..Cardinality(Pieces)
Attempts == 0..MaxAttempts
States == {"none", "waiting", "active", "completed", "failed", "removed"}
Awaits == {"idle", "start", "avatar", "layers", "encode", "fallback", "upload"}
Objects == Pieces \cup {"avatar"}
Estimates == Nat

Layer == [piece : Pieces, order : Orders, visible : BOOLEAN]
Copies == {L \in SUBSET Layer : IsFiniteSet(L) /\ \A k, l \in L : k.piece = l.piece => k = l}
RenderJob == [state : States, layers : Copies, config : Render!Presets \cup {"none"},
              tries : Attempts, estimate : Estimates]
Scene == [lights : Render!Lighting \cup {{}}, objects : Seq(Objects)]

Visible(L) == {l \in L : l.visible}
QueuedAs(L, p) == CHOOSE l \in L : l.piece = p
Shows(image, L) ==
    /\ Head(image) = "avatar"
    /\ {image[i] : i \in 2..Len(image)} = {l.piece : l \in Visible(L)}
    /\ \A a, b \in 2..Len(image) : a < b => QueuedAs(L, image[a]).order <= QueuedAs(L, image[b]).order

RenderTypes ==
    /\ look \in [Pieces -> [order : Orders, visible : BOOLEAN]]
    /\ rjob \in [RenderJobs -> RenderJob]
    /\ scene \in [RenderJobs -> Scene]
    /\ rpc \in [RenderJobs -> Awaits]
RenderBooks == edits \in 0..MaxLayerEdits /\ glitches \in 0..MaxGlitches

(* A worker's call is under way exactly while its job is active, and a     *)
(* waiting job has an attempt left.                                        *)
Worked(j) == rpc[j] # "idle" <=> rjob[j].state = "active"
Tried(j) == rjob[j].state \in {"none", "waiting"} => rjob[j].tries < MaxAttempts

(* What the scene of a job holds at each await.                            *)
Staged(j) ==
    /\ rpc[j] \in {"idle", "start", "fallback", "upload"} => scene[j] = Render!NoScene
    /\ rpc[j] = "avatar" => scene[j].objects = <<>>
    /\ rpc[j] = "layers" => scene[j].objects = <<"avatar">>
    /\ rpc[j] = "encode" => Shows(scene[j].objects, rjob[j].layers)

JobInv(j) == Worked(j) /\ Tried(j) /\ Staged(j)
RenderInv == RenderTypes /\ RenderBooks /\ \A j \in RenderJobs : JobInv(j)

-----------------------------------------------------------------------------
(* Numbers and sequences, apart from the rest.                             *)
LEMMA SameCountOfLayers == \A S : Render!Cardinality(S) = Cardinality(S)
BY DEF Render!Cardinality, Cardinality

(* The numbers of attempts, orders and estimates.                          *)
LEMMA RenderNumbers ==
    /\ Cardinality(Pieces) \in Nat /\ 0 \in Orders /\ 0 \in Attempts /\ 0 \in Estimates
    /\ Orders = 0..Render!Cardinality(Pieces) /\ MaxAttempts \in Nat \ {0}
    /\ \A o \in 0..(Render!Cardinality(Pieces) - 1) : o \in Orders
    /\ Orders \subseteq Int
<1>1. Cardinality(Pieces) \in Nat
  BY FiniteAssumption, FS_CardinalityType
<1>2. Render!Cardinality(Pieces) = Cardinality(Pieces)
  BY SameCountOfLayers
<1>3. QED
  BY <1>1, <1>2, LimitsAssumption DEF Orders, Attempts, Estimates

(* A retry is one of the attempts.                                         *)
LEMMA OneMoreTry ==
    ASSUME NEW n \in Attempts, n < MaxAttempts PROVE n + 1 \in Attempts
BY LimitsAssumption DEF Attempts

(* A scene starts empty and then has the avatar.                           *)
LEMMA ObjectSequences ==
    /\ <<>> \in Seq(Objects) /\ <<"avatar">> \in Seq(Objects)
    /\ Append(<<>>, "avatar") = <<"avatar">>
BY DEF Objects

-----------------------------------------------------------------------------
(* A step of one job.                                                      *)
LEMMA NothingStaged ==
    /\ Render!NoScene \in Scene /\ Render!NoScene.objects = <<>>
    /\ Render!NoJob \in RenderJob /\ Render!NoJob.state = "none" /\ Render!NoJob.tries = 0
<1>1. Render!NoScene \in Scene /\ Render!NoScene.objects = <<>>
  BY ObjectSequences DEF Render!NoScene, Scene
<1>2. {} \in Copies
  BY FS_EmptySet DEF Copies
<1>3. [state |-> "none", layers |-> {}, config |-> "none", tries |-> 0, estimate |-> 0]
        \in RenderJob
  BY <1>2, RenderNumbers DEF RenderJob, States
<1>4. QED
  BY <1>1, <1>3 DEF Render!NoJob

(* A step of one job that keeps its own part of the invariant.             *)
LEMMA JobMoves ==
    ASSUME RenderInv, NEW j \in RenderJobs,
           NEW x \in RenderJob, NEW y \in Scene, NEW a \in Awaits,
           rjob' = [rjob EXCEPT ![j] = x], scene' = [scene EXCEPT ![j] = y],
           rpc' = [rpc EXCEPT ![j] = a], look' = look, RenderBooks',
           a # "idle" <=> x.state = "active",
           x.state \in {"none", "waiting"} => x.tries < MaxAttempts,
           a \in {"idle", "start", "fallback", "upload"} => y = Render!NoScene,
           a = "avatar" => y.objects = <<>>,
           a = "layers" => y.objects = <<"avatar">>,
           a = "encode" => Shows(y.objects, x.layers)
    PROVE  RenderInv'
<1>1. RenderTypes'
  BY DEF RenderInv, RenderTypes
<1>2. /\ rjob'[j] = x /\ scene'[j] = y /\ rpc'[j] = a
      /\ \A k \in RenderJobs \ {j} :
            rjob'[k] = rjob[k] /\ scene'[k] = scene[k] /\ rpc'[k] = rpc[k]
  BY DEF RenderInv, RenderTypes
<1>3. Worked(j)' /\ Tried(j)' /\ Staged(j)'
  BY <1>2 DEF Worked, Tried, Staged
<1>4. ASSUME NEW k \in RenderJobs \ {j} PROVE JobInv(k)'
  <2>1. Worked(k) /\ Tried(k) /\ Staged(k)
    BY DEF RenderInv, JobInv
  <2>2. Worked(k)' /\ Tried(k)' /\ Staged(k)'
    BY <1>2, <2>1 DEF Worked, Tried, Staged
  <2>3. QED
    BY <2>2 DEF JobInv
<1>5. QED
  BY <1>1, <1>3, <1>4 DEF RenderInv, JobInv

(* What the invariant says of one job.                                     *)
LEMMA JobParts ==
    ASSUME RenderInv, NEW j \in RenderJobs
    PROVE  /\ rjob[j] \in RenderJob /\ scene[j] \in Scene /\ rpc[j] \in Awaits
           /\ rjob = [rjob EXCEPT ![j] = rjob[j]] /\ scene = [scene EXCEPT ![j] = scene[j]]
           /\ rpc = [rpc EXCEPT ![j] = rpc[j]]
           /\ Worked(j) /\ Tried(j) /\ Staged(j)
BY DEF RenderInv, RenderTypes, JobInv

(* A job changes its state only.                                           *)
LEMMA StateFields ==
    ASSUME NEW x \in RenderJob, NEW s \in States
    PROVE  \E y \in RenderJob :
              /\ y = [x EXCEPT !.state = s]
              /\ y.state = s /\ y.layers = x.layers /\ y.tries = x.tries
<1> DEFINE y == [x EXCEPT !.state = s]
<1>1. y \in RenderJob /\ y.state = s /\ y.layers = x.layers /\ y.tries = x.tries
  BY DEF RenderJob
<1>2. QED
  BY <1>1

-----------------------------------------------------------------------------
(* A job comes in with its copy of the layers.                             *)
LEMMA EstimateIsNatural ==
    ASSUME NEW L, IsFiniteSet(L), NEW preset, NEW wide \in BOOLEAN
    PROVE  Render!EstimateRenderTime(L, preset, wide) \in Estimates
<1>1. Render!Cardinality(L) \in Nat
  BY SameCountOfLayers, FS_CardinalityType
<1>2. PICK n \in Nat : n = (5 + 2 * Render!Cardinality(L)) * (IF wide THEN 2 ELSE 1)
  BY <1>1
<1>3. (3 * n + 1) \div 2 \in Nat
  OBVIOUS
<1>4. QED
  BY <1>2, <1>3 DEF Render!EstimateRenderTime, Estimates

(* What a job is queued with is a copy of the layers.                      *)
LEMMA CopyOfLayers ==
    ASSUME look \in [Pieces -> [order : Orders, visible : BOOLEAN]]
    PROVE  {[piece |-> p, order |-> look[p].order, visible |-> look[p].visible] : p \in Pieces}
             \in Copies
<1> DEFINE record(p) == [piece |-> p, order |-> look[p].order, visible |-> look[p].visible]
           L == {record(p) : p \in Pieces}
<1>1. L \in SUBSET Layer
  BY DEF Layer
<1>2. \A k, l \in L : k.piece = l.piece => k = l
  OBVIOUS
<1>3. IsFiniteSet(L)
  <2> DEFINE f == [p \in Pieces |-> record(p)]
  <2>1. f \in Surjection(Pieces, L)
    BY DEF Surjection
  <2> HIDE DEF f, L
  <2>2. QED
    BY <2>1, FiniteAssumption, FS_Surjection
<1>4. QED
  BY <1>1, <1>2, <1>3 DEF Copies

(* A render is queued with a copy of the layers as they are.               *)
LEMMA RenderQueues ==
    ASSUME RenderInv, NEW j \in RenderJobs, Render!RenderDesign(j)
    PROVE  RenderInv'
<1> DEFINE L == {[piece |-> p, order |-> look[p].order, visible |-> look[p].visible] : p \in Pieces}
<1>1. PICK preset \in Render!Presets, wide \in BOOLEAN :
         rjob' = [rjob EXCEPT ![j] = [Render!NoJob EXCEPT !.state = "waiting", !.layers = L,
                                         !.config = preset,
                                         !.estimate = Render!EstimateRenderTime(L, preset, wide)]]
  BY DEF Render!RenderDesign
<1>2. L \in Copies
  BY CopyOfLayers DEF RenderInv, RenderTypes
<1>3. Render!EstimateRenderTime(L, preset, wide) \in Estimates
  BY <1>2, EstimateIsNatural DEF Copies
<1> HIDE DEF L
<1>4. PICK x \in RenderJob :
         /\ rjob' = [rjob EXCEPT ![j] = x] /\ x.state = "waiting" /\ x.tries = 0
  <2>1. "waiting" \in States
    BY DEF States
  <2>2. [Render!NoJob EXCEPT !.state = "waiting", !.layers = L, !.config = preset,
           !.estimate = Render!EstimateRenderTime(L, preset, wide)] \in RenderJob
    BY <1>2, <1>3, <2>1, NothingStaged DEF RenderJob
  <2>3. QED
    BY <1>1, <2>2, NothingStaged DEF RenderJob, Render!NoJob
<1>5. /\ rjob[j].state = "none" /\ scene' = scene /\ rpc' = rpc /\ look' = look
      /\ RenderBooks' /\ rpc[j] = "idle"
  BY JobParts DEF Render!RenderDesign, Worked, RenderInv, RenderBooks
<1>6. x.tries < MaxAttempts
  BY <1>4, RenderNumbers
<1>7. scene[j] = Render!NoScene
  BY <1>5, JobParts DEF Staged
<1>8. QED
  BY <1>4, <1>5, <1>6, <1>7, JobParts, JobMoves

-----------------------------------------------------------------------------
(* The visible layers in any order of ascending indexes, equal ones in any *)
(* order, are an enumeration of them: none is lost and none comes twice.   *)
LEMMA OrderingCovers ==
    ASSUME NEW V, IsFiniteSet(V), NEW s \in Render!Orderings(V)
    PROVE  /\ Cardinality(V) \in Nat /\ DOMAIN s = 1..Cardinality(V)
           /\ s \in [1..Cardinality(V) -> V]
           /\ \A v \in V : \E i \in 1..Cardinality(V) : s[i] = v
           /\ \A a, b \in 1..Cardinality(V) : a < b => s[a].order <= s[b].order
<1> DEFINE n == Cardinality(V)
<1>1. n \in Nat
  BY FS_CardinalityType
<1>2. /\ s \in [1..n -> V]
      /\ \A a, b \in 1..n : a < b => s[a] # s[b] /\ s[a].order <= s[b].order
  BY SameCountOfLayers DEF Render!Orderings
<1>3. s \in Injection(1..n, V)
  <2>1. ASSUME NEW a \in 1..n, NEW b \in 1..n, s[a] = s[b] PROVE a = b
    <3>1. ~(a < b) /\ ~(b < a)
      BY <1>2, <2>1
    <3>2. a \in Int /\ b \in Int
      BY <1>1
    <3>3. QED
      BY <3>1, <3>2
  <2>2. QED
    BY <1>2, <2>1 DEF Injection, IsInjective
<1>4. IsFiniteSet(1..n) /\ Cardinality(1..n) = n
  BY <1>1, FS_Interval
<1>5. s \in Surjection(1..n, V)
  BY <1>3, <1>4, FS_Injection
<1>6. \A v \in V : \E i \in 1..n : s[i] = v
  BY <1>5 DEF Surjection
<1>7. QED
  BY <1>1, <1>2, <1>6

(* Drawn in an order of the layers, the image shows the layers.            *)
LEMMA OrderingShows ==
    ASSUME NEW L \in Copies, NEW s \in Render!Orderings(Visible(L))
    PROVE  /\ <<"avatar">> \o [i \in DOMAIN s |-> s[i].piece] \in Seq(Objects)
           /\ Shows(<<"avatar">> \o [i \in DOMAIN s |-> s[i].piece], L)
<1> DEFINE V == Visible(L)
           n == Cardinality(V)
           pieces == [i \in DOMAIN s |-> s[i].piece]
           image == <<"avatar">> \o pieces
<1>1. IsFiniteSet(V) /\ V \subseteq L /\ L \subseteq Layer
  BY FS_Subset DEF Copies, Visible
<1>2. /\ n \in Nat /\ DOMAIN s = 1..n /\ s \in [1..n -> V]
      /\ \A v \in V : \E i \in 1..n : s[i] = v
      /\ \A a, b \in 1..n : a < b => s[a].order <= s[b].order
  BY <1>1, OrderingCovers
<1> HIDE DEF V, n
<1>3. \A i \in 1..n : s[i] \in V /\ s[i] \in L /\ s[i].piece \in Pieces
  BY <1>1, <1>2 DEF Layer
<1>4. pieces \in [1..n -> Objects]
  BY <1>2, <1>3 DEF Objects
<1>5. pieces \in Seq(Objects) /\ Len(pieces) = n
  BY <1>2, <1>4
<1>6. /\ image \in Seq(Objects) /\ Len(image) = n + 1
      /\ image[1] = "avatar" /\ Head(image) = "avatar"
      /\ \A i \in 2..Len(image) : i - 1 \in 1..n /\ image[i] = pieces[i - 1]
  <2>1. <<"avatar">> \in Seq(Objects) /\ Len(<<"avatar">>) = 1
    BY ObjectSequences
  <2> HIDE DEF pieces
  <2>2. QED
    BY <1>2, <1>5, <2>1
<1>7. \A i \in 2..Len(image) : i - 1 \in 1..n /\ image[i] = s[i - 1].piece
  BY <1>2, <1>6
<1> HIDE DEF image, pieces
<1>8. {image[i] : i \in 2..Len(image)} = {l.piece : l \in V}
  <2>1. ASSUME NEW i \in 2..Len(image) PROVE image[i] \in {l.piece : l \in V}
    BY <1>3, <1>7
  <2>2. ASSUME NEW l \in V PROVE l.piece \in {image[i] : i \in 2..Len(image)}
    <3>1. PICK i \in 1..n : s[i] = l
      BY <1>2
    <3>2. i + 1 \in 2..Len(image) /\ (i + 1) - 1 = i
      BY <1>2, <1>6
    <3>3. image[i + 1] = l.piece
      BY <1>7, <3>1, <3>2
    <3>4. QED
      BY <3>2, <3>3
  <2>3. QED
    BY <2>1, <2>2
<1>9. \A i \in 2..Len(image) : QueuedAs(L, image[i]) = s[i - 1]
  <2> SUFFICES ASSUME NEW i \in 2..Len(image) PROVE QueuedAs(L, image[i]) = s[i - 1]
    OBVIOUS
  <2>1. s[i - 1] \in L /\ image[i] = s[i - 1].piece
    BY <1>3, <1>7
  <2>2. \A k, l \in L : k.piece = l.piece => k = l
    BY DEF Copies
  <2>3. QED
    BY <2>1, <2>2 DEF QueuedAs
<1>10. \A a, b \in 2..Len(image) : a < b =>
          QueuedAs(L, image[a]).order <= QueuedAs(L, image[b]).order
  <2> SUFFICES ASSUME NEW a \in 2..Len(image), NEW b \in 2..Len(image), a < b
               PROVE  QueuedAs(L, image[a]).order <= QueuedAs(L, image[b]).order
    OBVIOUS
  <2>1. a - 1 \in 1..n /\ b - 1 \in 1..n /\ a - 1 < b - 1
    BY <1>6
  <2>2. s[a - 1].order <= s[b - 1].order
    BY <1>2, <2>1
  <2>3. QED
    BY <1>9, <2>2
<1>11. image \in Seq(Objects) /\ Shows(image, L)
  BY <1>6, <1>8, <1>10 DEF Shows, V
<1>12. QED
  BY <1>11 DEF image, pieces

-----------------------------------------------------------------------------
(* The worker takes the job, and its steps.                                *)
LEMMA RenderTakes ==
    ASSUME RenderInv, NEW j \in RenderJobs, Render!TakeJob(j) \/ Render!CancelRenderJob(j)
    PROVE  RenderInv'
<1>1. /\ rjob[j] \in RenderJob /\ scene[j] \in Scene /\ Worked(j) /\ Tried(j) /\ Staged(j)
      /\ scene = [scene EXCEPT ![j] = scene[j]] /\ rpc = [rpc EXCEPT ![j] = rpc[j]]
  BY JobParts
<1>2. /\ rjob[j].state = "waiting" /\ rpc[j] = "idle" /\ scene[j] = Render!NoScene
      /\ rjob[j].tries < MaxAttempts
      /\ scene' = scene /\ look' = look /\ RenderBooks'
  BY <1>1 DEF Render!TakeJob, Render!CancelRenderJob, Worked, Tried, Staged, RenderInv, RenderBooks
<1>3. CASE Render!TakeJob(j)
  <2>1. rjob[j].tries \in Attempts
    BY <1>1 DEF RenderJob
  <2>2. PICK n \in Attempts : n = rjob[j].tries + 1
    BY <1>2, <2>1, OneMoreTry
  <2>3. rjob' = [rjob EXCEPT ![j] = [rjob[j] EXCEPT !.state = "active", !.tries = n]]
    BY <1>3, <2>2 DEF Render!TakeJob
  <2>4. PICK x \in RenderJob : /\ x = [rjob[j] EXCEPT !.state = "active", !.tries = n]
                               /\ x.state = "active"
    <3>1. "active" \in States
      BY DEF States
    <3>2. [rjob[j] EXCEPT !.state = "active", !.tries = n] \in RenderJob
      BY <1>1, <3>1 DEF RenderJob
    <3>3. QED
      BY <1>1, <3>2 DEF RenderJob
  <2>5. rpc' = [rpc EXCEPT ![j] = "start"] /\ "start" \in Awaits
    BY <1>3 DEF Render!TakeJob, Awaits
  <2>6. QED
    BY <1>1, <1>2, <2>3, <2>4, <2>5, JobMoves
<1>4. CASE Render!CancelRenderJob(j)
  <2>1. "removed" \in States /\ "idle" \in Awaits
    BY DEF States, Awaits
  <2>2. PICK x \in RenderJob : x = [rjob[j] EXCEPT !.state = "removed"] /\ x.state = "removed"
    BY <1>1, <2>1, StateFields
  <2>3. rjob' = [rjob EXCEPT ![j] = x] /\ rpc' = rpc
    BY <1>4, <2>2 DEF Render!CancelRenderJob
  <2>4. rpc' = [rpc EXCEPT ![j] = "idle"] /\ scene' = [scene EXCEPT ![j] = scene[j]]
    BY <1>1, <1>2, <2>3
  <2>5. QED
    BY <1>1, <1>2, <2>1, <2>2, <2>3, <2>4, JobMoves
<1>5. QED
  BY <1>3, <1>4

(* The worker builds the scene piece by piece.                             *)
LEMMA RenderBuilds ==
    ASSUME RenderInv, NEW j \in RenderJobs,
           Render!SetupScene(j) \/ Render!LoadAvatar(j) \/ Render!LoadLayers(j)
    PROVE  RenderInv'
<1>1. /\ rjob[j] \in RenderJob /\ scene[j] \in Scene /\ Worked(j) /\ Tried(j) /\ Staged(j)
      /\ rjob = [rjob EXCEPT ![j] = rjob[j]] /\ rjob[j].layers \in Copies
  BY JobParts DEF RenderJob
<1>2. /\ rpc[j] \in {"start", "avatar", "layers"} /\ rjob[j].state = "active"
      /\ rjob' = rjob /\ look' = look /\ RenderBooks'
  BY <1>1 DEF Render!SetupScene, Render!LoadAvatar, Render!LoadLayers, Worked, RenderInv,
     RenderBooks
<1>3. CASE Render!SetupScene(j)
  <2>1. PICK lights \in Render!Lighting :
           scene' = [scene EXCEPT ![j] = [Render!NoScene EXCEPT !.lights = lights]]
    BY <1>3 DEF Render!SetupScene
  <2>2. PICK y \in Scene : /\ scene' = [scene EXCEPT ![j] = y] /\ y.objects = <<>>
    <3>1. [Render!NoScene EXCEPT !.lights = lights] \in Scene
      BY NothingStaged DEF Scene
    <3>2. [Render!NoScene EXCEPT !.lights = lights].objects = <<>>
      BY DEF Render!NoScene
    <3>3. QED
      BY <2>1, <3>1, <3>2
  <2>3. rpc' = [rpc EXCEPT ![j] = "avatar"] /\ "avatar" \in Awaits
    BY <1>3 DEF Render!SetupScene, Awaits
  <2>4. QED
    BY <1>1, <1>2, <2>2, <2>3, JobMoves
<1>4. CASE Render!LoadAvatar(j)
  <2>1. scene[j].objects = <<>> /\ scene' = [scene EXCEPT ![j].objects = Append(@, "avatar")]
    BY <1>1, <1>4 DEF Render!LoadAvatar, Staged
  <2>2. [scene[j] EXCEPT !.objects = <<"avatar">>] \in Scene
    BY <1>1, ObjectSequences DEF Scene
  <2>3. PICK y \in Scene : scene' = [scene EXCEPT ![j] = y] /\ y.objects = <<"avatar">>
    <3>1. scene' = [scene EXCEPT ![j] = [scene[j] EXCEPT !.objects = <<"avatar">>]]
      BY <2>1, ObjectSequences
    <3>2. [scene[j] EXCEPT !.objects = <<"avatar">>].objects = <<"avatar">>
      BY <1>1 DEF Scene
    <3>3. QED
      BY <2>2, <3>1, <3>2
  <2>4. rpc' = [rpc EXCEPT ![j] = "layers"] /\ "layers" \in Awaits
    BY <1>4 DEF Render!LoadAvatar, Awaits
  <2>5. QED
    BY <1>1, <1>2, <2>3, <2>4, JobMoves
<1>5. CASE Render!LoadLayers(j)
  <2>1. PICK s \in Render!Orderings(Visible(rjob[j].layers)) :
           scene' = [scene EXCEPT ![j].objects = @ \o [i \in DOMAIN s |-> s[i].piece]]
    BY <1>5 DEF Render!LoadLayers, Visible
  <2> DEFINE image == <<"avatar">> \o [i \in DOMAIN s |-> s[i].piece]
  <2>2. image \in Seq(Objects) /\ Shows(image, rjob[j].layers)
    BY <1>1, OrderingShows
  <2>3. scene[j].objects = <<"avatar">>
    BY <1>1, <1>5 DEF Render!LoadLayers, Staged
  <2>4. scene' = [scene EXCEPT ![j] = [scene[j] EXCEPT !.objects = image]]
    BY <2>1, <2>3
  <2> HIDE DEF image
  <2>5. PICK y \in Scene : scene' = [scene EXCEPT ![j] = y] /\ y.objects = image
    <3>1. [scene[j] EXCEPT !.objects = image] \in Scene
      BY <1>1, <2>2 DEF Scene
    <3>2. [scene[j] EXCEPT !.objects = image].objects = image
      BY <1>1 DEF Scene
    <3>3. QED
      BY <2>4, <3>1, <3>2
  <2>6. rpc' = [rpc EXCEPT ![j] = "encode"] /\ "encode" \in Awaits
    BY <1>5 DEF Render!LoadLayers, Awaits
  <2>7. QED
    BY <1>1, <1>2, <2>2, <2>5, <2>6, JobMoves
<1>6. QED
  BY <1>3, <1>4, <1>5

(* The attempt leaves the scene behind, whichever way.                     *)
LEMMA RenderLeaves ==
    ASSUME RenderInv, NEW j \in RenderJobs,
           Render!Encode(j) \/ Render!RenderRejects(j) \/ Render!CreateFallbackImage(j)
    PROVE  RenderInv'
<1>1. /\ rjob[j] \in RenderJob /\ scene[j] \in Scene /\ Worked(j) /\ Tried(j) /\ Staged(j)
      /\ rjob = [rjob EXCEPT ![j] = rjob[j]] /\ scene = [scene EXCEPT ![j] = scene[j]]
  BY JobParts
<1>2. /\ rpc[j] \in {"start", "avatar", "layers", "encode", "fallback"}
      /\ rjob[j].state = "active" /\ look' = look
      /\ scene[j].objects \in Seq(Objects) /\ Render!NoScene \in Scene
      /\ "upload" \in Awaits /\ "fallback" \in Awaits
  BY <1>1, NothingStaged DEF Render!Encode, Render!RenderRejects, Render!CreateFallbackImage,
     Worked, Scene, Awaits
<1>3. RenderBooks'
  BY LimitsAssumption DEF RenderInv, RenderBooks, Render!Encode, Render!RenderRejects,
     Render!CreateFallbackImage
<1>4. CASE Render!Encode(j)
  <2>1. PICK a \in {"upload", "fallback"} : rpc' = [rpc EXCEPT ![j] = a]
    BY <1>4 DEF Render!Encode
  <2>2. rjob' = rjob /\ scene' = [scene EXCEPT ![j] = Render!NoScene]
    BY <1>4 DEF Render!Encode, Render!Dispose
  <2>3. QED
    BY <1>1, <1>2, <1>3, <2>1, <2>2, JobMoves
<1>5. CASE Render!RenderRejects(j)
  BY <1>1, <1>2, <1>3, <1>5, JobMoves DEF Render!RenderRejects, Render!Dispose
<1>6. CASE Render!CreateFallbackImage(j)
  <2>1. /\ rjob' = rjob /\ scene' = scene
        /\ rpc' = [rpc EXCEPT ![j] = "upload"] /\ scene[j] = Render!NoScene
    BY <1>1, <1>6 DEF Render!CreateFallbackImage, Staged
  <2>2. QED
    BY <1>1, <1>2, <1>3, <2>1, JobMoves
<1>7. QED
  BY <1>4, <1>5, <1>6

(* The job completes, or the attempt fails.                                *)
LEMMA RenderSettles ==
    ASSUME RenderInv, NEW j \in RenderJobs, Render!Complete(j) \/ Render!AttemptFails(j)
    PROVE  RenderInv'
<1>1. /\ rjob[j] \in RenderJob /\ scene[j] \in Scene /\ Worked(j) /\ Tried(j)
      /\ Staged(j) /\ scene = [scene EXCEPT ![j] = scene[j]]
  BY JobParts
<1>2. /\ rpc[j] \in {"start", "fallback", "upload"} /\ scene[j] = Render!NoScene
      /\ scene' = scene /\ look' = look /\ rpc' = [rpc EXCEPT ![j] = "idle"]
      /\ "idle" \in Awaits
  BY <1>1 DEF Render!Complete, Render!AttemptFails, Staged, Awaits
<1>3. RenderBooks'
  BY LimitsAssumption DEF RenderInv, RenderBooks, Render!Complete, Render!AttemptFails
<1>4. CASE Render!Complete(j)
  <2>1. "completed" \in States
    BY DEF States
  <2>2. PICK x \in RenderJob :
           /\ x = [rjob[j] EXCEPT !.state = "completed"]
           /\ x.state = "completed"
    BY <1>1, <2>1, StateFields
  <2>3. rjob' = [rjob EXCEPT ![j] = x]
    BY <1>4, <2>2 DEF Render!Complete
  <2>4. QED
    BY <1>1, <1>2, <1>3, <2>2, <2>3, JobMoves
<1>5. CASE Render!AttemptFails(j)
  <2>1. PICK s \in States :
           /\ s = IF rjob[j].tries < MaxAttempts THEN "waiting" ELSE "failed"
           /\ s = "waiting" => rjob[j].tries < MaxAttempts
           /\ s \in {"waiting", "failed"}
    BY DEF States
  <2>2. PICK x \in RenderJob :
           /\ x = [rjob[j] EXCEPT !.state = s] /\ x.state = s /\ x.tries = rjob[j].tries
    BY <1>1, StateFields
  <2>3. rjob' = [rjob EXCEPT ![j] = x]
    BY <1>5, <2>1, <2>2 DEF Render!AttemptFails
  <2>4. QED
    BY <1>1, <1>2, <1>3, <2>1, <2>2, <2>3, JobMoves
<1>6. QED
  BY <1>4, <1>5

(* A layer changes; the copies in the queue do not.                        *)
LEMMA RenderRests ==
    ASSUME RenderInv, UNCHANGED <<rjob, scene, rpc>>, RenderBooks',
           look' \in [Pieces -> [order : Orders, visible : BOOLEAN]]
    PROVE  RenderInv'
<1>1. RenderTypes'
  BY DEF RenderInv, RenderTypes
<1>2. ASSUME NEW j \in RenderJobs PROVE JobInv(j)'
  <2>1. Worked(j) /\ Tried(j) /\ Staged(j)
    BY DEF RenderInv, JobInv
  <2>2. Worked(j)' /\ Tried(j)' /\ Staged(j)'
    BY <2>1 DEF Worked, Tried, Staged
  <2>3. QED
    BY <2>2 DEF JobInv
<1>3. QED
  BY <1>1, <1>2 DEF RenderInv

(* A layer is edited under the jobs, which have copies.                    *)
LEMMA RenderEdits ==
    ASSUME RenderInv, Render!EditLayer \/ UNCHANGED renderVars
    PROVE  RenderInv'
<1>1. CASE Render!EditLayer
  <2>1. PICK p \in Pieces, o \in Orders, v \in BOOLEAN :
           look' = [look EXCEPT ![p] = [order |-> o, visible |-> v]]
    BY <1>1, RenderNumbers DEF Render!EditLayer
  <2>2. [order |-> o, visible |-> v] \in [order : Orders, visible : BOOLEAN]
    OBVIOUS
  <2>3. look' \in [Pieces -> [order : Orders, visible : BOOLEAN]]
    BY <2>1, <2>2 DEF RenderInv, RenderTypes
  <2>4. RenderBooks'
    BY <1>1, LimitsAssumption DEF RenderInv, RenderBooks, Render!EditLayer
  <2>5. QED
    BY <1>1, <2>3, <2>4, RenderRests DEF Render!EditLayer
<1>2. CASE UNCHANGED renderVars
  BY <1>2, RenderRests DEF renderVars, RenderInv, RenderTypes, RenderBooks
<1>3. QED
  BY <1>1, <1>2

-----------------------------------------------------------------------------
(* The invariant of the rendering, and what it says.                       *)
LEMMA RenderInit == Render!Init => RenderInv
<1> SUFFICES ASSUME Render!Init PROVE RenderInv
  OBVIOUS
<1> USE DEF Render!Init
<1>1. look \in [Pieces -> [order : Orders, visible : BOOLEAN]]
  <2> DEFINE Low == 0..(Render!Cardinality(Pieces) - 1)
  <2>1. Low \subseteq Orders
    BY RenderNumbers
  <2>2. look \in [Pieces -> [order : Low, visible : BOOLEAN]]
    OBVIOUS
  <2> HIDE DEF Low
  <2>3. [order : Low, visible : BOOLEAN] \subseteq [order : Orders, visible : BOOLEAN]
    BY <2>1
  <2>4. QED
    BY <2>2, <2>3
<1>2. RenderTypes
  BY <1>1, NothingStaged DEF RenderTypes, Awaits
<1>3. RenderBooks
  BY LimitsAssumption DEF RenderBooks
<1>4. ASSUME NEW j \in RenderJobs PROVE JobInv(j)
  <2>1. rjob[j] = Render!NoJob /\ scene[j] = Render!NoScene /\ rpc[j] = "idle"
    OBVIOUS
  <2>2. QED
    BY <2>1, NothingStaged, RenderNumbers DEF JobInv, Worked, Tried, Staged
<1>5. QED
  BY <1>2, <1>3, <1>4 DEF RenderInv

(* Every step keeps the invariant of the renders.                          *)
LEMMA RenderSteps == RenderInv /\ [Next]_vars => RenderInv'
<1> SUFFICES ASSUME RenderInv, [Next]_vars PROVE RenderInv'
  OBVIOUS
<1>1. CASE Next /\ ~UNCHANGED renderVars
  <2>1. \/ Render!EditLayer
        \/ \E j \in RenderJobs :
             \/ Render!RenderDesign(j) \/ Render!CancelRenderJob(j) \/ Render!TakeJob(j)
             \/ Render!SetupScene(j) \/ Render!LoadAvatar(j) \/ Render!LoadLayers(j)
             \/ Render!Encode(j) \/ Render!RenderRejects(j) \/ Render!CreateFallbackImage(j)
             \/ Render!Complete(j) \/ Render!AttemptFails(j)
    BY <1>1 DEF Next, OnLife, OnCreation, OnRender
  <2>2. QED
    BY <2>1, RenderEdits, RenderQueues, RenderTakes, RenderBuilds, RenderLeaves, RenderSettles
<1>2. CASE UNCHANGED renderVars
  BY <1>2, RenderEdits
<1>3. QED
  BY <1>1, <1>2 DEF vars

(* The invariant of the renders.                                           *)
LEMMA RenderHolds == Spec => []RenderInv
<1>1. Init => RenderInv
  BY RenderInit DEF Init
<1>2. RenderInv /\ [Next]_vars => RenderInv'
  BY RenderSteps
<1>3. QED
  BY <1>1, <1>2, PTL DEF Spec

(* It contains type correctness.                                           *)
LEMMA RenderTyped == RenderInv => Render!TypeOK
<1> SUFFICES ASSUME RenderInv PROVE Render!TypeOK
  OBVIOUS
<1>1. look \in [Pieces -> [order : 0..Render!Cardinality(Pieces), visible : BOOLEAN]]
  <2>1. look \in [Pieces -> [order : Orders, visible : BOOLEAN]]
    BY DEF RenderInv, RenderTypes
  <2>2. QED
    BY <2>1, RenderNumbers
<1>2. \A j \in RenderJobs :
         /\ rjob[j].state \in {"none", "waiting", "active", "completed", "failed", "removed"}
         /\ rpc[j] \in {"idle", "start", "avatar", "layers", "encode", "fallback", "upload"}
         /\ scene[j].lights \in Render!Lighting \cup {{}}
  BY DEF RenderInv, RenderTypes, RenderJob, States, Awaits, Scene
<1>3. \A j \in RenderJobs : rjob[j].tries \in Attempts
  BY DEF RenderInv, RenderTypes, RenderJob
<1>4. edits \in 0..MaxLayerEdits /\ glitches \in 0..MaxGlitches
  BY DEF RenderInv, RenderBooks
<1>5. QED
  BY <1>1, <1>2, <1>3, <1>4, Zenon DEF Render!TypeOK, Attempts

(* When a worker is about to draw, its scene holds the avatar and then     *)
(* every layer that was visible when the job was queued, in the order of   *)
(* the indexes of then, for any number of layers, edits, rejections and    *)
(* attempts.                                                               *)
THEOREM ScenesAreQueued == Spec => []SceneIsWhatWasQueued
<1>1. RenderInv => SceneIsWhatWasQueued
  <2> SUFFICES ASSUME RenderInv, NEW j \in RenderJobs, rpc[j] = "encode"
               PROVE  Shows(scene[j].objects, rjob[j].layers)
    BY DEF SceneIsWhatWasQueued, Render!SceneIsWhatWasQueued, Shows, Visible, QueuedAs
  <2>1. QED
    BY DEF RenderInv, JobInv, Staged
<1>2. QED
  BY <1>1, RenderHolds, PTL

(* Every way out of the worker releases the scene: a job that nobody works *)
(* on holds nothing in it.                                                 *)
THEOREM ScenesReleased == Spec => []SceneReleased
<1>1. RenderInv => SceneReleased
  BY DEF RenderInv, JobInv, Staged, SceneReleased, Render!SceneReleased
<1>2. QED
  BY <1>1, RenderHolds, PTL

-----------------------------------------------------------------------------
(* The three components together: a step of one leaves the others alone,   *)
(* so that each keeps its invariant.                                       *)
PartInv == part \in {"life", "creation", "render"}

(* The component that moves stays well typed, whatever calls come in.      *)
THEOREM ServicesTyped == Spec => []TypeOK
<1>1. Init => PartInv
  BY DEF Init, PartInv
<1>2. PartInv /\ [Next]_vars => PartInv'
  BY DEF PartInv, Next, vars, OnLife, OnCreation, OnRender
<1>3. LifeInv /\ CreationInv /\ RenderInv /\ PartInv => TypeOK
  BY LifeTypes, CreationTyped, RenderTyped DEF TypeOK, PartInv
<1>4. QED
  BY <1>1, <1>2, <1>3, LifeHolds, CreationHolds, RenderHolds, PTL DEF Spec
=============================================================================
