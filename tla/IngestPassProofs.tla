-------------------------- MODULE IngestPassProofs --------------------------
(***************************************************************************)
(* Proofs about IngestPass: whatever a source's validators hide is stored, *)
(* refused, in the hands of a running pass, or went with a pass that a     *)
(* store error ended.  The argument is about what a pass still owes: all   *)
(* it holds lies at or behind the walk, so a stop that drops the           *)
(* validators from there on drops them for everything it forgets, and of   *)
(* the source the walk is at, what the corpus and the provider have not    *)
(* settled is what the next step embeds or stores.                         *)
(***************************************************************************)
EXTENDS IngestPass, TLAPS

Phase == {"idle", "fetching", "walking", "embedding", "storing"}

PassType ==
    [at : Phase, polled : SUBSET Source, due : SUBSET Source,
     got : SUBSET (Source \X SUBSET Article), next : 1 .. Len(Sources) + 1,
     fresh : SUBSET Article]

Typed ==
    /\ published \in [Source -> Nat] /\ validator \in [Source -> Nat]
    /\ corpus \subseteq Article /\ refused \subseteq Article /\ unwound \subseteq Article
    /\ pass \in [Pass -> PassType]

\* What a pass has fetched is of sources it polled and whose articles it has yet to walk.
HoldsAhead(p) ==
    /\ pass[p].polled \subseteq Rewound(p)
    /\ \A g \in pass[p].got : g[1] \in pass[p].polled /\ g[2] \subseteq {g[1]} \X Nat
    /\ pass[p].at = "idle" => pass[p].got = {}
    /\ pass[p].at = "fetching" => pass[p].next = 1 /\ pass[p].due \subseteq pass[p].polled

\* Of the source the walk is at, what is not settled is about to be embedded or stored.
Settles(p) ==
    /\ pass[p].at \in {"embedding", "storing"} => pass[p].next <= Len(Sources)
    /\ pass[p].at = "embedding" => Got(p, Current(p)) \subseteq corpus \union pass[p].fresh
    /\ pass[p].at = "storing" =>
          Got(p, Current(p)) \subseteq corpus \union refused \union pass[p].fresh

IngestInv == Typed /\ (\A p \in Pass : HoldsAhead(p) /\ Settles(p)) /\ NothingHiddenIsLost

LEMMA SourcesFacts ==
    /\ Len(Sources) \in Nat /\ \A k \in 1 .. Len(Sources) : Sources[k] \in Source
    /\ \A s \in Source : \E k \in 1 .. Len(Sources) : s = Sources[k]
    /\ Idle \in PassType
<1>1. Sources \in Seq(Source)
  BY IngestAssumption DEF IngestAssumption
<1>2. Len(Sources) \in Nat /\ DOMAIN Sources = 1 .. Len(Sources)
  BY <1>1
<1>3. \A k \in 1 .. Len(Sources) : Sources[k] \in Source
  BY <1>2 DEF Source
<1>4. \A s \in Source : \E k \in 1 .. Len(Sources) : s = Sources[k]
  BY <1>2 DEF Source
<1> HIDE DEF Source
<1>5. Idle \in PassType
  <2>1. 1 \in 1 .. Len(Sources) + 1
    BY <1>2
  <2> QED BY <2>1 DEF Idle, PassType, Phase
<1> QED BY <1>2, <1>3, <1>4, <1>5

\* A pass a step leaves alone.
LEMMA OthersKept ==
    ASSUME NEW q \in Pass, pass'[q] = pass[q], corpus \subseteq corpus', refused \subseteq refused',
           HoldsAhead(q), Settles(q)
    PROVE  HoldsAhead(q)' /\ Settles(q)'
<1>1. HoldsAhead(q)'
  BY DEF HoldsAhead, Rewound
<1>2. Settles(q)'
  BY DEF Settles, Got, Current
<1> QED BY <1>1, <1>2

\* A pass that lets go of nothing loses nothing.
LEMMA NothingLetGo ==
    ASSUME Typed, NothingHiddenIsLost, NEW p \in Pass,
           \A q \in Pass \ {p} : pass'[q] = pass[q],
           \A g \in pass[p].got : g[2] \subseteq InHand(p)' \union corpus' \union refused' \union unwound',
           corpus \subseteq corpus', refused \subseteq refused',
           unwound \subseteq unwound' \union corpus',
           \A s \in Source : Hidden(s)' \subseteq Hidden(s) \union Held'
    PROVE  NothingHiddenIsLost'
<1> SUFFICES ASSUME NEW s \in Source, NEW a \in Hidden(s)'
             PROVE  a \in (corpus \union refused \union Held \union unwound)'
  BY DEF NothingHiddenIsLost
<1>1. CASE a \in Held'
  BY <1>1
<1>2. CASE a \in Hidden(s)
  <2>1. a \in corpus \union refused \union Held \union unwound
    BY <1>2 DEF NothingHiddenIsLost
  <2>2. CASE a \in Held
    <3>1. PICK q \in Pass : a \in InHand(q)
      BY <2>2 DEF Held
    <3>2. CASE q = p
      <4>1. PICK g \in pass[p].got : a \in g[2]
        BY <3>1, <3>2 DEF InHand
      <4>2. a \in InHand(p)' \union corpus' \union refused' \union unwound'
        BY <4>1
      <4>3. InHand(p)' \subseteq Held'
        BY DEF Held
      <4> QED BY <4>2, <4>3
    <3>3. CASE q # p
      <4>1. InHand(q)' = InHand(q)
        BY <3>3 DEF InHand
      <4> QED BY <3>1, <4>1 DEF Held
    <3> QED BY <3>2, <3>3
  <2> QED BY <2>1, <2>2
<1> QED BY <1>1, <1>2

\* The walk moves on: what it lets go of is settled.
LEMMA MovesOn ==
    ASSUME IngestInv, NEW p \in Pass, pass' = [pass EXCEPT ![p] = Advanced(p)],
           pass[p].next <= Len(Sources), Got(p, Current(p)) \subseteq corpus' \union refused',
           corpus \subseteq corpus', corpus' \subseteq Article, UNCHANGED <<published, validator, refused>>,
           unwound \subseteq unwound' \union corpus', unwound' \subseteq unwound
    PROVE  IngestInv'
<1> DEFINE s == Current(p)
<1>1. /\ pass[p] \in PassType /\ pass[p].next \in 1 .. Len(Sources) /\ Len(Sources) \in Nat
  <2>1. pass[p] \in PassType /\ Len(Sources) \in Nat
    BY SourcesFacts DEF IngestInv, Typed
  <2> QED BY <2>1 DEF PassType
<1>6. Advanced(p) = [at |-> "walking", polled |-> pass[p].polled \ {s}, due |-> pass[p].due,
                     got |-> {g \in pass[p].got : g[1] # s}, next |-> pass[p].next + 1,
                     fresh |-> {}]
  <2> DEFINE r == pass[p]
             ahead == {g \in r.got : g[1] # s}
             left == r.polled \ {s}
  <2>1. r = [at |-> r.at, polled |-> r.polled, due |-> r.due, got |-> r.got,
             next |-> r.next, fresh |-> r.fresh]
    BY <1>1 DEF PassType
  <2>2. Advanced(p) = [r EXCEPT !.at = "walking", !.next = r.next + 1, !.fresh = {},
                       !.polled = left, !.got = ahead]
    BY <2>1 DEF Advanced
  <2> HIDE DEF ahead, left, r
  <2>3. Advanced(p) = [at |-> "walking", polled |-> left, due |-> r.due,
                       got |-> ahead, next |-> r.next + 1, fresh |-> {}]
    BY <2>1, <2>2
  <2> QED BY <2>3 DEF ahead, left, r
<1>2. Advanced(p) \in PassType
  <2>1. pass[p].next + 1 \in 1 .. Len(Sources) + 1
    BY <1>1
  <2>3. "walking" \in Phase
    BY DEF Phase
  <2>4. /\ pass[p].polled \ {s} \in SUBSET Source /\ pass[p].due \in SUBSET Source
        /\ {g \in pass[p].got : g[1] # s} \in SUBSET (Source \X SUBSET Article)
    BY <1>1 DEF PassType
  <2> QED BY <1>6, <2>1, <2>3, <2>4 DEF PassType
<1>3. Typed'
  BY <1>2 DEF IngestInv, Typed
<1>4. ASSUME NEW q \in Pass PROVE HoldsAhead(q)' /\ Settles(q)'
  <2>1. CASE q # p
    <3>1. pass'[q] = pass[q]
      BY <2>1 DEF IngestInv, Typed
    <3>2. HoldsAhead(q) /\ Settles(q)
      BY DEF IngestInv
    <3> QED BY <3>1, <3>2, OthersKept
  <2>2. CASE q = p
    <3>1. pass'[p] = Advanced(p)
      BY DEF IngestInv, Typed
    <3>2. /\ pass'[p].at = "walking" /\ pass'[p].next = pass[p].next + 1
          /\ pass'[p].polled = pass[p].polled \ {s}
          /\ pass'[p].got = {g \in pass[p].got : g[1] # s}
      BY <1>6, <3>1
    <3>3. pass'[p].polled \subseteq Rewound(p)'
      <4> SUFFICES ASSUME NEW r \in pass[p].polled, r # s PROVE r \in Rewound(p)'
        BY <3>2
      <4>1. PICK k \in pass[p].next .. Len(Sources) : r = Sources[k]
        BY DEF IngestInv, HoldsAhead, Rewound
      <4>2. k \in pass[p].next + 1 .. Len(Sources)
        BY <1>1, <4>1 DEF Current
      <4> QED BY <3>2, <4>1, <4>2 DEF Rewound
    <3>4. \A g \in pass'[p].got : g[1] \in pass'[p].polled /\ g[2] \subseteq {g[1]} \X Nat
      BY <3>2 DEF IngestInv, HoldsAhead
    <3> QED BY <2>2, <3>2, <3>3, <3>4 DEF HoldsAhead, Settles
  <2> QED BY <2>1, <2>2
<1>5. NothingHiddenIsLost'
  <2>1. \A q \in Pass \ {p} : pass'[q] = pass[q]
    BY DEF IngestInv, Typed
  <2>2. \A r \in Source : Hidden(r)' = Hidden(r)
    BY DEF Hidden
  <2>3. ASSUME NEW g \in pass[p].got
        PROVE  g[2] \subseteq InHand(p)' \union corpus' \union refused'
    <3>1. pass'[p].got = {h \in pass[p].got : h[1] # s}
      BY <1>1 DEF IngestInv, Typed, Advanced, PassType
    <3>2. CASE g[1] # s
      BY <3>1, <3>2 DEF InHand
    <3>3. CASE g[1] = s
      <4>1. g[2] \subseteq Got(p, s)
        BY <3>3 DEF Got
      <4> QED BY <4>1
    <3> QED BY <3>2, <3>3
  <2> QED BY <2>1, <2>2, <2>3, NothingLetGo DEF IngestInv
<1> QED BY <1>3, <1>4, <1>5 DEF IngestInv

\* A pass that goes back to idle.
LEMMA Leaves ==
    ASSUME IngestInv, NEW p \in Pass, pass' = [pass EXCEPT ![p] = Idle],
           published' = published, validator' \in [Source -> Nat], corpus' = corpus,
           refused' = refused, unwound \subseteq unwound', unwound' \subseteq Article,
           \A s \in Source : validator'[s] \in {0, validator[s]},
           \A s \in Source : \A g \in pass[p].got :
              s = g[1] => validator'[s] = 0 \/ g[2] \subseteq corpus \union unwound'
    PROVE  IngestInv'
<1>1. Typed'
  BY SourcesFacts DEF IngestInv, Typed
<1>2. ASSUME NEW q \in Pass PROVE HoldsAhead(q)' /\ Settles(q)'
  <2>1. CASE q # p
    <3>1. pass'[q] = pass[q]
      BY <2>1 DEF IngestInv, Typed
    <3>2. HoldsAhead(q) /\ Settles(q)
      BY DEF IngestInv
    <3> QED BY <3>1, <3>2, OthersKept
  <2>2. CASE q = p
    <3>1. pass'[p] = Idle
      BY DEF IngestInv, Typed
    <3> QED BY <2>2, <3>1 DEF Idle, HoldsAhead, Settles
  <2> QED BY <2>1, <2>2
<1>3. NothingHiddenIsLost'
  <2> SUFFICES ASSUME NEW s \in Source, NEW a \in Hidden(s)'
               PROVE  a \in (corpus \union refused \union Held \union unwound)'
    BY DEF NothingHiddenIsLost
  <2>1. validator'[s] # 0
    <3>1. SUFFICES ASSUME validator'[s] = 0 PROVE FALSE
      OBVIOUS
    <3>2. 1 .. validator'[s] = {}
      BY <3>1
    <3> QED BY <3>2 DEF Hidden
  <2>2. validator'[s] = validator[s] /\ a \in Hidden(s)
    BY <2>1 DEF Hidden
  <2>3. a \in corpus \union refused \union Held \union unwound
    BY <2>2 DEF IngestInv, NothingHiddenIsLost
  <2>4. CASE a \in Held
    <3>1. PICK q \in Pass : a \in InHand(q)
      BY <2>4 DEF Held
    <3>2. CASE q # p
      <4>1. InHand(q)' = InHand(q)
        BY <3>2 DEF InHand, IngestInv, Typed
      <4> QED BY <3>1, <4>1 DEF Held
    <3>3. CASE q = p
      <4>1. PICK g \in pass[p].got : a \in g[2]
        BY <3>1, <3>3 DEF InHand
      <4>2. g[2] \subseteq {g[1]} \X Nat
        BY <4>1 DEF IngestInv, HoldsAhead
      <4>3. a[1] = s
        BY <2>2 DEF Hidden
      <4>4. g[1] = s
        BY <4>1, <4>2, <4>3
      <4> QED BY <2>1, <4>1, <4>4
    <3> QED BY <3>2, <3>3
  <2> QED BY <2>3, <2>4
<1> QED BY <1>1, <1>2, <1>3 DEF IngestInv

\* A step that only moves a pass forward within its source, or the feeds.
LEMMA Stays ==
    ASSUME IngestInv, NEW p \in Pass, NEW to \in PassType, pass' = [pass EXCEPT ![p] = to],
           to.polled = pass[p].polled, to.next = pass[p].next, to.got = pass[p].got,
           to.at \notin {"idle", "fetching"}, UNCHANGED <<published, validator, corpus, unwound>>,
           refused \subseteq refused', refused' \subseteq Article,
           to.at \in {"embedding", "storing"} => pass[p].next <= Len(Sources),
           to.at = "embedding" => Got(p, Current(p)) \subseteq corpus \union to.fresh,
           to.at = "storing" => Got(p, Current(p)) \subseteq corpus \union refused' \union to.fresh
    PROVE  IngestInv'
<1>1. Typed' /\ pass'[p] = to
  BY DEF IngestInv, Typed
<1>2. ASSUME NEW q \in Pass PROVE HoldsAhead(q)' /\ Settles(q)'
  <2>1. CASE q # p
    <3>1. pass'[q] = pass[q]
      BY <2>1 DEF IngestInv, Typed
    <3>2. HoldsAhead(q) /\ Settles(q)
      BY DEF IngestInv
    <3> QED BY <3>1, <3>2, OthersKept
  <2>2. CASE q = p
    <3>1. HoldsAhead(p)'
      BY <1>1 DEF IngestInv, HoldsAhead, Rewound
    <3>2. Got(p, Current(p))' = Got(p, Current(p))
      BY <1>1 DEF Got, Current
    <3>3. Settles(p)'
      BY <1>1, <3>2 DEF Settles
    <3> QED BY <2>2, <3>1, <3>3
  <2> QED BY <2>1, <2>2
<1>3. NothingHiddenIsLost'
  <2>1. \A q \in Pass \ {p} : pass'[q] = pass[q]
    BY DEF IngestInv, Typed
  <2>2. \A r \in Source : Hidden(r)' = Hidden(r)
    BY DEF Hidden
  <2>3. InHand(p)' = InHand(p)
    BY <1>1 DEF InHand
  <2>4. \A g \in pass[p].got : g[2] \subseteq InHand(p)'
    BY <2>3 DEF InHand
  <2> QED BY <2>1, <2>2, <2>4, NothingLetGo DEF IngestInv
<1> QED BY <1>1, <1>2, <1>3 DEF IngestInv

\* An answer of a source the pass polled: nothing, or what the feed shows.
LEMMA Answered ==
    ASSUME IngestInv, NEW p \in Pass, pass[p].at = "fetching", NEW s \in pass[p].polled,
           NEW answers \in SUBSET (Source \X SUBSET Article), NEW left \in SUBSET pass[p].polled,
           pass' = [pass EXCEPT ![p].due = left, ![p].got = answers], pass[p].got \subseteq answers,
           \A g \in answers \ pass[p].got : g[1] = s /\ g[2] \subseteq {s} \X Nat,
           UNCHANGED <<published, corpus, refused, unwound>>, validator' \in [Source -> Nat],
           \A r \in Source : Hidden(r)' \subseteq Hidden(r) \union Held'
    PROVE  IngestInv'
<1>1. pass[p] \in PassType
  BY DEF IngestInv, Typed
<1>2. pass'[p] = [pass[p] EXCEPT !.due = left, !.got = answers]
  BY DEF IngestInv, Typed
<1>3. /\ pass'[p].at = "fetching" /\ pass'[p].polled = pass[p].polled /\ pass'[p].got = answers
      /\ pass'[p].next = pass[p].next /\ pass'[p].due = left /\ pass'[p] \in PassType
  <2> DEFINE r == pass[p]
             x == pass'[p]
  <2>1. left \in SUBSET Source
    BY <1>1 DEF PassType
  <2>2. r \in PassType /\ x = [r EXCEPT !.due = left, !.got = answers] /\ r.at = "fetching"
    BY <1>1, <1>2
  <2> HIDE DEF r, x
  <2>3. x \in PassType
    BY <2>1, <2>2 DEF PassType
  <2>4. x.at = "fetching" /\ x.polled = r.polled /\ x.next = r.next
    BY <2>2 DEF PassType
  <2>5. x.got = answers /\ x.due = left
    BY <2>2 DEF PassType
  <2> QED BY <2>3, <2>4, <2>5 DEF r, x
<1>4. Typed'
  <2>1. pass' = [pass EXCEPT ![p] = [pass[p] EXCEPT !.due = left, !.got = answers]]
    BY DEF IngestInv, Typed
  <2> QED BY <1>2, <1>3, <2>1 DEF IngestInv, Typed
<1>5. \A q \in Pass \ {p} : pass'[q] = pass[q]
  BY DEF IngestInv, Typed
<1>6. ASSUME NEW q \in Pass PROVE HoldsAhead(q)' /\ Settles(q)'
  <2>1. CASE q # p
    <3>1. pass'[q] = pass[q]
      BY <1>5, <2>1
    <3>2. HoldsAhead(q) /\ Settles(q)
      BY DEF IngestInv
    <3> QED BY <3>1, <3>2, OthersKept
  <2>2. CASE q = p
    <3>1. HoldsAhead(p)
      BY DEF IngestInv
    <3>2. \A g \in answers : g[1] \in pass[p].polled /\ g[2] \subseteq {g[1]} \X Nat
      BY <3>1 DEF HoldsAhead
    <3> QED BY <1>3, <2>2, <3>1, <3>2 DEF HoldsAhead, Settles, Rewound
  <2> QED BY <2>1, <2>2
<1>7. \A g \in pass[p].got : g[2] \subseteq InHand(p)'
  BY <1>3 DEF InHand
<1> QED BY <1>4, <1>5, <1>6, <1>7, NothingLetGo DEF IngestInv

LEMMA FetchKeeps ==
    ASSUME IngestInv, NEW p \in Pass, NEW s \in Source,
           NotModified(p, s) \/ Body(p, s) \/ FetchFails(p, s)
    PROVE  IngestInv'
<1> DEFINE left == pass[p].due \ {s}
<1>1. pass[p] \in PassType /\ validator \in [Source -> Nat] /\ published \in [Source -> Nat]
  BY DEF IngestInv, Typed
<1>2. /\ pass[p].due \in SUBSET pass[p].polled /\ s \in pass[p].polled
      /\ pass[p].got \in SUBSET (Source \X SUBSET Article) /\ pass[p].at = "fetching"
  BY <1>1 DEF NotModified, Body, FetchFails, IngestInv, HoldsAhead, PassType
<1>3. left \in SUBSET pass[p].polled
  BY <1>2
<1>4. ASSUME NEW articles \in SUBSET Article, articles \subseteq {s} \X Nat,
             Fetched(p, s, articles), UNCHANGED <<published, corpus, refused, unwound>>,
             validator' \in [Source -> Nat],
             \A r \in Source : Hidden(r)' \subseteq Hidden(r) \union (IF r = s THEN articles ELSE {})
      PROVE  IngestInv'
  <2> DEFINE answers == pass[p].got \union {<<s, articles>>}
  <2>1. answers \in SUBSET (Source \X SUBSET Article)
    BY <1>2
  <2>2. pass' = [pass EXCEPT ![p].due = left, ![p].got = answers]
    BY <1>4 DEF Fetched
  <2>3. \A g \in answers \ pass[p].got : g[1] = s /\ g[2] \subseteq {s} \X Nat
    BY <1>4
  <2>4. articles \subseteq Held'
    <3>1. pass'[p].got = answers
      BY <1>1, <2>2 DEF IngestInv, Typed, PassType
    <3>2. <<s, articles>> \in answers /\ <<s, articles>>[2] = articles
      OBVIOUS
    <3>3. articles \subseteq InHand(p)'
      <4> SUFFICES ASSUME NEW a \in articles PROVE a \in UNION {g[2] : g \in pass'[p].got}
        BY DEF InHand
      <4> QED BY <3>1, <3>2
    <3> QED BY <3>3 DEF Held
  <2>5. \A r \in Source : Hidden(r)' \subseteq Hidden(r) \union Held'
    BY <1>4, <2>4
  <2> HIDE DEF answers, left
  <2>6. pass[p].got \subseteq answers
    BY DEF answers
  <2> QED BY <1>2, <1>3, <1>4, <2>1, <2>2, <2>3, <2>5, <2>6, Answered
<1>5. CASE NotModified(p, s)
  <2>1. \A r \in Source : Hidden(r)' = Hidden(r)
    BY <1>5 DEF NotModified, Hidden
  <2> QED BY <1>1, <1>4, <1>5, <2>1 DEF NotModified
<1>6. CASE Body(p, s)
  <2>1. Window(s) \subseteq {s} \X Nat /\ Window(s) \in SUBSET Article
    BY <1>1 DEF Window, Article
  <2>2. validator' \in [Source -> Nat]
    BY <1>1, <1>6 DEF Body
  <2>3. ASSUME NEW r \in Source
        PROVE  Hidden(r)' \subseteq Hidden(r) \union (IF r = s THEN Window(s) ELSE {})
    <3>1. CASE validator'[r] = validator[r]
      BY <3>1 DEF Hidden
    <3>2. CASE r = s /\ validator'[s] = published[s]
      BY <3>2 DEF Hidden, Window
    <3> QED BY <1>1, <1>6, <3>1, <3>2 DEF Body
  <2> HIDE DEF left
  <2> QED BY <1>4, <1>6, <2>1, <2>2, <2>3 DEF Body
<1>7. CASE FetchFails(p, s)
  <2>1. pass' = [pass EXCEPT ![p].due = left]
    BY <1>7 DEF FetchFails
  <2>2. [pass[p] EXCEPT !.due = left] = [pass[p] EXCEPT !.due = left, !.got = pass[p].got]
    BY <1>1 DEF PassType
  <2>3. pass' = [pass EXCEPT ![p].due = left, ![p].got = pass[p].got]
    BY <2>1, <2>2
  <2>4. \A r \in Source : Hidden(r)' \subseteq Hidden(r) \union Held'
    BY <1>7 DEF FetchFails, Hidden
  <2> HIDE DEF left
  <2> QED BY <1>1, <1>2, <1>3, <1>7, <2>3, <2>4, Answered DEF FetchFails
<1> QED BY <1>5, <1>6, <1>7

LEMMA WalkKeeps ==
    ASSUME IngestInv, NEW p \in Pass,
           StartWalk(p) \/ Nothing(p) \/ Lookup(p) \/ Embed(p) \/ Upsert(p)
    PROVE  IngestInv'
<1>1. pass[p] \in PassType /\ Settles(p) /\ corpus \subseteq Article /\ refused \subseteq Article
  BY DEF IngestInv, Typed
<1>2. pass[p] = [at |-> pass[p].at, polled |-> pass[p].polled, due |-> pass[p].due,
                 got |-> pass[p].got, next |-> pass[p].next, fresh |-> pass[p].fresh]
  BY <1>1 DEF PassType
<1>3. ASSUME NEW at \in {"walking", "embedding", "storing"}, NEW fresh \in SUBSET Article
      PROVE  /\ [pass[p] EXCEPT !.at = at, !.fresh = fresh] \in PassType
             /\ [pass[p] EXCEPT !.at = at, !.fresh = fresh].polled = pass[p].polled
             /\ [pass[p] EXCEPT !.at = at, !.fresh = fresh].next = pass[p].next
             /\ [pass[p] EXCEPT !.at = at, !.fresh = fresh].got = pass[p].got
             /\ [pass[p] EXCEPT !.at = at, !.fresh = fresh].at = at
             /\ [pass[p] EXCEPT !.at = at, !.fresh = fresh].fresh = fresh
  BY <1>1 DEF PassType, Phase
<1>4. pass[p].fresh \in SUBSET Article
  BY <1>1 DEF PassType
<1>5. CASE StartWalk(p)
  <2> DEFINE to == [pass[p] EXCEPT !.at = "walking", !.fresh = pass[p].fresh]
  <2>1. pass' = [pass EXCEPT ![p] = to] /\ UNCHANGED <<published, validator, corpus, refused, unwound>>
    BY <1>2, <1>5 DEF StartWalk
  <2>2. /\ to \in PassType /\ to.polled = pass[p].polled /\ to.next = pass[p].next
        /\ to.got = pass[p].got /\ to.at = "walking"
    BY <1>3, <1>4
  <2> HIDE DEF to
  <2> QED BY <1>1, <2>1, <2>2, Stays
<1>6. CASE Lookup(p)
  <2> DEFINE new == Got(p, Current(p)) \ corpus
             to == [pass[p] EXCEPT !.at = "embedding", !.fresh = new]
  <2>1. /\ pass' = [pass EXCEPT ![p] = to] /\ UNCHANGED <<published, validator, corpus, refused, unwound>>
        /\ pass[p].next <= Len(Sources)
    BY <1>2, <1>6 DEF Lookup
  <2>2. new \in SUBSET Article
    <3>1. \A g \in pass[p].got : g[2] \subseteq Article
      BY <1>1 DEF PassType
    <3> QED BY <3>1 DEF Got
  <2>3. /\ to \in PassType /\ to.polled = pass[p].polled /\ to.next = pass[p].next
        /\ to.got = pass[p].got /\ to.at = "embedding" /\ to.fresh = new
    BY <1>3, <2>2
  <2>4. Got(p, Current(p)) \subseteq corpus \union to.fresh
    BY <2>3
  <2> HIDE DEF to, new
  <2> QED BY <1>1, <2>1, <2>3, <2>4, Stays
<1>7. CASE Embed(p)
  <2>1. PICK out \in SUBSET pass[p].fresh :
          /\ refused' = refused \union out
          /\ pass' = [pass EXCEPT ![p].at = "storing", ![p].fresh = @ \ out]
    BY <1>7 DEF Embed
  <2> DEFINE rest == pass[p].fresh \ out
             to == [pass[p] EXCEPT !.at = "storing", !.fresh = rest]
  <2>2. pass' = [pass EXCEPT ![p] = to] /\ UNCHANGED <<published, validator, corpus, unwound>>
    <3>1. pass' = [pass EXCEPT ![p] = [pass[p] EXCEPT !.at = "storing", !.fresh = @ \ out]]
      BY <2>1
    <3>2. [pass[p] EXCEPT !.at = "storing", !.fresh = @ \ out] = to
      BY <1>2
    <3>3. UNCHANGED <<published, validator, corpus, unwound>>
      BY <1>7 DEF Embed
    <3> HIDE DEF to
    <3> QED BY <3>1, <3>2, <3>3
  <2>3. /\ to \in PassType /\ to.polled = pass[p].polled /\ to.next = pass[p].next
        /\ to.got = pass[p].got /\ to.at = "storing" /\ to.fresh = rest
    BY <1>3, <1>4
  <2>4. /\ Got(p, Current(p)) \subseteq corpus \union refused' \union rest
        /\ pass[p].next <= Len(Sources)
    BY <1>1, <1>7, <2>1 DEF Embed, Settles
  <2>5. refused \subseteq refused' /\ refused' \subseteq Article
    BY <1>1, <1>4, <2>1
  <2> HIDE DEF to, rest
  <2> QED BY <2>2, <2>3, <2>4, <2>5, Stays
<1>8. CASE Nothing(p)
  BY <1>1, <1>8, MovesOn DEF Nothing
<1>9. CASE Upsert(p)
  <2>1. /\ pass[p].next <= Len(Sources)
        /\ Got(p, Current(p)) \subseteq corpus \union refused \union pass[p].fresh
    BY <1>1, <1>9 DEF Upsert, Settles
  <2>2. /\ corpus' = corpus \union pass[p].fresh /\ unwound' = unwound \ pass[p].fresh
        /\ pass' = [pass EXCEPT ![p] = Advanced(p)] /\ UNCHANGED <<published, validator, refused>>
    BY <1>9 DEF Upsert
  <2>3. /\ corpus \subseteq corpus' /\ corpus' \subseteq Article
        /\ unwound \subseteq unwound' \union corpus' /\ unwound' \subseteq unwound
    BY <1>1, <1>4, <2>2
  <2>4. Got(p, Current(p)) \subseteq corpus' \union refused'
    BY <2>1, <2>2
  <2>5. pass' = [pass EXCEPT ![p] = Advanced(p)] /\ UNCHANGED <<published, validator, refused>>
    BY <2>2
  <2> QED BY <2>1, <2>3, <2>4, <2>5, MovesOn
<1> QED BY <1>5, <1>6, <1>7, <1>8, <1>9

LEMMA EndKeeps ==
    ASSUME IngestInv, NEW p \in Pass, StopAfterEmbed(p) \/ StoreRaises(p) \/ Finish(p)
    PROVE  IngestInv'
<1>1. /\ pass[p] \in PassType /\ HoldsAhead(p) /\ validator \in [Source -> Nat]
      /\ unwound \subseteq Article
  BY DEF IngestInv, Typed
<1>2. pass' = [pass EXCEPT ![p] = Idle] /\ UNCHANGED <<published, corpus, refused>>
  BY DEF StopAfterEmbed, StoreRaises, Finish
<1>3. CASE StopAfterEmbed(p)
  <2>1. /\ validator' = [s \in Source |->
               IF s \in Rewound(p) \intersect pass[p].polled THEN 0 ELSE validator[s]]
        /\ unwound' = unwound
    BY <1>3 DEF StopAfterEmbed
  <2>2. \A s \in Source : \A g \in pass[p].got : s = g[1] => validator'[s] = 0
    BY <1>1, <2>1 DEF HoldsAhead
  <2>3. validator' \in [Source -> Nat] /\ \A s \in Source : validator'[s] \in {0, validator[s]}
    BY <1>1, <2>1
  <2>4. \A s \in Source : \A g \in pass[p].got :
           s = g[1] => validator'[s] = 0 \/ g[2] \subseteq corpus \union unwound'
    BY <2>2
  <2>5. unwound \subseteq unwound' /\ unwound' \subseteq Article
    BY <1>1, <2>1
  <2>6. published' = published /\ corpus' = corpus /\ refused' = refused
    BY <1>2
  <2> QED BY <1>2, <2>3, <2>4, <2>5, <2>6, Leaves
<1>4. CASE StoreRaises(p)
  <2>1. unwound' = unwound \union (InHand(p) \ corpus) /\ validator' = validator
    BY <1>4 DEF StoreRaises
  <2>2. InHand(p) \subseteq Article
    BY <1>1 DEF InHand, PassType
  <2>3. \A g \in pass[p].got : g[2] \subseteq corpus \union unwound'
    BY <2>1 DEF InHand
  <2> QED BY <1>1, <1>2, <2>1, <2>2, <2>3, Leaves
<1>5. CASE Finish(p)
  <2>1. UNCHANGED <<validator, unwound>> /\ pass[p].next > Len(Sources)
    BY <1>5 DEF Finish
  <2>2. pass[p].next .. Len(Sources) = {}
    BY <1>1, <2>1, SourcesFacts DEF PassType
  <2>3. pass[p].got = {}
    BY <1>1, <2>2 DEF HoldsAhead, Rewound
  <2> QED BY <1>1, <1>2, <2>1, <2>3, Leaves
<1> QED BY <1>3, <1>4, <1>5

LEMMA PlanKeeps ==
    ASSUME IngestInv, NEW p \in Pass, Plan(p)
    PROVE  IngestInv'
<1>1. PICK chosen \in (SUBSET Source) \ {{}} :
        pass' = [pass EXCEPT ![p] = [Idle EXCEPT !.at = "fetching", !.polled = chosen, !.due = chosen]]
  BY DEF Plan
<1> DEFINE to == [Idle EXCEPT !.at = "fetching", !.polled = chosen, !.due = chosen]
<1>2. pass' = [pass EXCEPT ![p] = to]
  BY <1>1
<1>3. /\ to \in PassType /\ to.at = "fetching" /\ to.polled = chosen /\ to.due = chosen
      /\ to.got = {} /\ to.next = 1
  <2>1. Idle \in PassType /\ chosen \in SUBSET Source /\ "fetching" \in Phase
    BY SourcesFacts DEF Phase
  <2>2. /\ to.at = "fetching" /\ to.polled = chosen /\ to.due = chosen
        /\ to.got = {} /\ to.next = 1
    BY DEF Idle
  <2>3. to \in PassType
    BY <2>1 DEF PassType
  <2> QED BY <2>2, <2>3
<1> HIDE DEF to
<1>4. Typed' /\ pass'[p] = to
  BY <1>2, <1>3 DEF Plan, IngestInv, Typed
<1>5. ASSUME NEW q \in Pass PROVE HoldsAhead(q)' /\ Settles(q)'
  <2>1. CASE q # p
    <3>1. pass'[q] = pass[q]
      BY <1>2, <2>1 DEF IngestInv, Typed
    <3>2. HoldsAhead(q) /\ Settles(q) /\ UNCHANGED <<corpus, refused>>
      BY DEF IngestInv, Plan
    <3> QED BY <3>1, <3>2, OthersKept
  <2>2. CASE q = p
    <3>1. Rewound(p)' = {Sources[k] : k \in 1 .. Len(Sources)}
      BY <1>3, <1>4 DEF Rewound
    <3>2. chosen \subseteq Rewound(p)'
      BY <3>1, SourcesFacts
    <3> QED BY <1>3, <1>4, <2>2, <3>2 DEF HoldsAhead, Settles
  <2> QED BY <2>1, <2>2
<1>6. NothingHiddenIsLost'
  <2>1. \A q \in Pass \ {p} : pass'[q] = pass[q]
    BY <1>2 DEF IngestInv, Typed
  <2>2. \A r \in Source : Hidden(r)' = Hidden(r)
    BY DEF Hidden, Plan
  <2>3. pass[p].got = {} /\ UNCHANGED <<corpus, refused, unwound>>
    BY DEF Plan, IngestInv, HoldsAhead
  <2> QED BY <2>1, <2>2, <2>3, NothingLetGo DEF IngestInv
<1> QED BY <1>4, <1>5, <1>6 DEF IngestInv

LEMMA IngestInvariance == Spec => []IngestInv
<1>1. Init => IngestInv
  <2> SUFFICES ASSUME Init PROVE IngestInv
    OBVIOUS
  <2>1. Typed
    BY SourcesFacts DEF Init, Typed
  <2>2. \A p \in Pass : HoldsAhead(p) /\ Settles(p)
    BY DEF Init, Idle, HoldsAhead, Settles
  <2>3. \A s \in Source : Hidden(s) = {}
    <3>1. 1 .. 0 = {}
      OBVIOUS
    <3> QED BY <3>1 DEF Init, Hidden
  <2> QED BY <2>1, <2>2, <2>3 DEF IngestInv, NothingHiddenIsLost
<1>2. IngestInv /\ [Next]_vars => IngestInv'
  <2> SUFFICES ASSUME IngestInv, [Next]_vars PROVE IngestInv'
    OBVIOUS
  <2>1. ASSUME NEW p \in Pass, Step(p) PROVE IngestInv'
    BY <2>1, PlanKeeps, FetchKeeps, WalkKeeps, EndKeeps DEF Step
  <2>2. CASE UNCHANGED <<validator, corpus, refused, pass, unwound>> /\ published' \in [Source -> Nat]
    <3>1. Typed'
      BY <2>2 DEF IngestInv, Typed
    <3>2. \A q \in Pass : HoldsAhead(q)' /\ Settles(q)'
      BY <2>2, OthersKept DEF IngestInv
    <3>3. NothingHiddenIsLost'
      BY <2>2 DEF IngestInv, NothingHiddenIsLost, Hidden, Held, InHand
    <3> QED BY <3>1, <3>2, <3>3 DEF IngestInv
  <2>3. ASSUME NEW s \in Source, Publish(s) PROVE IngestInv'
    <3>1. published' \in [Source -> Nat]
      BY <2>3 DEF Publish, IngestInv, Typed
    <3> QED BY <2>2, <2>3, <3>1 DEF Publish
  <2>4. CASE Restart
    <3>1. Typed'
      BY <2>4, SourcesFacts DEF Restart, IngestInv, Typed
    <3>2. \A q \in Pass : HoldsAhead(q)' /\ Settles(q)'
      BY <2>4 DEF Restart, Idle, HoldsAhead, Settles
    <3>3. \A s \in Source : Hidden(s)' = {}
      <4>1. 1 .. 0 = {}
        OBVIOUS
      <4> QED BY <2>4, <4>1 DEF Restart, Hidden
    <3> QED BY <3>1, <3>2, <3>3 DEF IngestInv, NothingHiddenIsLost
  <2>5. CASE UNCHANGED vars
    BY <2>2, <2>5 DEF vars, IngestInv, Typed
  <2> QED BY <2>1, <2>3, <2>4, <2>5 DEF Next
<1> QED BY <1>1, <1>2, PTL DEF Spec

\* Whatever the feeds publish and show, however passes overlap, whichever answers fail
\* and wherever the embedder stops a pass: an article a feed will not show again is
\* stored, refused, held by a pass that runs on, or went with a pass a store error ended.
THEOREM NothingIsLost == Spec => []NothingHiddenIsLost
BY IngestInvariance, PTL DEF IngestInv

\* The contract as it is stated holds as long as no store error has ended a pass that
\* held what it had not stored.
THEOREM OnlyStoreErrorsLose == Spec => [](unwound = {} => SeenAgain)
<1>1. IngestInv => (unwound = {} => SeenAgain)
  BY DEF IngestInv, NothingHiddenIsLost, SeenAgain
<1> QED BY <1>1, IngestInvariance, PTL
=============================================================================
