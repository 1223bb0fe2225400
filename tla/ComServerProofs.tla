--------------------------- MODULE ComServerProofs ---------------------------
(***************************************************************************)
(* Proofs about the COM server, for any clients and any gateways: the      *)
(* reference counts and the lock count are exact.                          *)
(***************************************************************************)
EXTENDS ComServer, FiniteSetTheorems, TLAPS

(***************************************************************************)
(* The inductive invariant.                                                *)
(***************************************************************************)
Typed == /\ phase \in Phases
         /\ quitThread \in BOOLEAN
         /\ queue \in Seq(Clients \cup {Quit})
         /\ stack \in Seq(Clients)
         /\ call \in [Clients -> Call]
         /\ gw \in [Gateways -> Gateway]
         /\ held \in [Clients -> SUBSET Gateways]
         /\ locks \in SUBSET Clients

\* Each call is where its stage says: in the queue once, or on the stack.
Waiting == {"none", "scm", "queued"}
Order == /\ \A i, j \in DOMAIN queue : queue[i] = queue[j] => i = j
         /\ \A i \in DOMAIN queue : queue[i] # Quit => call[queue[i]].stage = "queued"
         /\ \A c \in Clients : call[c].stage \notin Waiting => \E i \in DOMAIN stack : stack[i] = c
         /\ phase = "ended" => /\ queue = <<>> /\ stack = <<>>
                               /\ \A c \in Clients : call[c].stage \in {"none", "scm"}
         /\ phase \in {"start", "registered"} => ~quitThread

\* What a call at each stage has.
Targeted(c) ==
  /\ call[c].stage = "scm" => call[c].op = "create"
  /\ call[c].op \in {"method", "query"} /\ call[c].stage \in {"queued", "python"}
       => call[c].target \in held[c]
  /\ call[c].op \in {"release", "unknown"} /\ call[c].stage = "queued"
       => call[c].target \in held[c]
  /\ call[c].op = "unknown" /\ call[c].stage = "queued"
       => gw[call[c].target].base # None /\ gw[call[c].target].base \notin held[c]
  /\ call[c].stage = "queued" /\ call[c].op = "lock" => c \notin locks
  /\ call[c].stage = "queued" /\ call[c].op = "unlock" => c \in locks
Staged(c) ==
  /\ call[c].wrap # None <=> call[c].stage \in {"made", "drop"}
  /\ call[c].wrap # None => gw[call[c].wrap].base = None /\ call[c].wrap \notin held[c]
  /\ call[c].result # None => /\ call[c].stage \in {"drop", "dropped", "done"}
                              /\ call[c].result \notin held[c]
  /\ call[c].dying # {} => call[c].stage \in {"dropped", "done"}
Calls == \A c \in Clients : Targeted(c) /\ Staged(c)

\* The gateways: bases have no base, and only they keep something; what is
\* being deleted is deleted by one call.
Objects ==
  /\ \A g \in Gateways : /\ ~gw[g].alive => gw[g] = Free
                         /\ gw[g].base # None => gw[gw[g].base].base = None /\ ~gw[g].keeps
  /\ \A c \in Clients : \A g \in call[c].dying :
        gw[g].alive /\ gw[g].refs = 0 /\ gw[g].base = None
  /\ \A c, d \in Clients : \A g \in call[c].dying : g \in call[d].dying => c = d

\* A call that came before WM_QUIT is before it in the queue.
Prompt(c) == call[c].stage = "queued" /\ ~call[c].late =>
  /\ phase \notin {"left", "revoked"}
  /\ \E i \in DOMAIN queue : queue[i] = c /\ \A j \in 1..i : queue[j] # Quit
Early == \A c \in Clients : Prompt(c)

\* The references to a gateway, in gateways G, clients' references H, calls K.
HeldBy(H, g) == {c \in Clients : g \in H[c]}
BaseOf(G, g) == {h \in Gateways : G[h].base = g}
WrappedBy(K, g) == {c \in Clients : K[c].wrap = g}
ResultOf(K, g) == {c \in Clients : K[c].result = g}
NHeld(H, g) == Cardinality(HeldBy(H, g))
NBase(G, g) == Cardinality(BaseOf(G, g))
NWrap(K, g) == Cardinality(WrappedBy(K, g))
NResult(K, g) == Cardinality(ResultOf(K, g))
RefsExact(G, H, K) ==
  \A g \in Gateways : G[g].refs = NHeld(H, g) + NBase(G, g) + NWrap(K, g) + NResult(K, g)

\* The number of uses of the server, in gateways G, calls K and locks L.
LiveOf(G) == {g \in Gateways : G[g].alive}
KeepersOf(G) == {g \in Gateways : G[g].keeps}
IsWrapping(k) == k.stage \in {"made", "drop", "dropped"}
IsCreating(k) == k.op = "create" /\ k.stage \notin Waiting
WrappingOf(K) == {c \in Clients : IsWrapping(K[c])}
CreatingOf(K) == {c \in Clients : IsCreating(K[c])}
NLive(G) == Cardinality(LiveOf(G))
NKeepers(G) == Cardinality(KeepersOf(G))
NWrapping(K) == Cardinality(WrappingOf(K))
NCreating(K) == Cardinality(CreatingOf(K))
NLocks(L) == Cardinality(L)
Uses(G, K, L) == NLive(G) + NKeepers(G) + NWrapping(K) + NCreating(K) + NLocks(L)

IInv == Typed /\ Order /\ Early /\ Calls /\ Objects /\ RefsExact(gw, held, call)
          /\ lockCount = Uses(gw, call, locks)

(***************************************************************************)
(* Counting.                                                               *)
(***************************************************************************)
\* The sets that are counted are finite.
LEMMA Finite ==
  /\ \A S \in SUBSET Clients : IsFiniteSet(S) /\ Cardinality(S) \in Nat
  /\ \A S \in SUBSET Gateways : IsFiniteSet(S) /\ Cardinality(S) \in Nat
BY ServerAssumption, FS_Subset, FS_CardinalityType

LEMMA Numbers ==
  ASSUME NEW G, NEW H, NEW K, NEW g, NEW L \in SUBSET Clients
  PROVE  /\ NHeld(H, g) \in Nat /\ NBase(G, g) \in Nat /\ NWrap(K, g) \in Nat
         /\ NResult(K, g) \in Nat /\ NLive(G) \in Nat /\ NKeepers(G) \in Nat
         /\ NWrapping(K) \in Nat /\ NCreating(K) \in Nat /\ NLocks(L) \in Nat
<1>1. /\ HeldBy(H, g) \in SUBSET Clients /\ WrappedBy(K, g) \in SUBSET Clients
      /\ ResultOf(K, g) \in SUBSET Clients /\ BaseOf(G, g) \in SUBSET Gateways
      /\ LiveOf(G) \in SUBSET Gateways /\ KeepersOf(G) \in SUBSET Gateways
      /\ WrappingOf(K) \in SUBSET Clients /\ CreatingOf(K) \in SUBSET Clients
  BY DEF HeldBy, WrappedBy, ResultOf, BaseOf, LiveOf, KeepersOf, WrappingOf, CreatingOf
<1> QED BY <1>1, Finite DEF NHeld, NBase, NWrap, NResult, NLive, NKeepers, NWrapping, NCreating, NLocks

\* A gateway has references exactly if somebody has a pointer to it.
LEMMA Referenced ==
  ASSUME NEW G, NEW H, NEW K, RefsExact(G, H, K), NEW g \in Gateways
  PROVE  /\ G[g].refs \in Nat
         /\ G[g].refs = 0 <=> /\ \A c \in Clients : g \notin H[c] /\ K[c].wrap # g /\ K[c].result # g
                              /\ \A h \in Gateways : G[h].base # g
<1>1. /\ HeldBy(H, g) \in SUBSET Clients /\ WrappedBy(K, g) \in SUBSET Clients
      /\ ResultOf(K, g) \in SUBSET Clients /\ BaseOf(G, g) \in SUBSET Gateways
  BY DEF HeldBy, WrappedBy, ResultOf, BaseOf
<1>2. \A S : IsFiniteSet(S) => (Cardinality(S) = 0 <=> S = {})
  BY FS_EmptySet
<1>3. /\ NHeld(H, g) \in Nat /\ NBase(G, g) \in Nat /\ NWrap(K, g) \in Nat /\ NResult(K, g) \in Nat
      /\ G[g].refs = NHeld(H, g) + NBase(G, g) + NWrap(K, g) + NResult(K, g)
  BY Numbers DEF RefsExact
<1>4. /\ G[g].refs \in Nat
      /\ G[g].refs = 0 <=> /\ NHeld(H, g) = 0 /\ NBase(G, g) = 0
                           /\ NWrap(K, g) = 0 /\ NResult(K, g) = 0
  BY <1>3
<1>5. /\ NHeld(H, g) = 0 <=> HeldBy(H, g) = {}
      /\ NBase(G, g) = 0 <=> BaseOf(G, g) = {}
      /\ NWrap(K, g) = 0 <=> WrappedBy(K, g) = {}
      /\ NResult(K, g) = 0 <=> ResultOf(K, g) = {}
  BY <1>1, <1>2, Finite DEF NHeld, NBase, NWrap, NResult
<1> QED BY <1>4, <1>5 DEF HeldBy, WrappedBy, ResultOf, BaseOf

\* The uses are counted by natural numbers, and are none only if nothing is in use.
LEMMA UsesType ==
  ASSUME NEW G, NEW K, NEW L \in SUBSET Clients
  PROVE  /\ Uses(G, K, L) \in Nat
         /\ Uses(G, K, L) = 0 => LiveOf(G) = {} /\ KeepersOf(G) = {} /\ WrappingOf(K) = {}
                                   /\ CreatingOf(K) = {} /\ L = {}
<1>1. /\ LiveOf(G) \in SUBSET Gateways /\ KeepersOf(G) \in SUBSET Gateways
      /\ WrappingOf(K) \in SUBSET Clients /\ CreatingOf(K) \in SUBSET Clients
  BY DEF LiveOf, KeepersOf, WrappingOf, CreatingOf
<1>2. \A S : IsFiniteSet(S) => (Cardinality(S) = 0 <=> S = {})
  BY FS_EmptySet
<1>3. /\ NLive(G) \in Nat /\ NKeepers(G) \in Nat
      /\ NWrapping(K) \in Nat /\ NCreating(K) \in Nat /\ NLocks(L) \in Nat
  BY Numbers
<1>4. /\ Uses(G, K, L) \in Nat
      /\ Uses(G, K, L) = 0 => /\ NLive(G) = 0 /\ NKeepers(G) = 0 /\ NWrapping(K) = 0
                              /\ NCreating(K) = 0 /\ NLocks(L) = 0
  <2> DEFINE a == NLive(G)  b == NKeepers(G)  d == NWrapping(K)  e == NCreating(K)  f == NLocks(L)
  <2>1. a \in Nat /\ b \in Nat /\ d \in Nat /\ e \in Nat /\ f \in Nat
    BY <1>3
  <2>2. Uses(G, K, L) = a + b + d + e + f
    BY DEF Uses
  <2> HIDE DEF a, b, d, e, f
  <2>3. a + b + d + e + f \in Nat /\ (a + b + d + e + f = 0 => a = 0 /\ b = 0 /\ d = 0 /\ e = 0 /\ f = 0)
    BY <2>1
  <2> QED BY <2>2, <2>3 DEF a, b, d, e, f
<1>5. /\ NLive(G) = 0 <=> LiveOf(G) = {}
      /\ NKeepers(G) = 0 <=> KeepersOf(G) = {}
      /\ NWrapping(K) = 0 <=> WrappingOf(K) = {}
      /\ NCreating(K) = 0 <=> CreatingOf(K) = {}
      /\ NLocks(L) = 0 <=> L = {}
  BY <1>1, <1>2, Finite DEF NLive, NKeepers, NWrapping, NCreating, NLocks
<1> QED BY <1>4, <1>5

(***************************************************************************)
(* What a change of one call, one client's references, one gateway does to *)
(* the counts.                                                             *)
(***************************************************************************)
LEMMA OneChange ==
  ASSUME NEW S, NEW T, NEW c, IsFiniteSet(S), \A d : d # c => (d \in S <=> d \in T)
  PROVE  Cardinality(T) = Cardinality(S) + (IF c \in T THEN 1 ELSE 0) - (IF c \in S THEN 1 ELSE 0)
<1>1. Cardinality(S) \in Nat
  BY FS_CardinalityType
<1>2. CASE c \in T /\ c \notin S
  <2>1. T = S \cup {c}
    BY <1>2
  <2>2. Cardinality(T) = Cardinality(S) + 1
    BY <2>1, <1>2, FS_AddElement
  <2> QED BY <2>2, <1>1, <1>2
<1>3. CASE c \notin T /\ c \in S
  <2>1. T = S \ {c}
    BY <1>3
  <2>2. Cardinality(T) = Cardinality(S) - 1
    BY <2>1, <1>3, FS_RemoveElement
  <2> QED BY <2>2, <1>1, <1>3
<1>4. CASE c \in T <=> c \in S
  <2>1. T = S
    BY <1>4
  <2> QED BY <2>1, <1>1, <1>4
<1> QED BY <1>2, <1>3, <1>4

LEMMA WrapChange ==
  ASSUME NEW K, NEW K2, NEW c \in Clients, \A d \in Clients \ {c} : K2[d] = K[d], NEW x
  PROVE  NWrap(K2, x) = NWrap(K, x) + (IF K2[c].wrap = x THEN 1 ELSE 0) - (IF K[c].wrap = x THEN 1 ELSE 0)
<1>1. \A d : d # c => (d \in WrappedBy(K, x) <=> d \in WrappedBy(K2, x))
  BY DEF WrappedBy
<1>2. IsFiniteSet(WrappedBy(K, x))
  BY Finite DEF WrappedBy
<1>3. (c \in WrappedBy(K2, x) <=> K2[c].wrap = x) /\ (c \in WrappedBy(K, x) <=> K[c].wrap = x)
  BY DEF WrappedBy
<1> QED BY <1>1, <1>2, <1>3, OneChange DEF NWrap

LEMMA ResultChange ==
  ASSUME NEW K, NEW K2, NEW c \in Clients, \A d \in Clients \ {c} : K2[d] = K[d], NEW x
  PROVE  NResult(K2, x) = NResult(K, x) + (IF K2[c].result = x THEN 1 ELSE 0) - (IF K[c].result = x THEN 1 ELSE 0)
<1>1. \A d : d # c => (d \in ResultOf(K, x) <=> d \in ResultOf(K2, x))
  BY DEF ResultOf
<1>2. IsFiniteSet(ResultOf(K, x))
  BY Finite DEF ResultOf
<1>3. (c \in ResultOf(K2, x) <=> K2[c].result = x) /\ (c \in ResultOf(K, x) <=> K[c].result = x)
  BY DEF ResultOf
<1> QED BY <1>1, <1>2, <1>3, OneChange DEF NResult

LEMMA WrappingChange ==
  ASSUME NEW K, NEW K2, NEW c \in Clients, \A d \in Clients \ {c} : K2[d] = K[d]
  PROVE  NWrapping(K2) = NWrapping(K) + (IF IsWrapping(K2[c]) THEN 1 ELSE 0) - (IF IsWrapping(K[c]) THEN 1 ELSE 0)
<1>1. \A d : d # c => (d \in WrappingOf(K) <=> d \in WrappingOf(K2))
  BY DEF WrappingOf
<1>2. IsFiniteSet(WrappingOf(K))
  BY Finite DEF WrappingOf
<1>3. (c \in WrappingOf(K2) <=> IsWrapping(K2[c])) /\ (c \in WrappingOf(K) <=> IsWrapping(K[c]))
  BY DEF WrappingOf
<1> QED BY <1>1, <1>2, <1>3, OneChange DEF NWrapping

LEMMA CreatingChange ==
  ASSUME NEW K, NEW K2, NEW c \in Clients, \A d \in Clients \ {c} : K2[d] = K[d]
  PROVE  NCreating(K2) = NCreating(K) + (IF IsCreating(K2[c]) THEN 1 ELSE 0) - (IF IsCreating(K[c]) THEN 1 ELSE 0)
<1>1. \A d : d # c => (d \in CreatingOf(K) <=> d \in CreatingOf(K2))
  BY DEF CreatingOf
<1>2. IsFiniteSet(CreatingOf(K))
  BY Finite DEF CreatingOf
<1>3. (c \in CreatingOf(K2) <=> IsCreating(K2[c])) /\ (c \in CreatingOf(K) <=> IsCreating(K[c]))
  BY DEF CreatingOf
<1> QED BY <1>1, <1>2, <1>3, OneChange DEF NCreating

LEMMA HeldChange ==
  ASSUME NEW H, NEW H2, NEW c \in Clients, \A d \in Clients \ {c} : H2[d] = H[d], NEW x
  PROVE  NHeld(H2, x) = NHeld(H, x) + (IF x \in H2[c] THEN 1 ELSE 0) - (IF x \in H[c] THEN 1 ELSE 0)
<1>1. \A d : d # c => (d \in HeldBy(H, x) <=> d \in HeldBy(H2, x))
  BY DEF HeldBy
<1>2. IsFiniteSet(HeldBy(H, x))
  BY Finite DEF HeldBy
<1>3. (c \in HeldBy(H2, x) <=> x \in H2[c]) /\ (c \in HeldBy(H, x) <=> x \in H[c])
  BY DEF HeldBy
<1> QED BY <1>1, <1>2, <1>3, OneChange DEF NHeld

\* Only the gateway g becomes or ceases to be alive, keeps more or less.
LEMMA LiveChange ==
  ASSUME NEW G, NEW G2, NEW g \in Gateways, \A h \in Gateways \ {g} : G2[h].alive = G[h].alive
  PROVE  NLive(G2) = NLive(G) + (IF G2[g].alive THEN 1 ELSE 0) - (IF G[g].alive THEN 1 ELSE 0)
<1>1. \A d : d # g => (d \in LiveOf(G) <=> d \in LiveOf(G2))
  BY DEF LiveOf
<1>2. IsFiniteSet(LiveOf(G))
  BY Finite DEF LiveOf
<1>3. (g \in LiveOf(G2) <=> G2[g].alive) /\ (g \in LiveOf(G) <=> G[g].alive)
  BY DEF LiveOf
<1> QED BY <1>1, <1>2, <1>3, OneChange DEF NLive

LEMMA KeepersChange ==
  ASSUME NEW G, NEW G2, NEW g \in Gateways, \A h \in Gateways \ {g} : G2[h].keeps = G[h].keeps
  PROVE  NKeepers(G2) = NKeepers(G) + (IF G2[g].keeps THEN 1 ELSE 0) - (IF G[g].keeps THEN 1 ELSE 0)
<1>1. \A d : d # g => (d \in KeepersOf(G) <=> d \in KeepersOf(G2))
  BY DEF KeepersOf
<1>2. IsFiniteSet(KeepersOf(G))
  BY Finite DEF KeepersOf
<1>3. (g \in KeepersOf(G2) <=> G2[g].keeps) /\ (g \in KeepersOf(G) <=> G[g].keeps)
  BY DEF KeepersOf
<1> QED BY <1>1, <1>2, <1>3, OneChange DEF NKeepers

\* Nothing changes when no base, no flag of any gateway does.
LEMMA GatewaysSame ==
  ASSUME NEW G, NEW G2
  PROVE  /\ (\A h \in Gateways : G2[h].base = G[h].base) => \A x : NBase(G2, x) = NBase(G, x)
         /\ (\A h \in Gateways : G2[h].alive = G[h].alive) => NLive(G2) = NLive(G)
         /\ (\A h \in Gateways : G2[h].keeps = G[h].keeps) => NKeepers(G2) = NKeepers(G)
<1>1. (\A h \in Gateways : G2[h].base = G[h].base) => \A x : BaseOf(G2, x) = BaseOf(G, x)
  BY DEF BaseOf
<1>2. (\A h \in Gateways : G2[h].alive = G[h].alive) => LiveOf(G2) = LiveOf(G)
  BY DEF LiveOf
<1>3. (\A h \in Gateways : G2[h].keeps = G[h].keeps) => KeepersOf(G2) = KeepersOf(G)
  BY DEF KeepersOf
<1> QED BY <1>1, <1>2, <1>3 DEF NBase, NLive, NKeepers

\* The references stay exact when the change of each count is that of the references.
LEMMA RefsStep ==
  ASSUME NEW G, NEW H, NEW K, NEW G2, NEW H2, NEW K2, RefsExact(G, H, K),
         NEW c \in Clients, \A d \in Clients \ {c} : K2[d] = K[d] /\ H2[d] = H[d],
         NEW g \in Gateways, \A h \in Gateways \ {g} : G2[h].base = G[h].base,
         \A x \in Gateways :
            G2[x].refs = G[x].refs + (IF K2[c].wrap = x THEN 1 ELSE 0) - (IF K[c].wrap = x THEN 1 ELSE 0)
                           + (IF K2[c].result = x THEN 1 ELSE 0) - (IF K[c].result = x THEN 1 ELSE 0)
                           + (IF x \in H2[c] THEN 1 ELSE 0) - (IF x \in H[c] THEN 1 ELSE 0)
                           + (IF G2[g].base = x THEN 1 ELSE 0) - (IF G[g].base = x THEN 1 ELSE 0)
  PROVE  RefsExact(G2, H2, K2)
<1> SUFFICES ASSUME NEW x \in Gateways
             PROVE  G2[x].refs = NHeld(H2, x) + NBase(G2, x) + NWrap(K2, x) + NResult(K2, x)
  BY DEF RefsExact
<1>1. \A d \in Clients \ {c} : K2[d] = K[d]
  OBVIOUS
<1>2. \A d \in Clients \ {c} : H2[d] = H[d]
  OBVIOUS
<1>3. \A y : NWrap(K2, y) = NWrap(K, y) + (IF K2[c].wrap = y THEN 1 ELSE 0) - (IF K[c].wrap = y THEN 1 ELSE 0)
  BY ONLY <1>1, c \in Clients, WrapChange, Zenon
<1>4. \A y : NResult(K2, y) = NResult(K, y) + (IF K2[c].result = y THEN 1 ELSE 0) - (IF K[c].result = y THEN 1 ELSE 0)
  BY ONLY <1>1, c \in Clients, ResultChange, Zenon
<1>5. NHeld(H2, x) = NHeld(H, x) + (IF x \in H2[c] THEN 1 ELSE 0) - (IF x \in H[c] THEN 1 ELSE 0)
  BY ONLY <1>2, c \in Clients, HeldChange, ZenonT(30)
<1>6. NBase(G2, x) = NBase(G, x) + (IF G2[g].base = x THEN 1 ELSE 0) - (IF G[g].base = x THEN 1 ELSE 0)
  <2>1. \A h : h # g => (h \in BaseOf(G, x) <=> h \in BaseOf(G2, x))
    BY DEF BaseOf
  <2>2. IsFiniteSet(BaseOf(G, x))
    BY Finite DEF BaseOf
  <2>3. (g \in BaseOf(G2, x) <=> G2[g].base = x) /\ (g \in BaseOf(G, x) <=> G[g].base = x)
    BY DEF BaseOf
  <2> QED BY <2>1, <2>2, <2>3, OneChange DEF NBase
<1>7. NHeld(H, x) \in Nat /\ NBase(G, x) \in Nat /\ NWrap(K, x) \in Nat /\ NResult(K, x) \in Nat
  BY Numbers
<1>8. G[x].refs = NHeld(H, x) + NBase(G, x) + NWrap(K, x) + NResult(K, x)
  BY DEF RefsExact
<1> QED BY <1>3, <1>4, <1>5, <1>6, <1>7, <1>8

LEMMA UsesStep ==
  ASSUME NEW G, NEW K, NEW G2, NEW K2, NEW L \in SUBSET Clients,
         NEW c \in Clients, \A d \in Clients \ {c} : K2[d] = K[d],
         NEW g \in Gateways,
         \A h \in Gateways \ {g} : G2[h].alive = G[h].alive /\ G2[h].keeps = G[h].keeps
  PROVE  Uses(G2, K2, L) = Uses(G, K, L)
           + (IF G2[g].alive THEN 1 ELSE 0) - (IF G[g].alive THEN 1 ELSE 0)
           + (IF G2[g].keeps THEN 1 ELSE 0) - (IF G[g].keeps THEN 1 ELSE 0)
           + (IF IsWrapping(K2[c]) THEN 1 ELSE 0) - (IF IsWrapping(K[c]) THEN 1 ELSE 0)
           + (IF IsCreating(K2[c]) THEN 1 ELSE 0) - (IF IsCreating(K[c]) THEN 1 ELSE 0)
<1>1. NWrapping(K2) = NWrapping(K) + (IF IsWrapping(K2[c]) THEN 1 ELSE 0) - (IF IsWrapping(K[c]) THEN 1 ELSE 0)
  BY WrappingChange
<1>2. NCreating(K2) = NCreating(K) + (IF IsCreating(K2[c]) THEN 1 ELSE 0) - (IF IsCreating(K[c]) THEN 1 ELSE 0)
  BY CreatingChange
<1>3. NLive(G2) = NLive(G) + (IF G2[g].alive THEN 1 ELSE 0) - (IF G[g].alive THEN 1 ELSE 0)
  BY LiveChange
<1>4. NKeepers(G2) = NKeepers(G) + (IF G2[g].keeps THEN 1 ELSE 0) - (IF G[g].keeps THEN 1 ELSE 0)
  BY KeepersChange
<1>5. NLive(G) \in Nat /\ NKeepers(G) \in Nat /\ NWrapping(K) \in Nat /\ NCreating(K) \in Nat
      /\ NLocks(L) \in Nat
  BY Numbers
<1> QED BY <1>1, <1>2, <1>3, <1>4, <1>5 DEF Uses

(***************************************************************************)
(* Releasing a gateway.                                                    *)
(***************************************************************************)
IsReleased(g) ==
  /\ Released(g) \in [Gateways -> Gateway]
  /\ gw[g].base # None => gw[g].base \in Gateways /\ gw[g].base # g
  /\ Dying(g) \subseteq Gateways
  /\ \A x \in Gateways :
       Released(g)[x].refs = gw[x].refs - (IF x = g THEN 1 ELSE 0)
                               - (IF gw[g].refs = 1 /\ x = gw[g].base THEN 1 ELSE 0)
  /\ \A x \in Gateways : Released(g)[x].base = IF gw[g].refs = 1 /\ x = g THEN None ELSE gw[x].base
  /\ \A x \in Gateways : Released(g)[x].alive = IF Gone(g) /\ x = g THEN FALSE ELSE gw[x].alive
  /\ \A x \in Gateways : Released(g)[x].keeps = gw[x].keeps
  /\ Gone(g) => Released(g)[g] = Free
  /\ \A x \in Gateways : ~gw[x].alive => Released(g)[x] = gw[x]
  /\ \A x \in Dying(g) : gw[x].alive /\ gw[x].refs = 1 /\ Released(g)[x].refs = 0 /\ ~Gone(g)

LEMMA ReleaseEffect ==
  ASSUME Typed, Objects, NEW g \in Gateways, gw[g].refs > 0,
         gw[g].base # None => gw[gw[g].base].refs > 0
  PROVE  IsReleased(g)
<1> USE ServerAssumption DEF Typed, Gateway, Free, IsReleased
<1>1. gw[g].base # None => gw[g].base \in Gateways /\ gw[g].base # g /\ ~gw[g].keeps
                             /\ gw[gw[g].base].base = None
  BY DEF Objects
<1>2. \A x \in Gateways : gw[x].refs > 0 => gw[x].alive
  BY DEF Objects
<1>3. CASE gw[g].refs > 1
  <2>1. /\ Survives(g) /\ ~Gone(g) /\ Dying(g) = {}
        /\ Released(g) = [gw EXCEPT ![g].refs = gw[g].refs - 1]
    BY <1>3 DEF Released, Survives, Dying, Gone
  <2> QED BY <1>1, <1>2, <1>3, <2>1
<1>4. CASE gw[g].refs = 1 /\ gw[g].base = None
  BY <1>1, <1>2, <1>4 DEF Released, Survives, Dying, Gone, Primary, Objects
<1>5. CASE gw[g].refs = 1 /\ gw[g].base # None
  <2> DEFINE b == gw[g].base
  <2>1. b \in Gateways /\ b # g /\ gw[b].refs \in Nat /\ gw[b].refs > 0 /\ gw[b].alive
        /\ b # None /\ gw[b].base = None
    BY <1>1, <1>2, <1>5
  <2>2. Released(g) = [gw EXCEPT ![b].refs = gw[b].refs - 1,
                                 ![g] = IF Gone(g) THEN Free
                                        ELSE [gw[g] EXCEPT !.refs = 0, !.base = None]]
    BY <1>5, <2>1 DEF Released
  <2>3. Gone(g) <=> gw[b].refs > 1
    BY <1>5 DEF Gone, Survives
  <2>4. Dying(g) = IF gw[b].refs > 1 THEN {} ELSE {g, b}
    BY <1>5 DEF Dying, Survives, Primary
  <2>5. gw[g].alive /\ ~gw[g].keeps
    BY <1>1, <1>2, <1>5
  <2> HIDE DEF b
  <2>6. /\ Released(g) \in [Gateways -> Gateway]
        /\ \A x \in Gateways : x # g /\ x # b => Released(g)[x] = gw[x]
        /\ Released(g)[b] = [gw[b] EXCEPT !.refs = gw[b].refs - 1]
        /\ Released(g)[g] = IF Gone(g) THEN Free ELSE [gw[g] EXCEPT !.refs = 0, !.base = None]
    <3> DEFINE gb == [gw[b] EXCEPT !.refs = gw[b].refs - 1]
               gg == IF Gone(g) THEN Free ELSE [gw[g] EXCEPT !.refs = 0, !.base = None]
    <3>1. gb \in Gateway /\ gg \in Gateway
      <4>1. gw[b] \in Gateway /\ gw[g] \in Gateway
        BY <2>1
      <4>2. gw[b].refs - 1 \in Nat
        BY <2>1
      <4>3. gb \in Gateway
        BY ONLY <4>1, <4>2 DEF Gateway
      <4>4. Free \in Gateway /\ [gw[g] EXCEPT !.refs = 0, !.base = None] \in Gateway
        BY ONLY <4>1 DEF Gateway, Free
      <4> QED BY ONLY <4>3, <4>4
    <3>2. Released(g) = [gw EXCEPT ![b] = gb, ![g] = gg]
      BY <2>2
    <3> HIDE DEF gb, gg
    <3>3. /\ Released(g) \in [Gateways -> Gateway]
          /\ \A x \in Gateways : x # g /\ x # b => Released(g)[x] = gw[x]
          /\ Released(g)[b] = gb /\ Released(g)[g] = gg
      BY ONLY <3>1, <3>2, <2>1, g \in Gateways, gw \in [Gateways -> Gateway]
    <3> QED BY <3>3 DEF gb, gg
  <2>7. \A x \in Gateways : ~gw[x].alive => Released(g)[x] = gw[x]
    BY <2>6, <2>1, <2>5
  <2>8. \A x \in Gateways :
              Released(g)[x].refs = gw[x].refs - (IF x = g THEN 1 ELSE 0)
                                      - (IF gw[g].refs = 1 /\ x = b THEN 1 ELSE 0)
    <3>1. Released(g)[b].refs = gw[b].refs - 1 /\ Released(g)[g].refs = 0
      BY <2>6, <2>1
    <3>2. \A x \in Gateways : gw[x].refs \in Nat
      OBVIOUS
    <3> SUFFICES ASSUME NEW x \in Gateways
                 PROVE  Released(g)[x].refs = gw[x].refs - (IF x = g THEN 1 ELSE 0)
                                      - (IF gw[g].refs = 1 /\ x = b THEN 1 ELSE 0)
      OBVIOUS
    <3>3. CASE x = g
      BY <3>1, <3>3, <2>1, <1>5
    <3>4. CASE x = b
      BY <3>1, <3>2, <3>4, <2>1, <1>5
    <3>5. CASE x # b /\ x # g
      BY <3>2, <3>5, <2>6
    <3> QED BY <3>3, <3>4, <3>5
  <2>9. \A x \in Gateways : /\ Released(g)[x].base = IF gw[g].refs = 1 /\ x = g THEN None ELSE gw[x].base
                            /\ Released(g)[x].alive = IF Gone(g) /\ x = g THEN FALSE ELSE gw[x].alive
                            /\ Released(g)[x].keeps = gw[x].keeps
    <3>1. /\ Released(g)[b].base = gw[b].base /\ Released(g)[b].alive = gw[b].alive
          /\ Released(g)[b].keeps = gw[b].keeps
      <4>1. gw[b] \in Gateway
        BY <2>1
      <4> QED BY ONLY <2>6, <4>1 DEF Gateway
    <3>2. Gone(g) => /\ Released(g)[g].base = None /\ ~Released(g)[g].alive
                     /\ ~Released(g)[g].keeps
      BY <2>6
    <3>3. ~Gone(g) => /\ Released(g)[g].base = None /\ Released(g)[g].alive
                      /\ ~Released(g)[g].keeps
      BY <2>6, <2>1, <2>5
    <3>4. Released(g)[g].alive \in BOOLEAN /\ Released(g)[g].keeps \in BOOLEAN /\ gw[g].keeps \in BOOLEAN
      BY <2>6
    <3> QED BY <3>1, <3>2, <3>3, <3>4, <2>5, <2>6, <2>1, <1>5
  <2>10. Dying(g) \subseteq Gateways /\ \A x \in Dying(g) : gw[x].alive /\ gw[x].refs = 1
                                          /\ Released(g)[x].refs = 0 /\ ~Gone(g)
    <3>1. CASE gw[b].refs > 1
      BY <3>1, <2>4
    <3>2. CASE gw[b].refs = 1
      <4>1. Dying(g) = {g, b} /\ ~Gone(g)
        BY <3>2, <2>3, <2>4
      <4>2. Released(g)[b].refs = 0 /\ Released(g)[g].refs = 0
        BY <2>6, <2>1, <4>1, <3>2
      <4> QED BY <4>1, <4>2, <2>1, <2>5, <3>2, <1>5
    <3> QED BY <3>1, <3>2, <2>1
  <2> QED BY <2>1, <2>6, <2>7, <2>8, <2>9, <2>10 DEF b
<1>6. gw[g].refs > 1 \/ gw[g].refs = 1
  <2>1. gw[g].refs \in Nat
    OBVIOUS
  <2> QED BY <2>1
<1> QED BY ONLY <1>3, <1>4, <1>5, <1>6, Zenon

(***************************************************************************)
(* What every step of a call on the stack has in common.                   *)
(***************************************************************************)
\* Posting WM_QUIT keeps the queue in order.
LEMMA QueueAfterRelease ==
  ASSUME Typed, Order, queue' = queue \/ queue' = PostQuit(queue)
  PROVE  /\ queue' \in Seq(Clients \cup {Quit})
         /\ \A i, j \in DOMAIN queue' : queue'[i] = queue'[j] => i = j
         /\ \A i \in DOMAIN queue' : queue'[i] # Quit => \E j \in DOMAIN queue : queue[j] = queue'[i]
<1>1. queue' = queue \/ (Quit \notin Queued /\ queue' = Append(queue, Quit))
  BY DEF PostQuit
<1>2. CASE queue' = queue
  BY <1>2 DEF Typed, Order
<1>3. CASE Quit \notin Queued /\ queue' = Append(queue, Quit)
  <2>1. /\ queue' \in Seq(Clients \cup {Quit}) /\ Len(queue') = Len(queue) + 1
        /\ \A i \in 1..Len(queue) : queue'[i] = queue[i]
        /\ queue'[Len(queue) + 1] = Quit
    BY <1>3 DEF Typed
  <2>2. \A i \in 1..Len(queue) : queue[i] # Quit
    BY <1>3 DEF Typed, Queued
  <2>3. \A i, j \in 1..Len(queue) : queue[i] = queue[j] => i = j
    BY DEF Order, Typed
  <2>4. /\ Len(queue) \in Nat /\ DOMAIN queue = 1..Len(queue) /\ DOMAIN queue' = 1..(Len(queue) + 1)
    BY <2>1 DEF Typed
  <2> HIDE DEF Queued
  <2>5. \A i, j \in 1..(Len(queue) + 1) : queue'[i] = queue'[j] => i = j
    BY ONLY <2>1, <2>2, <2>3, <2>4
  <2>6. \A i \in 1..(Len(queue) + 1) : queue'[i] # Quit => \E j \in 1..Len(queue) : queue[j] = queue'[i]
    BY ONLY <2>1, <2>4
  <2> QED BY <2>1, <2>4, <2>5, <2>6
<1> QED BY <1>1, <1>2, <1>3

LEMMA BodyOrder ==
  ASSUME Typed, Order, NEW c \in Clients, call[c].stage \notin Waiting,
         UNCHANGED <<phase, quitThread, stack>>,
         queue' = queue \/ queue' = PostQuit(queue),
         \A d \in Clients \ {c} : call'[d] = call[d], call'[c].stage \notin Waiting
  PROVE  Order'
<1>1. phase # "ended"
  BY DEF Order, Waiting
<1>2. \A i \in DOMAIN queue' : queue'[i] # Quit => call'[queue'[i]].stage = "queued"
  <2> SUFFICES ASSUME NEW i \in DOMAIN queue', queue'[i] # Quit
               PROVE  call'[queue'[i]].stage = "queued"
    OBVIOUS
  <2>1. PICK j \in DOMAIN queue : queue[j] = queue'[i]
    BY QueueAfterRelease
  <2>2. queue[j] \in Clients /\ call[queue[j]].stage = "queued"
    BY <2>1 DEF Typed, Order
  <2> QED BY <2>1, <2>2 DEF Waiting
<1>3. \A i, j \in DOMAIN queue' : queue'[i] = queue'[j] => i = j
  BY QueueAfterRelease
<1>4. \A d \in Clients : call'[d].stage \notin Waiting => \E i \in DOMAIN stack : stack[i] = d
  BY DEF Order
<1> QED BY <1>1, <1>2, <1>3, <1>4 DEF Order

\* The other calls have what they had.
LEMMA CallsKept ==
  ASSUME Typed, Calls, NEW c \in Clients,
         \A d \in Clients \ {c} : /\ call'[d] = call[d] /\ held'[d] = held[d]
                                  /\ d \in locks' <=> d \in locks
                                  /\ \A x \in Gateways : x \in held[d] \/ x = call[d].wrap
                                       => gw'[x].base = gw[x].base,
         Targeted(c)', Staged(c)'
  PROVE  Calls'
<1> SUFFICES ASSUME NEW d \in Clients PROVE Targeted(d)' /\ Staged(d)'
  BY DEF Calls
<1>1. CASE d = c
  BY <1>1
<1>2. CASE d # c
  <2>1. Targeted(d) /\ Staged(d) /\ call[d] \in Call /\ held[d] \subseteq Gateways
    BY DEF Calls, Typed
  <2>2. Targeted(d)'
    BY <2>1, <1>2 DEF Targeted
  <2>3. call[d].wrap # None => call[d].wrap \in Gateways
    BY <2>1 DEF Call
  <2>4. Staged(d)'
    BY <2>1, <2>3, <1>2 DEF Staged
  <2> QED BY <2>2, <2>4
<1> QED BY <1>1, <1>2


\* A gateway that somebody has a pointer to is alive and not being deleted.
LEMMA Pointed ==
  ASSUME IInv, NEW x \in Gateways,
         \/ \E d \in Clients : x \in held[d] \/ call[d].wrap = x \/ call[d].result = x
         \/ \E h \in Gateways : gw[h].base = x
  PROVE  gw[x].refs > 0 /\ gw[x].alive /\ \A d \in Clients : x \notin call[d].dying
<1>1. gw[x].refs \in Nat /\ gw[x].refs # 0
  BY Referenced DEF IInv
<1>2. gw[x].refs > 0
  BY <1>1
<1>3. gw[x] = Free => gw[x].refs = 0
  BY DEF Free
<1>4. gw[x].alive
  BY <1>1, <1>3 DEF IInv, Objects
<1>5. \A d \in Clients : x \notin call[d].dying
  BY <1>1 DEF IInv, Objects
<1> QED BY <1>2, <1>4, <1>5

\* A gateway that is not alive has no references and nobody has a pointer to it.
LEMMA FreshGateway ==
  ASSUME IInv, NEW g \in FreeOnes
  PROVE  /\ g \in Gateways /\ gw[g] = Free /\ ~gw[g].alive /\ gw[g].refs = 0 /\ gw[g].base = None
         /\ ~gw[g].keeps
         /\ \A d \in Clients : /\ g \notin held[d] /\ call[d].wrap # g /\ call[d].result # g
                               /\ g \notin call[d].dying
         /\ \A h \in Gateways : gw[h].base # g
<1>1. g \in Gateways /\ ~gw[g].alive /\ gw[g] = Free
  BY DEF FreeOnes, IInv, Objects
<1>2. gw[g].refs = 0 /\ gw[g].base = None /\ ~gw[g].keeps
  BY <1>1 DEF Free
<1>3. \A d \in Clients : g \notin call[d].dying
  BY <1>1 DEF IInv, Objects
<1> QED BY <1>1, <1>2, <1>3, Referenced DEF IInv

\* The gateways stay in order when what is alive stays so with its base, and
\* what becomes alive has a base that is alive and has none.
LEMMA ObjectsKept ==
  ASSUME IInv, gw' \in [Gateways -> Gateway],
         \A d \in Clients : call'[d].dying = call[d].dying,
         \A x \in Gateways : gw[x].alive =>
            /\ gw'[x].alive /\ gw'[x].base = gw[x].base
            /\ gw'[x].keeps => gw[x].keeps \/ gw[x].base = None
            /\ (\E d \in Clients : x \in call[d].dying) => gw'[x].refs = gw[x].refs,
         \A x \in Gateways : ~gw[x].alive =>
            \/ gw'[x] = gw[x]
            \/ /\ gw'[x].alive /\ ~gw'[x].keeps
               /\ gw'[x].base # None => gw[gw'[x].base].alive /\ gw[gw'[x].base].base = None
  PROVE  Objects'
<1> USE DEF IInv, Objects
<1>1. \A x \in Gateways : gw'[x].base \in Gateways \cup {None} /\ gw[x].base \in Gateways \cup {None}
  BY DEF Typed, Gateway
<1>2. \A x \in Gateways : gw[x].base # None => gw[gw[x].base].alive
  BY <1>1, Pointed
<1>3. \A x \in Gateways : ~gw'[x].alive => gw'[x] = Free
  OBVIOUS
<1>4. \A x \in Gateways : gw'[x].base # None => gw'[gw'[x].base].base = None /\ ~gw'[x].keeps
  <2> SUFFICES ASSUME NEW x \in Gateways, gw'[x].base # None
               PROVE  gw'[gw'[x].base].base = None /\ ~gw'[x].keeps
    OBVIOUS
  <2>1. CASE gw[x].alive
    BY <2>1, <1>1, <1>2
  <2>2. CASE ~gw[x].alive /\ gw'[x] = gw[x]
    BY <2>2, <1>1, <1>2
  <2>3. CASE ~gw[x].alive /\ gw'[x] # gw[x]
    BY <2>3, <1>1
  <2> QED BY <2>1, <2>2, <2>3
<1>5. \A d \in Clients : \A x \in call'[d].dying :
         gw'[x].alive /\ gw'[x].refs = 0 /\ gw'[x].base = None
  <2>1. \A d \in Clients : call[d].dying \subseteq Gateways
    BY DEF Typed, Call
  <2> QED BY <2>1
<1>6. \A d, e \in Clients : \A x \in call'[d].dying : x \in call'[e].dying => d = e
  OBVIOUS
<1> QED BY <1>3, <1>4, <1>5, <1>6, Zenon

(***************************************************************************)
(* The steps of a call on the stack.                                       *)
(***************************************************************************)
Rest == UNCHANGED <<phase, quitThread, stack, held, locks>>

\* A call that came before WM_QUIT stays before it.
LEMMA EarlyKept ==
  ASSUME IInv, UNCHANGED phase, queue' = queue \/ queue' = PostQuit(queue),
         \A d \in Clients : call'[d].stage = "queued" => call'[d] = call[d]
  PROVE  Early'
<1> SUFFICES ASSUME NEW d \in Clients, call'[d].stage = "queued", ~call'[d].late
             PROVE  /\ phase' \notin {"left", "revoked"}
                    /\ \E i \in DOMAIN queue' : queue'[i] = d /\ \A j \in 1..i : queue'[j] # Quit
  BY DEF Early, Prompt
<1>1. call[d].stage = "queued" /\ ~call[d].late
  OBVIOUS
<1>2. PICK i \in DOMAIN queue : queue[i] = d /\ \A j \in 1..i : queue[j] # Quit
  BY <1>1 DEF IInv, Early, Prompt
<1>3. queue \in Seq(Clients \cup {Quit})
  BY DEF IInv, Typed
<1>4. i \in 1..Len(queue) /\ Len(queue) \in Nat
  BY <1>3
<1>5. /\ i \in DOMAIN queue'
      /\ \A j \in 1..i : queue'[j] = queue[j]
  <2>1. CASE queue' = queue
    BY <2>1, <1>4
  <2>2. CASE queue' = Append(queue, Quit)
    BY <2>2, <1>3, <1>4
  <2> QED BY <2>1, <2>2 DEF PostQuit
<1>6. i \in 1..i
  BY <1>4
<1>7. phase' \notin {"left", "revoked"}
  BY <1>1 DEF IInv, Early, Prompt
<1> QED BY <1>2, <1>5, <1>6, <1>7

\* Such a step changes its own call, and keeps the base of what is alive.
LEMMA BodyInv ==
  ASSUME IInv, NEW c \in Clients, Rest, call[c].stage \notin Waiting,
         queue' = queue \/ queue' = PostQuit(queue),
         call' \in [Clients -> Call], \A d \in Clients \ {c} : call'[d] = call[d],
         call'[c].stage \notin Waiting,
         gw' \in [Gateways -> Gateway],
         \A x \in Gateways : gw[x].alive => gw'[x].base = gw[x].base,
         Targeted(c)', Staged(c)', Objects', RefsExact(gw', held', call'),
         lockCount' = Uses(gw', call', locks')
  PROVE  IInv'
<1>1. Typed'
  BY QueueAfterRelease DEF IInv, Typed, Rest
<1>2. Order'
  BY BodyOrder DEF IInv, Rest
<1>3. Calls'
  <2>1. \A d \in Clients : \A x \in Gateways :
           x \in held[d] \/ x = call[d].wrap => gw'[x].base = gw[x].base
    BY Pointed
  <2> QED BY <2>1, CallsKept DEF IInv, Rest
<1>4. Early'
  <2>1. \A d \in Clients : call'[d].stage = "queued" => call'[d] = call[d]
    BY DEF Waiting
  <2> QED BY <2>1, EarlyKept DEF Rest
<1> QED BY <1>1, <1>2, <1>3, <1>4 DEF IInv

\* The counts when one call and the references of its client change, ...
LEMMA CallCounts ==
  ASSUME IInv, NEW c \in Clients, UNCHANGED gw,
         \A d \in Clients \ {c} : call'[d] = call[d] /\ held'[d] = held[d],
         \A x \in Gateways :
              (IF call'[c].wrap = x THEN 1 ELSE 0) + (IF call'[c].result = x THEN 1 ELSE 0)
                + (IF x \in held'[c] THEN 1 ELSE 0)
            = (IF call[c].wrap = x THEN 1 ELSE 0) + (IF call[c].result = x THEN 1 ELSE 0)
                + (IF x \in held[c] THEN 1 ELSE 0)
  PROVE  /\ RefsExact(gw', held', call')
         /\ Uses(gw', call', locks) = lockCount
              + (IF IsWrapping(call'[c]) THEN 1 ELSE 0) - (IF IsWrapping(call[c]) THEN 1 ELSE 0)
              + (IF IsCreating(call'[c]) THEN 1 ELSE 0) - (IF IsCreating(call[c]) THEN 1 ELSE 0)
<1>1. \A d \in Clients \ {c} : call'[d] = call[d]
  OBVIOUS
<1>2. RefsExact(gw', held', call')
  <2> SUFFICES ASSUME NEW g \in Gateways PROVE RefsExact(gw', held', call')
    BY DEF RefsExact
  <2>1. \A x \in Gateways : gw[x].refs \in Nat
    BY DEF IInv, Typed, Gateway
  <2>2. \A x \in Gateways :
          gw'[x].refs = gw[x].refs + (IF call'[c].wrap = x THEN 1 ELSE 0) - (IF call[c].wrap = x THEN 1 ELSE 0)
                         + (IF call'[c].result = x THEN 1 ELSE 0) - (IF call[c].result = x THEN 1 ELSE 0)
                         + (IF x \in held'[c] THEN 1 ELSE 0) - (IF x \in held[c] THEN 1 ELSE 0)
                         + (IF gw'[g].base = x THEN 1 ELSE 0) - (IF gw[g].base = x THEN 1 ELSE 0)
    BY <2>1
  <2>3. \A h \in Gateways \ {g} : gw'[h].base = gw[h].base
    OBVIOUS
  <2>4. \A d \in Clients \ {c} : call'[d] = call[d] /\ held'[d] = held[d]
    OBVIOUS
  <2>5. RefsExact(gw, held, call)
    BY DEF IInv
  <2> QED BY ONLY <2>2, <2>3, <2>4, <2>5, c \in Clients, g \in Gateways, RefsStep
<1>3. NWrapping(call') = NWrapping(call) + (IF IsWrapping(call'[c]) THEN 1 ELSE 0) - (IF IsWrapping(call[c]) THEN 1 ELSE 0)
      /\ NCreating(call') = NCreating(call) + (IF IsCreating(call'[c]) THEN 1 ELSE 0) - (IF IsCreating(call[c]) THEN 1 ELSE 0)
  BY ONLY <1>1, c \in Clients, WrappingChange, CreatingChange
<1>4. NLive(gw) \in Nat /\ NKeepers(gw) \in Nat /\ NWrapping(call) \in Nat /\ NCreating(call) \in Nat
      /\ NLocks(locks) \in Nat
  BY Numbers DEF IInv, Typed
<1>5. lockCount = Uses(gw, call, locks)
  BY DEF IInv
<1> QED BY <1>2, <1>3, <1>4, <1>5 DEF Uses

\* ... and when one gateway changes too, except for its references.
LEMMA GatewayCounts ==
  ASSUME IInv, NEW c \in Clients, NEW g \in Gateways, UNCHANGED <<held, locks>>,
         \A d \in Clients \ {c} : call'[d] = call[d],
         \A x \in Gateways \ {g} : gw'[x].base = gw[x].base /\ gw'[x].alive = gw[x].alive
                                     /\ gw'[x].keeps = gw[x].keeps,
         \A x \in Gateways :
           gw'[x].refs = gw[x].refs + (IF call'[c].wrap = x THEN 1 ELSE 0) - (IF call[c].wrap = x THEN 1 ELSE 0)
                         + (IF call'[c].result = x THEN 1 ELSE 0) - (IF call[c].result = x THEN 1 ELSE 0)
                         + (IF gw'[g].base = x THEN 1 ELSE 0) - (IF gw[g].base = x THEN 1 ELSE 0),
         lockCount' = lockCount
              + (IF gw'[g].alive THEN 1 ELSE 0) - (IF gw[g].alive THEN 1 ELSE 0)
              + (IF gw'[g].keeps THEN 1 ELSE 0) - (IF gw[g].keeps THEN 1 ELSE 0)
              + (IF IsWrapping(call'[c]) THEN 1 ELSE 0) - (IF IsWrapping(call[c]) THEN 1 ELSE 0)
              + (IF IsCreating(call'[c]) THEN 1 ELSE 0) - (IF IsCreating(call[c]) THEN 1 ELSE 0)
  PROVE  RefsExact(gw', held', call') /\ lockCount' = Uses(gw', call', locks')
<1>1. RefsExact(gw', held', call')
  <2>1. \A x \in Gateways : gw[x].refs \in Nat
    BY DEF IInv, Typed, Gateway
  <2>2. \A x \in Gateways :
          gw'[x].refs = gw[x].refs + (IF call'[c].wrap = x THEN 1 ELSE 0) - (IF call[c].wrap = x THEN 1 ELSE 0)
                         + (IF call'[c].result = x THEN 1 ELSE 0) - (IF call[c].result = x THEN 1 ELSE 0)
                         + (IF x \in held'[c] THEN 1 ELSE 0) - (IF x \in held[c] THEN 1 ELSE 0)
                         + (IF gw'[g].base = x THEN 1 ELSE 0) - (IF gw[g].base = x THEN 1 ELSE 0)
    BY <2>1
  <2>3. \A h \in Gateways \ {g} : gw'[h].base = gw[h].base
    OBVIOUS
  <2>4. \A d \in Clients \ {c} : call'[d] = call[d] /\ held'[d] = held[d]
    OBVIOUS
  <2>5. RefsExact(gw, held, call)
    BY DEF IInv
  <2> QED BY ONLY <2>2, <2>3, <2>4, <2>5, c \in Clients, g \in Gateways, RefsStep
<1>2. Uses(gw', call', locks) = Uses(gw, call, locks)
           + (IF gw'[g].alive THEN 1 ELSE 0) - (IF gw[g].alive THEN 1 ELSE 0)
           + (IF gw'[g].keeps THEN 1 ELSE 0) - (IF gw[g].keeps THEN 1 ELSE 0)
           + (IF IsWrapping(call'[c]) THEN 1 ELSE 0) - (IF IsWrapping(call[c]) THEN 1 ELSE 0)
           + (IF IsCreating(call'[c]) THEN 1 ELSE 0) - (IF IsCreating(call[c]) THEN 1 ELSE 0)
  <2>1. \A d \in Clients \ {c} : call'[d] = call[d]
    OBVIOUS
  <2>2. \A h \in Gateways \ {g} : gw'[h].alive = gw[h].alive /\ gw'[h].keeps = gw[h].keeps
    OBVIOUS
  <2>3. locks \in SUBSET Clients
    BY DEF IInv, Typed
  <2> QED BY ONLY <2>1, <2>2, <2>3, g \in Gateways, c \in Clients, UsesStep
<1>3. lockCount = Uses(gw, call, locks) /\ locks' = locks
  BY DEF IInv
<1> QED BY <1>1, <1>2, <1>3

LEMMA StageStep ==
  ASSUME IInv, NEW c \in Clients, Rest, NoResult(c) \/ NoInterface(c) \/ WrapperGone(c)
  PROVE  IInv'
<1> DEFINE t == IF call[c].stage = "made" THEN "drop" ELSE "done"
<1>1. /\ call' = [call EXCEPT ![c].stage = t]
      /\ call[c].stage \in {"python", "dropped", "made"} /\ t \in {"done", "drop"}
      /\ t = "done" <=> call[c].stage # "made"
      /\ lockCount' = IF call[c].stage = "dropped" THEN lockCount - 1 ELSE lockCount
      /\ queue' = queue \/ queue' = PostQuit(queue)
      /\ call[c].dying = {} /\ gw' = gw
  <2>1. CASE NoResult(c)
    BY <2>1 DEF NoResult, Goto, At
  <2>2. CASE NoInterface(c)
    BY <2>2 DEF NoInterface, Goto, At
  <2>3. CASE WrapperGone(c)
    <3>1. /\ call[c].stage = "dropped" /\ call[c].dying = {} /\ gw' = gw /\ lockCount' = lockCount - 1
          /\ call' = [call EXCEPT ![c].stage = "done"]
      BY <2>3 DEF WrapperGone, Goto, At, DLLReleaseRef
    <3>2. queue' = queue \/ queue' = PostQuit(queue)
      BY <2>3, Zenon DEF WrapperGone, DLLReleaseRef
    <3> QED BY <3>1, <3>2
  <2> QED BY <2>1, <2>2, <2>3
<1> HIDE DEF t
<1>2. call \in [Clients -> Call] /\ call[c] \in Call /\ gw \in [Gateways -> Gateway]
  BY DEF IInv, Typed
<1>3. /\ call' \in [Clients -> Call] /\ \A d \in Clients \ {c} : call'[d] = call[d]
      /\ call'[c] = [call[c] EXCEPT !.stage = t]
  <2>1. [call[c] EXCEPT !.stage = t] \in Call
    BY <1>1, <1>2 DEF Call, Stages
  <2> QED BY <1>1, <1>2, <2>1
<1>4. /\ call'[c].op = call[c].op /\ call'[c].target = call[c].target /\ call'[c].wrap = call[c].wrap
      /\ call'[c].result = call[c].result /\ call'[c].dying = call[c].dying /\ call'[c].stage = t
  BY <1>2, <1>3 DEF Call
<1>5. Targeted(c) /\ Staged(c)
  BY DEF IInv, Calls
<1>6. Targeted(c)' /\ Staged(c)'
  BY <1>1, <1>4, <1>5 DEF Targeted, Staged, Rest
<1>7. Objects'
  <2>1. \A d \in Clients : call'[d].dying = call[d].dying
    BY <1>3, <1>4
  <2> QED BY <1>1, <1>2, <2>1, ObjectsKept
<1>8. /\ RefsExact(gw', held', call')
      /\ Uses(gw', call', locks) = lockCount
              + (IF IsWrapping(call'[c]) THEN 1 ELSE 0) - (IF IsWrapping(call[c]) THEN 1 ELSE 0)
              + (IF IsCreating(call'[c]) THEN 1 ELSE 0) - (IF IsCreating(call[c]) THEN 1 ELSE 0)
  <2>1. \A d \in Clients \ {c} : call'[d] = call[d] /\ held'[d] = held[d]
    BY <1>3 DEF Rest
  <2>2. gw' = gw /\ held' = held
    BY <1>1 DEF Rest
  <2>3. \A x \in Gateways :
              (IF call'[c].wrap = x THEN 1 ELSE 0) + (IF call'[c].result = x THEN 1 ELSE 0)
                + (IF x \in held'[c] THEN 1 ELSE 0)
            = (IF call[c].wrap = x THEN 1 ELSE 0) + (IF call[c].result = x THEN 1 ELSE 0)
                + (IF x \in held[c] THEN 1 ELSE 0)
    BY ONLY <1>4, <2>2
  <2> QED BY ONLY <2>1, <2>2, <2>3, IInv, c \in Clients, CallCounts
<1>9. lockCount' = Uses(gw', call', locks')
  <2>1. lockCount \in Nat /\ locks' = locks
    BY UsesType DEF IInv, Typed, Rest
  <2> QED BY <1>1, <1>4, <1>8, <2>1 DEF IsWrapping, IsCreating, Waiting
<1>10. \A x \in Gateways : gw[x].alive => gw'[x].base = gw[x].base
  BY <1>1
<1>11. call[c].stage \notin Waiting /\ call'[c].stage \notin Waiting
  BY <1>1, <1>4 DEF Waiting
<1>12. queue' = queue \/ queue' = PostQuit(queue)
  BY <1>1
<1> QED BY <1>1, <1>2, <1>3, <1>6, <1>7, <1>8, <1>9, <1>10, <1>11, <1>12, BodyInv

\* The call of c goes on to a stage, with a wrapper, a result and gateways
\* that are being deleted.
Becomes(c, stage, wrap, result, dying) ==
  /\ call' \in [Clients -> Call]
  /\ \A d \in Clients \ {c} : call'[d] = call[d]
  /\ call'[c].op = call[c].op
  /\ call'[c].target = call[c].target
  /\ call'[c].stage = stage
  /\ call'[c].wrap = wrap
  /\ call'[c].result = result
  /\ call'[c].dying = dying

LEMMA WrapObjectStep ==
  ASSUME IInv, NEW c \in Clients, Rest, WrapObject(c)
  PROVE  IInv'
<1>1. PICK g \in FreeOnes : /\ gw' = [gw EXCEPT ![g] = New(None)]
                            /\ call' = [call EXCEPT ![c].stage = "made", ![c].wrap = g]
  BY DEF WrapObject
<1>2. /\ call[c].stage = "python" /\ call[c].dying = {} /\ call[c].op \in {"create", "method"}
      /\ lockCount' = lockCount + 2 /\ queue' = queue /\ g \in Gateways
  BY DEF WrapObject, At, DLLAddRef, FreeOnes
<1>3. call \in [Clients -> Call] /\ call[c] \in Call /\ gw \in [Gateways -> Gateway]
  BY DEF IInv, Typed
<1>4. Targeted(c) /\ Staged(c)
  BY DEF IInv, Calls
<1>5. call[c].wrap = None /\ call[c].result = None
  BY <1>2, <1>4 DEF Staged
<1>6. Becomes(c, "made", g, None, {})
  <2>1. [call[c] EXCEPT !.stage = "made", !.wrap = g] \in Call
    BY <1>2, <1>3 DEF Call, Stages
  <2>2. call' = [call EXCEPT ![c] = [call[c] EXCEPT !.stage = "made", !.wrap = g]]
    BY <1>1, <1>3
  <2> QED BY <2>1, <2>2, <1>2, <1>3, <1>5 DEF Call, Becomes
<1>7. /\ gw' \in [Gateways -> Gateway] /\ \A x \in Gateways \ {g} : gw'[x] = gw[x]
      /\ gw'[g].alive /\ gw'[g].refs = 1 /\ gw'[g].base = None /\ ~gw'[g].keeps
  BY <1>1, <1>2, <1>3 DEF New, Gateway
<1>fresh. /\ \A d \in Clients : g \notin held[d] /\ call[d].wrap # g /\ call[d].result # g
      /\ ~gw[g].alive /\ gw[g].refs = 0 /\ gw[g].base = None /\ ~gw[g].keeps
  BY FreshGateway
<1>8. Targeted(c)' /\ Staged(c)'
  BY <1>4, <1>2, <1>6, <1>7, <1>fresh, ServerAssumption DEF Targeted, Staged, Rest, Becomes
<1>9. \A x \in Gateways : gw[x].alive => x # g /\ gw'[x] = gw[x]
  BY <1>7, <1>fresh
<1>10. Objects'
  <2>1. \A d \in Clients : call'[d].dying = call[d].dying
    BY <1>2, <1>6 DEF Becomes
  <2>2. \A x \in Gateways : ~gw[x].alive =>
            \/ gw'[x] = gw[x]
            \/ /\ gw'[x].alive /\ ~gw'[x].keeps
               /\ gw'[x].base # None => gw[gw'[x].base].alive /\ gw[gw'[x].base].base = None
    BY <1>7
  <2> QED BY <1>7, <1>9, <2>1, <2>2, ObjectsKept
<1>11. RefsExact(gw', held', call') /\ lockCount' = Uses(gw', call', locks')
  <2>1. \A x \in Gateways : gw[x].refs \in Nat
    BY <1>3 DEF Gateway
  <2>2. \A x \in Gateways :
           gw'[x].refs = gw[x].refs + (IF call'[c].wrap = x THEN 1 ELSE 0) - (IF call[c].wrap = x THEN 1 ELSE 0)
                         + (IF call'[c].result = x THEN 1 ELSE 0) - (IF call[c].result = x THEN 1 ELSE 0)
                         + (IF gw'[g].base = x THEN 1 ELSE 0) - (IF gw[g].base = x THEN 1 ELSE 0)
    BY <1>2, <1>5, <1>6, <1>7, <2>1, <1>fresh, ServerAssumption DEF Becomes
  <2>3. lockCount \in Nat
    BY UsesType DEF IInv, Typed
  <2>4. ~IsWrapping(call[c]) /\ IsWrapping(call'[c]) /\ (IsCreating(call'[c]) <=> IsCreating(call[c]))
    BY <1>2, <1>6 DEF Becomes, IsWrapping, IsCreating, Waiting
  <2>5. lockCount' = lockCount
              + (IF gw'[g].alive THEN 1 ELSE 0) - (IF gw[g].alive THEN 1 ELSE 0)
              + (IF gw'[g].keeps THEN 1 ELSE 0) - (IF gw[g].keeps THEN 1 ELSE 0)
              + (IF IsWrapping(call'[c]) THEN 1 ELSE 0) - (IF IsWrapping(call[c]) THEN 1 ELSE 0)
              + (IF IsCreating(call'[c]) THEN 1 ELSE 0) - (IF IsCreating(call[c]) THEN 1 ELSE 0)
    BY <1>2, <1>7, <1>fresh, <2>3, <2>4
  <2>6. \A x \in Gateways \ {g} : gw'[x].base = gw[x].base /\ gw'[x].alive = gw[x].alive
                                     /\ gw'[x].keeps = gw[x].keeps
    BY <1>7
  <2>7. UNCHANGED <<held, locks>> /\ \A d \in Clients \ {c} : call'[d] = call[d]
    BY <1>6 DEF Rest, Becomes
  <2> QED BY ONLY IInv, <2>2, <2>5, <2>6, <2>7, c \in Clients, <1>2, GatewayCounts
<1> QED BY <1>2, <1>6, <1>7, <1>8, <1>9, <1>10, <1>11, BodyInv DEF Becomes, Waiting

LEMMA InterfaceIsOwnStep ==
  ASSUME IInv, NEW c \in Clients, Rest, InterfaceIsOwn(c)
  PROVE  IInv'
<1> DEFINE g == call[c].wrap
<1>1. /\ gw' = [gw EXCEPT ![g].refs = @ + 1]
      /\ call' = [call EXCEPT ![c].stage = "drop", ![c].result = g]
      /\ call[c].stage = "made" /\ call[c].dying = {}
      /\ lockCount' = lockCount /\ queue' = queue
  BY DEF InterfaceIsOwn, At
<1>2. call \in [Clients -> Call] /\ call[c] \in Call /\ gw \in [Gateways -> Gateway]
  BY DEF IInv, Typed
<1>3. Targeted(c) /\ Staged(c)
  BY DEF IInv, Calls
<1>4. /\ g \in Gateways /\ g # None /\ g \notin held[c] /\ gw[g].base = None /\ call[c].result = None
  BY <1>1, <1>2, <1>3, ServerAssumption DEF Staged, Call
<1>5. gw[g].refs > 0 /\ gw[g].alive /\ \A d \in Clients : g \notin call[d].dying
  BY <1>4, Pointed
<1>6. Becomes(c, "drop", g, g, {})
  <2>1. [call[c] EXCEPT !.stage = "drop", !.result = g] \in Call
    BY <1>2, <1>4 DEF Call, Stages
  <2>2. call' = [call EXCEPT ![c] = [call[c] EXCEPT !.stage = "drop", !.result = g]]
    BY <1>1, <1>2
  <2> QED BY <2>1, <2>2, <1>1, <1>2 DEF Call, Becomes
<1>7. /\ gw' \in [Gateways -> Gateway] /\ \A x \in Gateways \ {g} : gw'[x] = gw[x]
      /\ gw'[g].refs = gw[g].refs + 1 /\ gw'[g].base = None
      /\ gw'[g].alive = gw[g].alive /\ gw'[g].keeps = gw[g].keeps
  BY <1>1, <1>2, <1>4 DEF Gateway
<1> HIDE DEF g
<1>8. Targeted(c)' /\ Staged(c)'
  BY <1>3, <1>1, <1>4, <1>6, <1>7 DEF Targeted, Staged, Rest, Becomes
<1>9. \A x \in Gateways : /\ gw'[x].base = gw[x].base /\ gw'[x].alive = gw[x].alive
                          /\ gw'[x].keeps = gw[x].keeps
  BY <1>4, <1>7
<1>10. Objects'
  <2>1. \A d \in Clients : call'[d].dying = call[d].dying
    BY <1>1, <1>6 DEF Becomes
  <2>2. \A x \in Gateways : (\E d \in Clients : x \in call[d].dying) => gw'[x].refs = gw[x].refs
    BY <1>5, <1>7
  <2>3. \A x \in Gateways : ~gw[x].alive => gw'[x] = gw[x]
    BY <1>5, <1>7
  <2> QED BY ONLY IInv, <1>7, <1>9, <2>1, <2>2, <2>3, ObjectsKept
<1>11. RefsExact(gw', held', call') /\ lockCount' = Uses(gw', call', locks')
  <2>1. \A x \in Gateways : gw[x].refs \in Nat
    BY <1>2 DEF Gateway
  <2>2. \A x \in Gateways :
           gw'[x].refs = gw[x].refs + (IF call'[c].wrap = x THEN 1 ELSE 0) - (IF call[c].wrap = x THEN 1 ELSE 0)
                         + (IF call'[c].result = x THEN 1 ELSE 0) - (IF call[c].result = x THEN 1 ELSE 0)
                         + (IF gw'[g].base = x THEN 1 ELSE 0) - (IF gw[g].base = x THEN 1 ELSE 0)
    BY <1>4, <1>6, <1>7, <2>1, ServerAssumption DEF Becomes, g
  <2>3. lockCount \in Nat
    BY UsesType DEF IInv, Typed
  <2>4. IsWrapping(call[c]) /\ IsWrapping(call'[c]) /\ (IsCreating(call'[c]) <=> IsCreating(call[c]))
    BY <1>1, <1>6 DEF Becomes, IsWrapping, IsCreating, Waiting
  <2>5. lockCount' = lockCount
              + (IF gw'[g].alive THEN 1 ELSE 0) - (IF gw[g].alive THEN 1 ELSE 0)
              + (IF gw'[g].keeps THEN 1 ELSE 0) - (IF gw[g].keeps THEN 1 ELSE 0)
              + (IF IsWrapping(call'[c]) THEN 1 ELSE 0) - (IF IsWrapping(call[c]) THEN 1 ELSE 0)
              + (IF IsCreating(call'[c]) THEN 1 ELSE 0) - (IF IsCreating(call[c]) THEN 1 ELSE 0)
    BY <1>1, <1>9, <1>4, <2>3, <2>4
  <2>6. \A x \in Gateways \ {g} : gw'[x].base = gw[x].base /\ gw'[x].alive = gw[x].alive
                                     /\ gw'[x].keeps = gw[x].keeps
    BY <1>7
  <2>7. UNCHANGED <<held, locks>> /\ \A d \in Clients \ {c} : call'[d] = call[d]
    BY <1>6 DEF Rest, Becomes
  <2> QED BY ONLY IInv, <2>2, <2>5, <2>6, <2>7, c \in Clients, <1>4, GatewayCounts
<1> QED BY <1>1, <1>6, <1>7, <1>8, <1>9, <1>10, <1>11, BodyInv DEF Becomes, Waiting

\* A new gateway whose base is p is the result of the call.
LEMMA SecondGatewayStep ==
  ASSUME IInv, NEW c \in Clients, Rest, NEW g \in FreeOnes, NEW p \in Gateways,
         gw[p].base = None, gw[p].refs > 0,
         gw' = [gw EXCEPT ![g] = New(p), ![p].refs = @ + 1],
         lockCount' = lockCount + 1, queue' = queue,
         call[c].dying = {}, call[c].result = None,
         NEW stage, Becomes(c, stage, call[c].wrap, g, {}),
         \/ call[c].stage = "made" /\ stage = "drop"
         \/ call[c].stage = "python" /\ stage = "done" /\ call[c].op = "query"
  PROVE  IInv'
<1>2. call \in [Clients -> Call] /\ call[c] \in Call /\ gw \in [Gateways -> Gateway] /\ g \in Gateways
  BY DEF IInv, Typed, FreeOnes
<1>3. Targeted(c) /\ Staged(c)
  BY DEF IInv, Calls
<1>fresh. /\ \A d \in Clients : g \notin held[d] /\ call[d].wrap # g /\ call[d].result # g
          /\ ~gw[g].alive /\ gw[g].refs = 0 /\ gw[g].base = None /\ ~gw[g].keeps
  BY FreshGateway
<1>4. gw[p] # Free /\ gw[p].alive /\ p # g /\ p # None
  <2>1. gw[p] # Free
    BY DEF Free
  <2> QED BY <2>1, <1>fresh, ServerAssumption DEF IInv, Objects
<1>5. \A d \in Clients : p \notin call[d].dying /\ g \notin call[d].dying
  BY <1>fresh DEF IInv, Objects
<1>7. /\ gw' \in [Gateways -> Gateway] /\ \A x \in Gateways \ {g, p} : gw'[x] = gw[x]
      /\ gw'[g].alive /\ gw'[g].refs = 1 /\ gw'[g].base = p /\ ~gw'[g].keeps
      /\ gw'[p].refs = gw[p].refs + 1 /\ gw'[p].base = None
      /\ gw'[p].alive = gw[p].alive /\ gw'[p].keeps = gw[p].keeps
  <2> DEFINE n == New(p)  m == [gw[p] EXCEPT !.refs = @ + 1]
  <2>1. n \in Gateway /\ n.alive /\ n.refs = 1 /\ n.base = p /\ ~n.keeps
    BY DEF New, Gateway
  <2>2. /\ m \in Gateway /\ m.refs = gw[p].refs + 1 /\ m.base = None /\ m.alive = gw[p].alive
        /\ m.keeps = gw[p].keeps
    BY <1>2 DEF Gateway
  <2>3. gw' = [gw EXCEPT ![g] = n, ![p] = m]
    BY <1>2, <1>4
  <2> HIDE DEF n, m
  <2> QED BY ONLY <2>1, <2>2, <2>3, <1>2, <1>4, p \in Gateways
<1>8. Targeted(c)' /\ Staged(c)'
  <2>1. call[c].wrap # None => call[c].wrap \in Gateways
    BY <1>2 DEF Call
  <2>2. \A x \in Gateways : x # g => gw'[x].base = gw[x].base
    BY <1>7
  <2> QED BY <1>3, <1>fresh, <1>2, <1>4, <2>1, <2>2, ServerAssumption DEF Targeted, Staged, Rest, Becomes
<1>9. \A x \in Gateways : x # g => /\ gw'[x].base = gw[x].base /\ gw'[x].alive = gw[x].alive
                                   /\ gw'[x].keeps = gw[x].keeps
  BY <1>4, <1>7
<1>10. Objects'
  <2>1. \A d \in Clients : call'[d].dying = call[d].dying
    BY DEF Becomes
  <2>2. \A x \in Gateways : gw[x].alive =>
            /\ gw'[x].alive /\ gw'[x].base = gw[x].base
            /\ gw'[x].keeps => gw[x].keeps \/ gw[x].base = None
            /\ (\E d \in Clients : x \in call[d].dying) => gw'[x].refs = gw[x].refs
    BY <1>5, <1>7, <1>9, <1>fresh
  <2>3. \A x \in Gateways : ~gw[x].alive =>
            \/ gw'[x] = gw[x]
            \/ /\ gw'[x].alive /\ ~gw'[x].keeps
               /\ gw'[x].base # None => gw[gw'[x].base].alive /\ gw[gw'[x].base].base = None
    BY <1>4, <1>7
  <2> QED BY ONLY IInv, <1>7, <2>1, <2>2, <2>3, ObjectsKept
<1>11. RefsExact(gw', held', call') /\ lockCount' = Uses(gw', call', locks')
  <2>1. \A x \in Gateways : gw[x].refs \in Nat
    BY <1>2 DEF Gateway
  <2>2. \A x \in Gateways :
           gw'[x].refs = gw[x].refs + (IF call'[c].wrap = x THEN 1 ELSE 0) - (IF call[c].wrap = x THEN 1 ELSE 0)
                         + (IF call'[c].result = x THEN 1 ELSE 0) - (IF call[c].result = x THEN 1 ELSE 0)
                         + (IF gw'[g].base = x THEN 1 ELSE 0) - (IF gw[g].base = x THEN 1 ELSE 0)
    BY <1>2, <1>4, <1>7, <1>fresh, <2>1, ServerAssumption DEF Becomes
  <2>3. lockCount \in Nat
    BY UsesType DEF IInv, Typed
  <2>4. /\ IsWrapping(call'[c]) <=> IsWrapping(call[c])
        /\ IsCreating(call'[c]) <=> IsCreating(call[c])
    BY DEF Becomes, IsWrapping, IsCreating, Waiting
  <2>5. lockCount' = lockCount
              + (IF gw'[g].alive THEN 1 ELSE 0) - (IF gw[g].alive THEN 1 ELSE 0)
              + (IF gw'[g].keeps THEN 1 ELSE 0) - (IF gw[g].keeps THEN 1 ELSE 0)
              + (IF IsWrapping(call'[c]) THEN 1 ELSE 0) - (IF IsWrapping(call[c]) THEN 1 ELSE 0)
              + (IF IsCreating(call'[c]) THEN 1 ELSE 0) - (IF IsCreating(call[c]) THEN 1 ELSE 0)
    BY <1>7, <1>fresh, <2>3, <2>4
  <2>6. \A x \in Gateways \ {g} : gw'[x].base = gw[x].base /\ gw'[x].alive = gw[x].alive
                                     /\ gw'[x].keeps = gw[x].keeps
    BY <1>9
  <2>7. UNCHANGED <<held, locks>> /\ \A d \in Clients \ {c} : call'[d] = call[d]
    BY DEF Rest, Becomes
  <2> QED BY ONLY IInv, <2>2, <2>5, <2>6, <2>7, c \in Clients, <1>2, GatewayCounts
<1>12. \A x \in Gateways : gw[x].alive => gw'[x].base = gw[x].base
  BY <1>9, <1>fresh
<1> QED BY <1>7, <1>8, <1>10, <1>11, <1>12, BodyInv DEF Becomes, Waiting

LEMMA InterfaceIsNewStep ==
  ASSUME IInv, NEW c \in Clients, Rest, InterfaceIsNew(c)
  PROVE  IInv'
<1> DEFINE p == call[c].wrap
<1>1. PICK g \in FreeOnes : /\ gw' = [gw EXCEPT ![g] = New(p), ![p].refs = @ + 1]
                            /\ call' = [call EXCEPT ![c].stage = "drop", ![c].result = g]
  BY DEF InterfaceIsNew
<1>2. /\ call[c].stage = "made" /\ call[c].dying = {}
      /\ lockCount' = lockCount + 1 /\ queue' = queue /\ g \in Gateways
  BY DEF InterfaceIsNew, At, DLLAddRef, FreeOnes
<1>3. call \in [Clients -> Call] /\ call[c] \in Call /\ Staged(c)
  BY DEF IInv, Typed, Calls
<1>4. p \in Gateways /\ gw[p].base = None /\ call[c].result = None
  BY <1>2, <1>3, ServerAssumption DEF Staged, Call
<1>5. gw[p].refs > 0
  BY <1>4, Pointed
<1>6. Becomes(c, "drop", p, g, {})
  <2>1. [call[c] EXCEPT !.stage = "drop", !.result = g] \in Call
    BY <1>2, <1>3 DEF Call, Stages
  <2>2. call' = [call EXCEPT ![c] = [call[c] EXCEPT !.stage = "drop", !.result = g]]
    BY <1>1, <1>3
  <2> QED BY <2>1, <2>2, <1>2, <1>3 DEF Call, Becomes
<1> QED BY <1>1, <1>2, <1>4, <1>5, <1>6, SecondGatewayStep

\* The target of a call that Python handles, and its base, are in use.
LEMMA TargetInUse ==
  ASSUME IInv, NEW c \in Clients, call[c].stage = "python", call[c].op \in {"method", "query"}
  PROVE  /\ call[c].target \in Gateways
         /\ Primary(call[c].target) \in Gateways /\ gw[Primary(call[c].target)].base = None
         /\ gw[Primary(call[c].target)].refs > 0 /\ gw[Primary(call[c].target)].alive
         /\ \A d \in Clients : Primary(call[c].target) \notin call[d].dying
<1>1. call[c].target \in held[c] /\ held[c] \subseteq Gateways
  BY DEF IInv, Calls, Targeted, Typed
<1>2. gw[call[c].target].base \in Gateways \cup {None}
  BY <1>1 DEF IInv, Typed, Gateway
<1>3. Primary(call[c].target) \in Gateways /\ gw[Primary(call[c].target)].base = None
  BY <1>1, <1>2 DEF IInv, Objects, Primary
<1> QED BY <1>1, <1>3, Pointed DEF Primary

LEMMA QuerySupportedStep ==
  ASSUME IInv, NEW c \in Clients, Rest, QuerySupported(c)
  PROVE  IInv'
<1> DEFINE p == Primary(call[c].target)
<1>1. PICK g \in FreeOnes : /\ gw' = [gw EXCEPT ![g] = New(p), ![p].refs = @ + 1]
                            /\ call' = [call EXCEPT ![c].stage = "done", ![c].result = g]
  BY DEF QuerySupported
<1>2. /\ call[c].stage = "python" /\ call[c].dying = {} /\ call[c].op = "query"
      /\ lockCount' = lockCount + 1 /\ queue' = queue /\ g \in Gateways
  BY DEF QuerySupported, At, DLLAddRef, FreeOnes
<1>3. call \in [Clients -> Call] /\ call[c] \in Call /\ Staged(c)
  BY DEF IInv, Typed, Calls
<1>4. call[c].result = None
  BY <1>2, <1>3 DEF Staged
<1>5. p \in Gateways /\ gw[p].base = None /\ gw[p].refs > 0
  BY <1>2, TargetInUse
<1>6. Becomes(c, "done", call[c].wrap, g, {})
  <2>1. [call[c] EXCEPT !.stage = "done", !.result = g] \in Call
    BY <1>2, <1>3 DEF Call, Stages
  <2>2. call' = [call EXCEPT ![c] = [call[c] EXCEPT !.stage = "done", !.result = g]]
    BY <1>1, <1>3
  <2> QED BY <2>1, <2>2, <1>2, <1>3 DEF Call, Becomes
<1> HIDE DEF p
<1> QED BY <1>1, <1>2, <1>4, <1>5, <1>6, SecondGatewayStep

\* A Python object gets, or loses, a COM object of a client.
LEMMA KeepsStep ==
  ASSUME IInv, NEW c \in Clients, Rest, NEW p \in Gateways,
         gw[p].base = None, gw[p].alive,
         \/ gw' = [gw EXCEPT ![p].keeps = TRUE] /\ ~gw[p].keeps /\ lockCount' = lockCount + 1
         \/ gw' = [gw EXCEPT ![p].keeps = FALSE] /\ gw[p].keeps /\ lockCount' = lockCount - 1,
         queue' = queue \/ queue' = PostQuit(queue),
         call[c].stage \notin Waiting,
         NEW stage, Becomes(c, stage, call[c].wrap, call[c].result, call[c].dying),
         stage = call[c].stage \/ (call[c].stage = "python" /\ stage = "done")
  PROVE  IInv'
<1>2. call \in [Clients -> Call] /\ call[c] \in Call /\ gw \in [Gateways -> Gateway]
  BY DEF IInv, Typed
<1>3. Targeted(c) /\ Staged(c)
  BY DEF IInv, Calls
<1>7. /\ gw' \in [Gateways -> Gateway] /\ \A x \in Gateways \ {p} : gw'[x] = gw[x]
      /\ \/ gw'[p].keeps /\ ~gw[p].keeps /\ lockCount' = lockCount + 1
         \/ ~gw'[p].keeps /\ gw[p].keeps /\ lockCount' = lockCount - 1
      /\ \A x \in Gateways : /\ gw'[x].base = gw[x].base /\ gw'[x].alive = gw[x].alive
                             /\ gw'[x].refs = gw[x].refs
  <2>1. CASE gw' = [gw EXCEPT ![p].keeps = TRUE] /\ ~gw[p].keeps /\ lockCount' = lockCount + 1
    BY <2>1, <1>2 DEF Gateway
  <2>2. CASE gw' = [gw EXCEPT ![p].keeps = FALSE] /\ gw[p].keeps /\ lockCount' = lockCount - 1
    BY <2>2, <1>2 DEF Gateway
  <2> QED BY <2>1, <2>2
<1>8. Targeted(c)' /\ Staged(c)'
  <2>1. call[c].wrap # None => call[c].wrap \in Gateways
    BY <1>2 DEF Call
  <2>2. held[c] \subseteq Gateways
    BY DEF IInv, Typed
  <2> QED BY <1>3, <1>7, <2>1, <2>2 DEF Targeted, Staged, Rest, Becomes, Waiting
<1>10. Objects'
  <2>1. \A d \in Clients : call'[d].dying = call[d].dying
    BY DEF Becomes
  <2>2. \A x \in Gateways : gw'[x].keeps => gw[x].keeps \/ gw[x].base = None
    BY <1>7
  <2>3. \A x \in Gateways : ~gw[x].alive => gw'[x] = gw[x]
    BY <1>7
  <2> QED BY ONLY IInv, <1>7, <2>1, <2>2, <2>3, ObjectsKept
<1>11. RefsExact(gw', held', call') /\ lockCount' = Uses(gw', call', locks')
  <2>1. \A x \in Gateways : gw[x].refs \in Nat
    BY <1>2 DEF Gateway
  <2>2. \A x \in Gateways :
           gw'[x].refs = gw[x].refs + (IF call'[c].wrap = x THEN 1 ELSE 0) - (IF call[c].wrap = x THEN 1 ELSE 0)
                         + (IF call'[c].result = x THEN 1 ELSE 0) - (IF call[c].result = x THEN 1 ELSE 0)
                         + (IF gw'[p].base = x THEN 1 ELSE 0) - (IF gw[p].base = x THEN 1 ELSE 0)
    BY <1>7, <2>1 DEF Becomes
  <2>3. lockCount \in Nat
    BY UsesType DEF IInv, Typed
  <2>4. /\ IsWrapping(call'[c]) <=> IsWrapping(call[c])
        /\ IsCreating(call'[c]) <=> IsCreating(call[c])
    BY DEF Becomes, IsWrapping, IsCreating, Waiting
  <2>5. lockCount' = lockCount
              + (IF gw'[p].alive THEN 1 ELSE 0) - (IF gw[p].alive THEN 1 ELSE 0)
              + (IF gw'[p].keeps THEN 1 ELSE 0) - (IF gw[p].keeps THEN 1 ELSE 0)
              + (IF IsWrapping(call'[c]) THEN 1 ELSE 0) - (IF IsWrapping(call[c]) THEN 1 ELSE 0)
              + (IF IsCreating(call'[c]) THEN 1 ELSE 0) - (IF IsCreating(call[c]) THEN 1 ELSE 0)
    <3>1. gw'[p].alive = gw[p].alive
      BY <1>7
    <3> QED BY ONLY <1>7, <2>3, <2>4, <3>1
  <2>6. \A x \in Gateways \ {p} : gw'[x].base = gw[x].base /\ gw'[x].alive = gw[x].alive
                                     /\ gw'[x].keeps = gw[x].keeps
    BY <1>7
  <2>7. UNCHANGED <<held, locks>> /\ \A d \in Clients \ {c} : call'[d] = call[d]
    BY DEF Rest, Becomes
  <2> QED BY ONLY IInv, <2>2, <2>5, <2>6, <2>7, c \in Clients, p \in Gateways, GatewayCounts
<1> QED BY <1>7, <1>8, <1>10, <1>11, BodyInv DEF Becomes, Waiting

LEMMA CallbackStep ==
  ASSUME IInv, NEW c \in Clients, Rest, KeepCallback(c) \/ DropCallback(c)
  PROVE  IInv'
<1> DEFINE p == Primary(call[c].target)
<1>1. /\ call[c].stage = "python" /\ call[c].op = "method"
      /\ call' = [call EXCEPT ![c].stage = "done"]
  BY DEF KeepCallback, DropCallback, At, Goto
<1>2. p \in Gateways /\ gw[p].base = None /\ gw[p].alive
  BY <1>1, TargetInUse
<1>3. call \in [Clients -> Call] /\ call[c] \in Call /\ gw[p] \in Gateway
  BY <1>2 DEF IInv, Typed
<1>5. /\ \/ gw' = [gw EXCEPT ![p].keeps = TRUE] /\ ~gw[p].keeps /\ lockCount' = lockCount + 1
         \/ gw' = [gw EXCEPT ![p].keeps = FALSE] /\ gw[p].keeps /\ lockCount' = lockCount - 1
      /\ queue' = queue \/ queue' = PostQuit(queue)
  <2>1. CASE KeepCallback(c)
    BY <2>1 DEF KeepCallback, DLLAddRef
  <2>2. CASE DropCallback(c)
    <3>1. gw' = [gw EXCEPT ![p].keeps = FALSE] /\ gw[p].keeps /\ lockCount' = lockCount - 1
      BY <2>2 DEF DropCallback, DLLReleaseRef
    <3>2. queue' = queue \/ queue' = PostQuit(queue)
      BY <2>2, Zenon DEF DropCallback, DLLReleaseRef
    <3> QED BY <3>1, <3>2
  <2> QED BY <2>1, <2>2
<1>6. Becomes(c, "done", call[c].wrap, call[c].result, call[c].dying)
  <2>1. [call[c] EXCEPT !.stage = "done"] \in Call
    BY <1>3 DEF Call, Stages
  <2>2. call' = [call EXCEPT ![c] = [call[c] EXCEPT !.stage = "done"]]
    BY <1>1, <1>3
  <2> QED BY <2>1, <2>2, <1>3 DEF Call, Becomes
<1>7. call[c].stage \notin Waiting
  BY <1>1 DEF Waiting
<1> HIDE DEF p
<1> QED BY <1>1, <1>2, <1>5, <1>6, <1>7, KeepsStep

LEMMA DeleteInstanceStep ==
  ASSUME IInv, NEW c \in Clients, Rest, DeleteInstance(c)
  PROVE  IInv'
<1>1. PICK g \in call[c].dying : gw[g].keeps /\ gw' = [gw EXCEPT ![g].keeps = FALSE]
  BY DEF DeleteInstance
<1>2. call[c].dying # {} /\ call' = call /\ lockCount' = lockCount - 1
  BY DEF DeleteInstance, Deleting, DLLReleaseRef
<1>3. queue' = queue \/ queue' = PostQuit(queue)
  BY Zenon DEF DeleteInstance, DLLReleaseRef
<1>4. call \in [Clients -> Call] /\ call[c] \in Call /\ Staged(c)
  BY DEF IInv, Typed, Calls
<1>5. g \in Gateways /\ gw[g].base = None /\ gw[g].alive
  BY <1>1, <1>4 DEF IInv, Objects, Call
<1>6. call[c].stage \notin Waiting
  BY <1>2, <1>4 DEF Staged, Waiting
<1>7. Becomes(c, call[c].stage, call[c].wrap, call[c].result, call[c].dying)
  BY <1>2, <1>4 DEF Becomes
<1>8. \/ gw' = [gw EXCEPT ![g].keeps = TRUE] /\ ~gw[g].keeps /\ lockCount' = lockCount + 1
      \/ gw' = [gw EXCEPT ![g].keeps = FALSE] /\ gw[g].keeps /\ lockCount' = lockCount - 1
  BY <1>1, <1>2
<1>9. \E stage : /\ Becomes(c, stage, call[c].wrap, call[c].result, call[c].dying)
                 /\ stage = call[c].stage \/ (call[c].stage = "python" /\ stage = "done")
  BY ONLY <1>7, Zenon
<1> QED BY ONLY IInv, Rest, c \in Clients, <1>3, <1>5, <1>6, <1>8, <1>9, KeepsStep

LEMMA DropWrapperStep ==
  ASSUME IInv, NEW c \in Clients, Rest, DropWrapper(c)
  PROVE  IInv'
<1> DEFINE g == call[c].wrap
<1>1. /\ gw' = Released(g)
      /\ call' = [call EXCEPT ![c].stage = "dropped", ![c].wrap = None, ![c].dying = Dying(g)]
      /\ call[c].stage = "drop" /\ call[c].dying = {}
      /\ lockCount' = lockCount /\ queue' = queue
  BY DEF DropWrapper, At
<1>2. call \in [Clients -> Call] /\ call[c] \in Call /\ gw \in [Gateways -> Gateway]
  BY DEF IInv, Typed
<1>3. Targeted(c) /\ Staged(c)
  BY DEF IInv, Calls
<1>4. g \in Gateways /\ g # None /\ gw[g].base = None
  BY <1>1, <1>2, <1>3, ServerAssumption DEF Staged, Call
<1>5. gw[g].refs > 0 /\ gw[g].alive /\ \A d \in Clients : g \notin call[d].dying
  BY <1>4, Pointed
<1>6. ~Gone(g) /\ Dying(g) = IF gw[g].refs > 1 THEN {} ELSE {g}
  BY <1>4 DEF Gone, Survives, Dying, Primary
<1> HIDE DEF g
<1>7. /\ gw' \in [Gateways -> Gateway] /\ Dying(g) \subseteq Gateways
      /\ \A x \in Gateways : /\ gw'[x].base = gw[x].base /\ gw'[x].alive = gw[x].alive
                             /\ gw'[x].keeps = gw[x].keeps
                             /\ gw'[x].refs = gw[x].refs - (IF x = g THEN 1 ELSE 0)
                             /\ ~gw[x].alive => gw'[x] = gw[x]
      /\ \A x \in Dying(g) : gw[x].alive /\ gw[x].refs = 1 /\ gw'[x].refs = 0
  <2>0. Typed /\ Objects
    BY DEF IInv
  <2>1. IsReleased(g)
    <3>1. g \in Gateways /\ gw[g].refs > 0 /\ (gw[g].base # None => gw[gw[g].base].refs > 0)
      BY <1>4, <1>5
    <3> QED BY ONLY <2>0, <3>1, ReleaseEffect
  <2>2. \A x \in Gateways : gw[x].refs \in Nat /\ x # None
    BY <1>2, ServerAssumption DEF Gateway
  <2> QED BY ONLY <2>1, <2>2, <1>1, <1>4, <1>6 DEF IsReleased
<1>8. Becomes(c, "dropped", None, call[c].result, Dying(g))
  <2>1. [call[c] EXCEPT !.stage = "dropped", !.wrap = None, !.dying = Dying(g)] \in Call
    BY <1>2, <1>7 DEF Call, Stages
  <2>2. call' = [call EXCEPT ![c] = [call[c] EXCEPT !.stage = "dropped", !.wrap = None, !.dying = Dying(g)]]
    BY <1>1, <1>2
  <2> QED BY <2>1, <2>2, <1>2 DEF Call, Becomes
<1>9. Targeted(c)' /\ Staged(c)'
  BY <1>3, <1>1, <1>8, <1>7 DEF Targeted, Staged, Rest, Becomes
<1>10. Objects'
  <2>1. \A x \in Gateways : /\ ~gw'[x].alive => gw'[x] = Free
                            /\ gw'[x].base # None => gw'[gw'[x].base].base = None /\ ~gw'[x].keeps
    <3>1. \A x \in Gateways : gw[x].base \in Gateways \cup {None}
      BY <1>2 DEF Gateway
    <3> QED BY <1>7, <3>1 DEF IInv, Objects
  <2>2. \A d \in Clients : call[d].dying \subseteq Gateways /\ g \notin call[d].dying
    BY <1>2, <1>5 DEF Call
  <2>3. \A x \in Dying(g) : gw[x].base = None /\ \A d \in Clients : x \notin call[d].dying
    BY <1>4, <1>5, <1>6
  <2>4. \A d \in Clients : call'[d].dying = IF d = c THEN Dying(g) ELSE call[d].dying
    BY <1>8 DEF Becomes
  <2>5. \A d \in Clients : \A x \in call[d].dying : gw'[x].alive /\ gw'[x].refs = 0 /\ gw'[x].base = None
    <3>1. \A d \in Clients : \A x \in call[d].dying : gw[x].alive /\ gw[x].refs = 0 /\ gw[x].base = None
      BY DEF IInv, Objects
    <3> QED BY <1>7, <2>2, <3>1
  <2>6. \A d \in Clients : \A x \in call'[d].dying : gw'[x].alive /\ gw'[x].refs = 0 /\ gw'[x].base = None
    BY <1>7, <2>3, <2>4, <2>5
  <2>7. \A d, e \in Clients : \A x \in call'[d].dying : x \in call'[e].dying => d = e
    BY <2>3, <2>4 DEF IInv, Objects
  <2> QED BY <2>1, <2>6, <2>7, Zenon DEF Objects
<1>11. RefsExact(gw', held', call') /\ lockCount' = Uses(gw', call', locks')
  <2>1. \A x \in Gateways : gw[x].refs \in Nat
    BY <1>2 DEF Gateway
  <2>2. \A x \in Gateways :
           gw'[x].refs = gw[x].refs + (IF call'[c].wrap = x THEN 1 ELSE 0) - (IF call[c].wrap = x THEN 1 ELSE 0)
                         + (IF call'[c].result = x THEN 1 ELSE 0) - (IF call[c].result = x THEN 1 ELSE 0)
                         + (IF gw'[g].base = x THEN 1 ELSE 0) - (IF gw[g].base = x THEN 1 ELSE 0)
    BY <1>4, <1>8, <1>7, <2>1, ServerAssumption DEF Becomes, g
  <2>3. lockCount \in Nat
    BY UsesType DEF IInv, Typed
  <2>4. IsWrapping(call[c]) /\ IsWrapping(call'[c]) /\ (IsCreating(call'[c]) <=> IsCreating(call[c]))
    BY <1>1, <1>8 DEF Becomes, IsWrapping, IsCreating, Waiting
  <2>5. lockCount' = lockCount
              + (IF gw'[g].alive THEN 1 ELSE 0) - (IF gw[g].alive THEN 1 ELSE 0)
              + (IF gw'[g].keeps THEN 1 ELSE 0) - (IF gw[g].keeps THEN 1 ELSE 0)
              + (IF IsWrapping(call'[c]) THEN 1 ELSE 0) - (IF IsWrapping(call[c]) THEN 1 ELSE 0)
              + (IF IsCreating(call'[c]) THEN 1 ELSE 0) - (IF IsCreating(call[c]) THEN 1 ELSE 0)
    BY <1>1, <1>7, <1>4, <2>3, <2>4
  <2>6. \A x \in Gateways \ {g} : gw'[x].base = gw[x].base /\ gw'[x].alive = gw[x].alive
                                     /\ gw'[x].keeps = gw[x].keeps
    BY <1>7
  <2>7. UNCHANGED <<held, locks>> /\ \A d \in Clients \ {c} : call'[d] = call[d]
    BY <1>8 DEF Rest, Becomes
  <2> QED BY ONLY IInv, <2>2, <2>5, <2>6, <2>7, c \in Clients, <1>4, GatewayCounts
<1> QED BY <1>1, <1>7, <1>8, <1>9, <1>10, <1>11, BodyInv DEF Becomes, Waiting

LEMMA DeleteDoneStep ==
  ASSUME IInv, NEW c \in Clients, Rest, DeleteDone(c)
  PROVE  IInv'
<1> DEFINE D == call[c].dying
<1>1. /\ gw' = [x \in Gateways |-> IF x \in D THEN Free ELSE gw[x]]
      /\ call' = [call EXCEPT ![c].dying = {}]
      /\ D # {} /\ \A x \in D : ~gw[x].keeps
      /\ lockCount' = lockCount - Cardinality(D)
  BY DEF DeleteDone, Deleting, DLLReleaseRef
<1>2. queue' = queue \/ queue' = PostQuit(queue)
  BY Zenon DEF DeleteDone, DLLReleaseRef
<1>3. call \in [Clients -> Call] /\ call[c] \in Call /\ gw \in [Gateways -> Gateway] /\ D \subseteq Gateways
  BY DEF IInv, Typed, Call
<1>4. Targeted(c) /\ Staged(c)
  BY DEF IInv, Calls
<1>5. /\ \A x \in D : gw[x].alive /\ gw[x].refs = 0 /\ gw[x].base = None
      /\ \A d \in Clients \ {c} : \A x \in call[d].dying : x \notin D
  BY DEF IInv, Objects
<1>6. Becomes(c, call[c].stage, call[c].wrap, call[c].result, {})
  <2>1. [call[c] EXCEPT !.dying = {}] \in Call
    BY <1>3 DEF Call
  <2>2. call' = [call EXCEPT ![c] = [call[c] EXCEPT !.dying = {}]]
    BY <1>1, <1>3
  <2> QED BY <2>1, <2>2, <1>3 DEF Call, Becomes
<1>7. call[c].stage \in {"dropped", "done"}
  BY <1>1, <1>4 DEF Staged
<1> HIDE DEF D
<1>8. /\ gw' \in [Gateways -> Gateway]
      /\ \A x \in Gateways : /\ gw'[x].base = gw[x].base /\ gw'[x].refs = gw[x].refs
                             /\ gw'[x].keeps = gw[x].keeps
                             /\ x \in D => gw'[x] = Free
                             /\ x \notin D => gw'[x] = gw[x]
  <2>1. Free \in Gateway /\ Free.refs = 0 /\ Free.base = None /\ ~Free.keeps
    BY DEF Free, Gateway
  <2>2. \A x \in Gateways : gw[x] \in Gateway /\ gw[x].keeps \in BOOLEAN
    BY <1>3 DEF Gateway
  <2>3. \A x \in Gateways : x \in D => gw'[x] = Free
    BY <1>1
  <2>4. \A x \in D : gw[x].keeps = FALSE /\ Free.keeps = FALSE
    BY <1>1, <1>3, <2>2 DEF Free
  <2>5. \A x \in Gateways : x \notin D => gw'[x] = gw[x]
    BY <1>1
  <2>6. gw' \in [Gateways -> Gateway]
    BY <1>1, <2>1, <2>2
  <2> QED BY <2>1, <2>3, <2>4, <2>5, <2>6, <1>5
<1>9. Targeted(c)' /\ Staged(c)'
  <2>1. call[c].wrap # None => call[c].wrap \in Gateways
    BY <1>3 DEF Call
  <2> QED BY <1>4, <1>7, <1>6, <1>8, <2>1 DEF Targeted, Staged, Rest, Becomes
<1>10. Objects'
  <2>1. \A d \in Clients : call'[d].dying = IF d = c THEN {} ELSE call[d].dying
    BY <1>6 DEF Becomes
  <2>2. \A d \in Clients : call[d].dying \subseteq Gateways
    BY <1>3 DEF Call
  <2>3. \A x \in Gateways : /\ ~gw'[x].alive => gw'[x] = Free
                            /\ gw'[x].base # None => gw'[gw'[x].base].base = None /\ ~gw'[x].keeps
    <3>1. \A x \in Gateways : gw[x].base \in Gateways \cup {None}
      BY <1>3 DEF Gateway
    <3> QED BY <1>8, <3>1 DEF IInv, Objects
  <2>4. \A d \in Clients : \A x \in call'[d].dying : gw'[x].alive /\ gw'[x].refs = 0 /\ gw'[x].base = None
    BY <1>5, <1>8, <2>1, <2>2 DEF IInv, Objects
  <2>5. \A d, e \in Clients : \A x \in call'[d].dying : x \in call'[e].dying => d = e
    BY <2>1 DEF IInv, Objects
  <2> QED BY <2>3, <2>4, <2>5, Zenon DEF Objects
<1>11. RefsExact(gw', held', call')
  <2>1. \A x : NBase(gw', x) = NBase(gw, x)
    BY <1>8, GatewaysSame
  <2>2. \A x : WrappedBy(call', x) = WrappedBy(call, x) /\ ResultOf(call', x) = ResultOf(call, x)
    BY <1>6 DEF Becomes, WrappedBy, ResultOf
  <2> QED BY <1>8, <2>1, <2>2 DEF IInv, RefsExact, NWrap, NResult, Rest
<1>12. lockCount' = Uses(gw', call', locks')
  <2>1. NKeepers(gw') = NKeepers(gw)
    BY <1>8, GatewaysSame
  <2>2. WrappingOf(call') = WrappingOf(call) /\ CreatingOf(call') = CreatingOf(call)
    BY <1>6 DEF Becomes, WrappingOf, CreatingOf, IsWrapping, IsCreating
  <2>3. NLive(gw') = NLive(gw) - Cardinality(D)
    <3>1. LiveOf(gw') = LiveOf(gw) \ D
      BY <1>5, <1>8 DEF LiveOf, Free
    <3>2. D \subseteq LiveOf(gw)
      BY <1>3, <1>5 DEF LiveOf
    <3>3. IsFiniteSet(LiveOf(gw)) /\ IsFiniteSet(D) /\ Cardinality(LiveOf(gw)) \in Nat /\ Cardinality(D) \in Nat
      BY <1>3, Finite DEF LiveOf
    <3>4. LiveOf(gw) \cap D = D
      BY <3>2
    <3>5. Cardinality(LiveOf(gw) \ D) = Cardinality(LiveOf(gw)) - Cardinality(LiveOf(gw) \cap D)
      BY <3>3, FS_Difference
    <3> QED BY <3>1, <3>4, <3>5 DEF NLive
  <2>4. /\ NLive(gw) \in Nat /\ NKeepers(gw) \in Nat /\ NWrapping(call) \in Nat /\ NCreating(call) \in Nat
        /\ NLocks(locks) \in Nat
    BY Numbers DEF IInv, Typed
  <2>5. Cardinality(D) \in Nat
    BY <1>3, Finite
  <2>6. lockCount = Uses(gw, call, locks) /\ locks' = locks
    BY DEF IInv, Rest
  <2> QED BY <1>1, <2>1, <2>2, <2>3, <2>4, <2>5, <2>6 DEF Uses, NWrapping, NCreating
<1> QED BY <1>2, <1>7, <1>8, <1>6, <1>9, <1>10, <1>11, <1>12, BodyInv DEF Becomes, Waiting

LEMMA ReturnStep ==
  ASSUME IInv, NEW c \in Clients, Return(c)
  PROVE  IInv'
<1>1. /\ call[c].stage = "done" /\ call[c].dying = {}
      /\ stack # <<>> /\ stack[Len(stack)] = c /\ stack' = Pop
      /\ call' = [call EXCEPT ![c] = Idle]
      /\ held' = [held EXCEPT ![c] = @ \cup ({call[c].result} \ {None})]
      /\ lockCount' = lockCount - (IF call[c].op = "create" THEN 1 ELSE 0)
      /\ UNCHANGED <<phase, quitThread, gw, locks>>
  BY DEF Return, At, Top, DLLReleaseRef, TemporaryLock
<1>2. queue' = queue \/ queue' = PostQuit(queue)
  BY Zenon DEF Return, DLLReleaseRef
<1>3. /\ call \in [Clients -> Call] /\ call[c] \in Call /\ held \in [Clients -> SUBSET Gateways]
      /\ gw \in [Gateways -> Gateway] /\ stack \in Seq(Clients)
  BY DEF IInv, Typed
<1>4. Targeted(c) /\ Staged(c)
  BY DEF IInv, Calls
<1>5. call[c].wrap = None /\ (call[c].result # None => call[c].result \notin held[c])
  BY <1>1, <1>4 DEF Staged
<1>6. /\ Idle \in Call /\ Idle.op = "create" /\ Idle.stage = "none" /\ Idle.wrap = None
      /\ Idle.result = None /\ Idle.dying = {}
  BY DEF Idle, Call, Ops, Stages
<1>7. /\ call' \in [Clients -> Call] /\ \A d \in Clients \ {c} : call'[d] = call[d] /\ held'[d] = held[d]
      /\ call'[c] = Idle /\ held' \in [Clients -> SUBSET Gateways]
      /\ held'[c] = held[c] \cup ({call[c].result} \ {None})
  <2>1. call[c].result \in Gateways \cup {None}
    BY <1>3 DEF Call
  <2> QED BY <1>1, <1>3, <1>6, <2>1
<1>8. Typed'
  <2>1. stack' \in Seq(Clients)
    BY <1>1, <1>3 DEF Pop
  <2> QED BY <1>1, <1>2, <1>7, <2>1, QueueAfterRelease DEF IInv, Typed
<1>9. Order'
  <2>1. \A i \in DOMAIN queue' : queue'[i] # Quit => call'[queue'[i]].stage = "queued"
    <3> SUFFICES ASSUME NEW i \in DOMAIN queue', queue'[i] # Quit
                 PROVE  call'[queue'[i]].stage = "queued"
      OBVIOUS
    <3>1. PICK j \in DOMAIN queue : queue[j] = queue'[i]
      BY <1>2, QueueAfterRelease DEF IInv
    <3>2. queue[j] \in Clients /\ call[queue[j]].stage = "queued"
      BY <3>1 DEF IInv, Typed, Order
    <3> QED BY <3>1, <3>2, <1>1, <1>7
  <2>2. \A i, j \in DOMAIN queue' : queue'[i] = queue'[j] => i = j
    BY <1>2, QueueAfterRelease DEF IInv
  <2>3. \A d \in Clients : call'[d].stage \notin Waiting => \E i \in DOMAIN stack' : stack'[i] = d
    <3> SUFFICES ASSUME NEW d \in Clients, call'[d].stage \notin Waiting
                 PROVE  \E i \in DOMAIN stack' : stack'[i] = d
      OBVIOUS
    <3>1. d # c /\ call'[d] = call[d]
      BY <1>6, <1>7 DEF Waiting
    <3>2. PICK i \in DOMAIN stack : stack[i] = d
      BY <3>1 DEF IInv, Order
    <3>3. i \in 1..(Len(stack) - 1)
      BY <1>1, <1>3, <3>1, <3>2
    <3>4. i \in DOMAIN stack' /\ stack'[i] = d
      BY <1>1, <1>3, <3>2, <3>3 DEF Pop
    <3> QED BY <3>4
  <2>4. phase # "ended"
    BY <1>1 DEF IInv, Order
  <2> QED BY <1>1, <2>1, <2>2, <2>3, <2>4 DEF IInv, Order
<1>10. Early'
  <2>1. \A d \in Clients : call'[d].stage = "queued" => call'[d] = call[d]
    BY <1>6, <1>7
  <2> QED BY <1>1, <1>2, <2>1, EarlyKept
<1>11. Calls'
  <2>1. Targeted(c)' /\ Staged(c)'
    BY <1>6, <1>7 DEF Targeted, Staged
  <2>2. Typed /\ Calls
    BY DEF IInv
  <2>3. gw' = gw /\ locks' = locks
    BY <1>1
  <2> QED BY ONLY <2>1, <2>2, <2>3, <1>7, c \in Clients, CallsKept
<1>12. Objects'
  <2>1. \A d \in Clients : call'[d].dying = call[d].dying
    BY <1>1, <1>6, <1>7
  <2>2. gw' = gw
    BY <1>1
  <2> QED BY <1>3, <2>1, <2>2, ObjectsKept
<1>13. /\ RefsExact(gw', held', call')
       /\ Uses(gw', call', locks) = lockCount
              + (IF IsWrapping(call'[c]) THEN 1 ELSE 0) - (IF IsWrapping(call[c]) THEN 1 ELSE 0)
              + (IF IsCreating(call'[c]) THEN 1 ELSE 0) - (IF IsCreating(call[c]) THEN 1 ELSE 0)
  <2>1. gw' = gw /\ \A d \in Clients \ {c} : call'[d] = call[d] /\ held'[d] = held[d]
    BY <1>1, <1>7
  <2>2. \A x \in Gateways :
              (IF call'[c].wrap = x THEN 1 ELSE 0) + (IF call'[c].result = x THEN 1 ELSE 0)
                + (IF x \in held'[c] THEN 1 ELSE 0)
            = (IF call[c].wrap = x THEN 1 ELSE 0) + (IF call[c].result = x THEN 1 ELSE 0)
                + (IF x \in held[c] THEN 1 ELSE 0)
    BY <1>5, <1>6, <1>7, ServerAssumption
  <2> QED BY ONLY <2>1, <2>2, IInv, c \in Clients, CallCounts
<1>14. lockCount' = Uses(gw', call', locks')
  <2>1. lockCount \in Nat /\ locks' = locks
    BY <1>1, UsesType DEF IInv, Typed
  <2> QED BY <1>1, <1>6, <1>7, <1>13, <2>1 DEF IsWrapping, IsCreating, Waiting
<1> QED BY <1>8, <1>9, <1>10, <1>11, <1>12, <1>13, <1>14 DEF IInv

(***************************************************************************)
(* The main thread takes a call from the queue.                            *)
(***************************************************************************)
\* The queue without one message.
LEMMA WithoutOne ==
  ASSUME Typed, Order, NEW i \in DOMAIN queue, queue[i] # Quit
  PROVE  /\ Without(i) \in Seq(Clients \cup {Quit})
         /\ Len(Without(i)) = Len(queue) - 1 /\ Len(queue) \in Nat \ {0} /\ i \in 1..Len(queue)
         /\ \A j \in 1..(Len(queue) - 1) :
               Without(i)[j] = IF j < i THEN queue[j] ELSE queue[j + 1]
         /\ \A j, k \in 1..(Len(queue) - 1) : Without(i)[j] = Without(i)[k] => j = k
         /\ \A j \in 1..(Len(queue) - 1) :
               Without(i)[j] # queue[i] /\ \E k \in DOMAIN queue : Without(i)[j] = queue[k]
<1>1. queue \in Seq(Clients \cup {Quit}) /\ \A j, k \in DOMAIN queue : queue[j] = queue[k] => j = k
  BY DEF Typed, Order
<1>2. Len(queue) \in Nat /\ DOMAIN queue = 1..Len(queue)
  BY <1>1
<1>3. i \in 1..Len(queue) /\ Len(queue) \in Nat \ {0}
  BY <1>2
<1>4. \A j \in 1..Len(queue) : queue[j] \in Clients \cup {Quit}
  BY <1>1
<1>5. \A j \in 1..(Len(queue) - 1) : j \in 1..Len(queue) /\ j + 1 \in 1..Len(queue)
  BY <1>2
<1>6. /\ Without(i) \in Seq(Clients \cup {Quit}) /\ Len(Without(i)) = Len(queue) - 1
      /\ \A j \in 1..(Len(queue) - 1) : Without(i)[j] = IF j < i THEN queue[j] ELSE queue[j + 1]
  <2>1. Len(queue) - 1 \in Nat
    BY <1>3
  <2>2. \A j \in 1..(Len(queue) - 1) : (IF j < i THEN queue[j] ELSE queue[j + 1]) \in Clients \cup {Quit}
    BY <1>4, <1>5
  <2> QED BY <2>1, <2>2 DEF Without
<1>7. \A j, k \in 1..(Len(queue) - 1) : Without(i)[j] = Without(i)[k] => j = k
  <2> SUFFICES ASSUME NEW j \in 1..(Len(queue) - 1), NEW k \in 1..(Len(queue) - 1),
                      Without(i)[j] = Without(i)[k]
               PROVE  j = k
    OBVIOUS
  <2> DEFINE a == IF j < i THEN j ELSE j + 1  b == IF k < i THEN k ELSE k + 1
  <2>1. a \in 1..Len(queue) /\ b \in 1..Len(queue) /\ (a = b => j = k)
    BY <1>3
  <2>2. queue[a] = queue[b]
    BY <1>6
  <2> QED BY <1>1, <1>2, <2>1, <2>2
<1>8. \A j \in 1..(Len(queue) - 1) :
         Without(i)[j] # queue[i] /\ \E k \in DOMAIN queue : Without(i)[j] = queue[k]
  <2> SUFFICES ASSUME NEW j \in 1..(Len(queue) - 1)
               PROVE  Without(i)[j] # queue[i] /\ \E k \in DOMAIN queue : Without(i)[j] = queue[k]
    OBVIOUS
  <2> DEFINE a == IF j < i THEN j ELSE j + 1
  <2>1. a \in 1..Len(queue) /\ a # i
    BY <1>3
  <2>2. Without(i)[j] = queue[a]
    BY <1>6
  <2> QED BY <1>1, <1>2, <1>3, <2>1, <2>2
<1> QED BY <1>3, <1>6, <1>7, <1>8

\* The calls that are left in the queue keep their order.
LEMMA HandleOrder ==
  ASSUME IInv, NEW c \in Clients, NEW i \in DOMAIN queue, queue[i] = c,
         UNCHANGED <<phase, quitThread>>, stack' = Append(stack, c),
         queue' = Without(i) \/ queue' = PostQuit(Without(i)),
         \A d \in Clients \ {c} : call'[d] = call[d], call'[c].stage \notin Waiting
  PROVE  queue' \in Seq(Clients \cup {Quit}) /\ stack' \in Seq(Clients) /\ Order' /\ Early'
<1> DEFINE q == Without(i)  n == Len(queue) - 1
<1>1. c # Quit /\ Typed /\ Order
  BY ServerAssumption DEF IInv
<1>2. /\ q \in Seq(Clients \cup {Quit}) /\ Len(q) = n /\ n \in Nat /\ i \in 1..(n + 1)
      /\ Len(queue) = n + 1 /\ DOMAIN queue = 1..(n + 1) /\ DOMAIN q = 1..n
      /\ \A j \in 1..n : q[j] = IF j < i THEN queue[j] ELSE queue[j + 1]
      /\ \A j, k \in 1..n : q[j] = q[k] => j = k
      /\ \A j \in 1..n : q[j] # c /\ \E k \in DOMAIN queue : q[j] = queue[k]
  <2>1. queue[i] # Quit /\ queue \in Seq(Clients \cup {Quit})
    BY <1>1 DEF Typed
  <2> QED BY <1>1, <2>1, WithoutOne
<1> HIDE DEF q, n
<1>3. queue' = q \/ (Quit \notin Queued /\ queue' = Append(q, Quit))
  BY DEF PostQuit, q
<1>4. /\ queue' \in Seq(Clients \cup {Quit})
      /\ \A j \in 1..n : queue'[j] = q[j] /\ j \in DOMAIN queue'
      /\ \A j \in DOMAIN queue' : j \in 1..n \/ (j = n + 1 /\ queue'[j] = Quit /\ Quit \notin Queued)
  <2>1. CASE queue' = q
    BY <1>2, <2>1
  <2>2. CASE Quit \notin Queued /\ queue' = Append(q, Quit)
    BY <1>2, <2>2
  <2> QED BY <1>3, <2>1, <2>2
<1>5. call[c].stage = "queued" /\ phase # "ended"
  BY <1>1 DEF Order
<1>6. stack' \in Seq(Clients) /\ stack \in Seq(Clients)
  BY DEF IInv, Typed
<1>7. Order'
  <2>1. \A j, k \in DOMAIN queue' : queue'[j] = queue'[k] => j = k
    <3>1. \A j \in 1..n : Quit \notin Queued => q[j] # Quit
      BY <1>2 DEF Queued
    <3> QED BY <1>2, <1>4, <3>1
  <2>2. \A j \in DOMAIN queue' : queue'[j] # Quit => call'[queue'[j]].stage = "queued"
    <3> SUFFICES ASSUME NEW j \in DOMAIN queue', queue'[j] # Quit
                 PROVE  call'[queue'[j]].stage = "queued"
      OBVIOUS
    <3>1. queue'[j] = q[j] /\ j \in 1..n
      BY <1>4
    <3>2. PICK k \in DOMAIN queue : q[j] = queue[k]
      BY <1>2, <3>1
    <3>3. queue[k] \in Clients /\ call[queue[k]].stage = "queued" /\ queue[k] # c
      BY <1>1, <1>2, <3>1, <3>2 DEF Typed, Order
    <3> QED BY <3>1, <3>2, <3>3
  <2>3. \A d \in Clients : call'[d].stage \notin Waiting => \E j \in DOMAIN stack' : stack'[j] = d
    <3>1. stack'[Len(stack) + 1] = c /\ Len(stack) + 1 \in DOMAIN stack'
      BY <1>6
    <3>2. \A j \in DOMAIN stack : j \in DOMAIN stack' /\ stack'[j] = stack[j]
      BY <1>6
    <3> QED BY <1>1, <3>1, <3>2 DEF Order
  <2> QED BY <1>1, <1>5, <2>1, <2>2, <2>3 DEF Order
<1>8. Early'
  <2> SUFFICES ASSUME NEW d \in Clients, call'[d].stage = "queued", ~call'[d].late
               PROVE  /\ phase' \notin {"left", "revoked"}
                      /\ \E j \in DOMAIN queue' : queue'[j] = d /\ \A k \in 1..j : queue'[k] # Quit
    BY DEF Early, Prompt
  <2>1. call[d].stage = "queued" /\ ~call[d].late /\ d # c
    BY DEF Waiting
  <2>2. /\ phase \notin {"left", "revoked"}
        /\ \E j \in DOMAIN queue : queue[j] = d /\ \A k \in 1..j : queue[k] # Quit
    BY <2>1 DEF IInv, Early, Prompt
  <2>3. PICK j \in DOMAIN queue : queue[j] = d /\ \A k \in 1..j : queue[k] # Quit
    BY <2>2
  <2> DEFINE m == IF j < i THEN j ELSE j - 1
  <2>4. j # i /\ j \in 1..(n + 1)
    BY <1>2, <2>1, <2>3
  <2>5. m \in 1..n /\ (m < i => j = m) /\ (~(m < i) => j = m + 1)
    BY <1>2, <2>4
  <2>6. q[m] = d
    BY <1>2, <2>3, <2>5
  <2>7. \A k \in 1..m : k \in 1..n /\ q[k] # Quit
    <3> SUFFICES ASSUME NEW k \in 1..m PROVE k \in 1..n /\ q[k] # Quit
      OBVIOUS
    <3>1. k \in 1..n /\ k \in 1..j /\ (~(k < i) => k + 1 \in 1..j)
      BY <1>2, <2>4, <2>5
    <3> QED BY <1>2, <2>3, <3>1
  <2>8. m \in DOMAIN queue' /\ queue'[m] = d /\ \A k \in 1..m : queue'[k] # Quit
    BY <1>4, <2>5, <2>6, <2>7
  <2> QED BY <2>2, <2>8
<1> QED BY <1>4, <1>6, <1>7, <1>8

\* What the invariant says of a call in the queue.
LEMMA QueuedCall ==
  ASSUME IInv, NEW c \in Clients, NEW i \in DOMAIN queue, queue[i] = c
  PROVE  /\ call[c].stage = "queued" /\ call[c].wrap = None /\ call[c].result = None
         /\ call[c].dying = {} /\ call \in [Clients -> Call] /\ call[c] \in Call
         /\ gw \in [Gateways -> Gateway] /\ held \in [Clients -> SUBSET Gateways]
         /\ locks \in SUBSET Clients /\ Targeted(c) /\ Staged(c)
<1>1. Targeted(c) /\ Staged(c)
  BY DEF IInv, Calls
<1>2. c # Quit
  BY ServerAssumption
<1>3. call[c].stage = "queued"
  BY <1>2 DEF IInv, Order
<1> QED BY <1>1, <1>3 DEF IInv, Typed, Staged

\* The steps that begin a call and change no gateway.
LEMMA HandleCallInv ==
  ASSUME IInv, NEW c \in Clients, NEW i \in DOMAIN queue, queue[i] = c,
         UNCHANGED <<phase, quitThread, gw, held>>, stack' = Append(stack, c),
         queue' = Without(i) \/ queue' = PostQuit(Without(i)),
         NEW stage \in {"python", "done"}, call' = [call EXCEPT ![c].stage = stage],
         stage = "python" => call[c].op \in {"create", "method", "query"},
         stage = "done" => call[c].op \in {"lock", "unlock"},
         locks' \in SUBSET Clients, \A d \in Clients \ {c} : d \in locks' <=> d \in locks,
         lockCount' = lockCount + NLocks(locks') - NLocks(locks)
                        + (IF call[c].op = "create" THEN 1 ELSE 0)
  PROVE  IInv'
<1>1. /\ call[c].stage = "queued" /\ call[c].wrap = None /\ call[c].result = None
      /\ call[c].dying = {} /\ call \in [Clients -> Call] /\ call[c] \in Call
      /\ gw \in [Gateways -> Gateway] /\ held \in [Clients -> SUBSET Gateways]
      /\ locks \in SUBSET Clients /\ Targeted(c) /\ Staged(c)
  BY QueuedCall
<1>2. Becomes(c, stage, None, None, {})
  <2>1. [call[c] EXCEPT !.stage = stage] \in Call
    BY <1>1 DEF Call, Stages
  <2>2. call' = [call EXCEPT ![c] = [call[c] EXCEPT !.stage = stage]]
    BY <1>1
  <2> QED BY <2>1, <2>2, <1>1 DEF Call, Becomes
<1>3. queue' \in Seq(Clients \cup {Quit}) /\ stack' \in Seq(Clients) /\ Order' /\ Early'
  <2>1. call'[c].stage \notin Waiting
    BY <1>2 DEF Becomes, Waiting
  <2> QED BY <1>2, <2>1, HandleOrder DEF Becomes
<1>4. Typed'
  BY <1>1, <1>2, <1>3 DEF IInv, Typed, Becomes
<1>5. Calls'
  <2>1. Targeted(c)' /\ Staged(c)'
    BY <1>1, <1>2 DEF Targeted, Staged, Becomes
  <2>2. \A d \in Clients \ {c} : /\ call'[d] = call[d] /\ held'[d] = held[d]
                                 /\ d \in locks' <=> d \in locks
    BY <1>2 DEF Becomes
  <2>3. Typed /\ Calls /\ gw' = gw
    BY DEF IInv
  <2> QED BY ONLY <2>1, <2>2, <2>3, c \in Clients, CallsKept
<1>6. Objects'
  <2>1. \A d \in Clients : call'[d].dying = call[d].dying
    BY <1>1, <1>2 DEF Becomes
  <2> QED BY <1>1, <2>1, ObjectsKept
<1>7. /\ RefsExact(gw', held', call')
      /\ Uses(gw', call', locks) = lockCount
              + (IF IsWrapping(call'[c]) THEN 1 ELSE 0) - (IF IsWrapping(call[c]) THEN 1 ELSE 0)
              + (IF IsCreating(call'[c]) THEN 1 ELSE 0) - (IF IsCreating(call[c]) THEN 1 ELSE 0)
  <2>1. gw' = gw /\ \A d \in Clients \ {c} : call'[d] = call[d] /\ held'[d] = held[d]
    BY <1>2 DEF Becomes
  <2>2. \A x \in Gateways :
              (IF call'[c].wrap = x THEN 1 ELSE 0) + (IF call'[c].result = x THEN 1 ELSE 0)
                + (IF x \in held'[c] THEN 1 ELSE 0)
            = (IF call[c].wrap = x THEN 1 ELSE 0) + (IF call[c].result = x THEN 1 ELSE 0)
                + (IF x \in held[c] THEN 1 ELSE 0)
    BY <1>1, <1>2 DEF Becomes
  <2> QED BY ONLY <2>1, <2>2, IInv, c \in Clients, CallCounts
<1>8. lockCount' = Uses(gw', call', locks')
  <2>1. lockCount \in Nat
    BY <1>1, UsesType DEF IInv
  <2>2. ~IsWrapping(call[c]) /\ ~IsWrapping(call'[c]) /\ ~IsCreating(call[c])
    BY <1>1, <1>2 DEF Becomes, IsWrapping, IsCreating, Waiting
  <2>3. IsCreating(call'[c]) <=> call[c].op = "create"
    BY <1>2 DEF Becomes, IsCreating, Waiting
  <2>4. /\ NLive(gw) \in Nat /\ NKeepers(gw) \in Nat /\ NWrapping(call') \in Nat /\ NCreating(call') \in Nat
        /\ NLocks(locks) \in Nat /\ NLocks(locks') \in Nat
    BY <1>1, Numbers
  <2> QED BY <1>7, <2>1, <2>2, <2>3, <2>4 DEF Uses
<1> QED BY <1>3, <1>4, <1>5, <1>6, <1>7, <1>8 DEF IInv

LEMMA HandlePythonStep ==
  ASSUME IInv, NEW c \in Clients, NEW i \in DOMAIN queue, queue[i] = c,
         UNCHANGED <<phase, quitThread>>, HandlePython(c, i)
  PROVE  IInv'
<1>1. /\ call[c].op \in {"create", "method", "query"} /\ queue' = Without(i)
      /\ stack' = Append(stack, c) /\ call' = [call EXCEPT ![c].stage = "python"]
      /\ lockCount' = lockCount + (IF call[c].op = "create" THEN 1 ELSE 0)
      /\ UNCHANGED <<gw, held, locks>>
  BY DEF HandlePython, Begin, DLLAddRef, TemporaryLock
<1>2. /\ locks' \in SUBSET Clients /\ \A d \in Clients \ {c} : d \in locks' <=> d \in locks
      /\ NLocks(locks') = NLocks(locks) /\ NLocks(locks) \in Nat /\ lockCount \in Nat
  BY <1>1, Numbers, UsesType DEF IInv, Typed
<1>3. lockCount' = lockCount + NLocks(locks') - NLocks(locks)
                        + (IF call[c].op = "create" THEN 1 ELSE 0)
  BY <1>1, <1>2
<1> QED BY <1>1, <1>2, <1>3, HandleCallInv

LEMMA HandleLockServerStep ==
  ASSUME IInv, NEW c \in Clients, NEW i \in DOMAIN queue, queue[i] = c,
         UNCHANGED <<phase, quitThread>>, HandleLockServer(c, i)
  PROVE  IInv'
<1>1. /\ call[c].op \in {"lock", "unlock"}
      /\ stack' = Append(stack, c) /\ call' = [call EXCEPT ![c].stage = "done"]
      /\ UNCHANGED <<gw, held>>
  BY DEF HandleLockServer, Begin
<1>2. queue' = Without(i) \/ queue' = PostQuit(Without(i))
  BY Zenon DEF HandleLockServer, DLLReleaseRef
<1>3. /\ call[c].op = "lock" => lockCount' = lockCount + 1 /\ locks' = locks \cup {c}
      /\ call[c].op = "unlock" => lockCount' = lockCount - 1 /\ locks' = locks \ {c}
  BY DEF HandleLockServer, DLLAddRef, DLLReleaseRef
<1>4. /\ locks \in SUBSET Clients /\ IsFiniteSet(locks) /\ NLocks(locks) \in Nat
      /\ call[c].op = "lock" => c \notin locks
      /\ call[c].op = "unlock" => c \in locks
      /\ lockCount \in Nat
  BY QueuedCall, Finite, UsesType DEF IInv, NLocks, Targeted
<1>5. locks' \in SUBSET Clients /\ \A d \in Clients \ {c} : d \in locks' <=> d \in locks
  BY <1>1, <1>3, <1>4
<1>6. NLocks(locks') - NLocks(locks) = IF call[c].op = "lock" THEN 1 ELSE 0 - 1
  <2>1. CASE call[c].op = "lock"
    BY <2>1, <1>3, <1>4, FS_AddElement DEF NLocks
  <2>2. CASE call[c].op = "unlock"
    <3>1. locks' = locks \ {c} /\ c \in locks /\ call[c].op # "lock"
      BY <2>2, <1>3, <1>4
    <3>2. Cardinality(locks \ {c}) = Cardinality(locks) - 1
      BY <3>1, <1>4, FS_RemoveElement
    <3>3. NLocks(locks') = NLocks(locks) - 1
      BY <3>1, <3>2 DEF NLocks
    <3> QED BY <3>1, <3>3, <1>4
  <2> QED BY <1>1, <2>1, <2>2
<1>7. lockCount' = lockCount + NLocks(locks') - NLocks(locks)
                        + (IF call[c].op = "create" THEN 1 ELSE 0)
  <2>1. NLocks(locks') \in Nat
    BY <1>5, Numbers
  <2> QED BY <1>1, <1>3, <1>4, <1>6, <2>1
<1> QED BY <1>1, <1>2, <1>5, <1>7, HandleCallInv

LEMMA HandleUnknownStep ==
  ASSUME IInv, NEW c \in Clients, NEW i \in DOMAIN queue, queue[i] = c,
         UNCHANGED <<phase, quitThread>>, HandleUnknown(c, i)
  PROVE  IInv'
<1> DEFINE b == gw[call[c].target].base
<1>1. /\ call[c].op = "unknown" /\ queue' = Without(i)
      /\ stack' = Append(stack, c)
      /\ call' = [call EXCEPT ![c].stage = "done", ![c].result = b]
      /\ gw' = [gw EXCEPT ![b].refs = @ + 1]
      /\ UNCHANGED <<lockCount, held, locks>>
  BY DEF HandleUnknown
<1>2. /\ call[c].stage = "queued" /\ call[c].wrap = None /\ call[c].result = None
      /\ call[c].dying = {} /\ call \in [Clients -> Call] /\ call[c] \in Call
      /\ gw \in [Gateways -> Gateway] /\ held \in [Clients -> SUBSET Gateways]
      /\ locks \in SUBSET Clients /\ Targeted(c) /\ Staged(c)
  BY QueuedCall
<1>3. call[c].target \in Gateways /\ b \in Gateways /\ b # None /\ b \notin held[c] /\ gw[b].base = None
  <2>1. call[c].target \in held[c] /\ b # None /\ b \notin held[c]
    BY <1>1, <1>2 DEF Targeted
  <2>2. call[c].target \in Gateways /\ b \in Gateways
    BY <1>2, <2>1 DEF Gateway
  <2> QED BY <2>1, <2>2 DEF IInv, Objects
<1>4. gw[b].refs > 0 /\ gw[b].alive /\ \A d \in Clients : b \notin call[d].dying
  BY <1>3, Pointed
<1>5. Becomes(c, "done", None, b, {})
  <2>1. [call[c] EXCEPT !.stage = "done", !.result = b] \in Call
    BY <1>2, <1>3 DEF Call, Stages
  <2>2. call' = [call EXCEPT ![c] = [call[c] EXCEPT !.stage = "done", !.result = b]]
    BY <1>1, <1>2
  <2> QED BY <2>1, <2>2, <1>2 DEF Call, Becomes
<1> HIDE DEF b
<1>6. /\ gw' \in [Gateways -> Gateway] /\ gw'[b].refs = gw[b].refs + 1
      /\ \A x \in Gateways \ {b} : gw'[x] = gw[x]
      /\ \A x \in Gateways : /\ gw'[x].base = gw[x].base /\ gw'[x].alive = gw[x].alive
                             /\ gw'[x].keeps = gw[x].keeps
  BY <1>1, <1>2, <1>3 DEF Gateway
<1>7. queue' \in Seq(Clients \cup {Quit}) /\ stack' \in Seq(Clients) /\ Order' /\ Early'
  <2>1. call'[c].stage \notin Waiting
    BY <1>5 DEF Becomes, Waiting
  <2> QED BY <1>1, <1>5, <2>1, HandleOrder DEF Becomes
<1>8. Typed'
  BY <1>1, <1>2, <1>5, <1>6, <1>7 DEF IInv, Typed, Becomes
<1>9. Calls'
  <2>1. Targeted(c)' /\ Staged(c)'
    BY <1>1, <1>3, <1>5 DEF Targeted, Staged, Becomes
  <2>2. \A d \in Clients \ {c} : call'[d] = call[d]
    BY <1>5 DEF Becomes
  <2>3. Typed /\ Calls /\ held' = held /\ locks' = locks
    BY <1>1 DEF IInv
  <2> QED BY ONLY <2>1, <2>2, <2>3, <1>6, c \in Clients, CallsKept
<1>10. Objects'
  <2>1. \A d \in Clients : call'[d].dying = call[d].dying
    BY <1>2, <1>5 DEF Becomes
  <2>2. \A x \in Gateways : (\E d \in Clients : x \in call[d].dying) => gw'[x].refs = gw[x].refs
    BY <1>4, <1>6
  <2>3. \A x \in Gateways : ~gw[x].alive => gw'[x] = gw[x]
    BY <1>4, <1>6
  <2> QED BY ONLY IInv, <1>6, <2>1, <2>2, <2>3, ObjectsKept
<1>11. RefsExact(gw', held', call') /\ lockCount' = Uses(gw', call', locks')
  <2>1. \A x \in Gateways : gw[x].refs \in Nat
    BY <1>2 DEF Gateway
  <2>2. \A x \in Gateways :
           gw'[x].refs = gw[x].refs + (IF call'[c].wrap = x THEN 1 ELSE 0) - (IF call[c].wrap = x THEN 1 ELSE 0)
                         + (IF call'[c].result = x THEN 1 ELSE 0) - (IF call[c].result = x THEN 1 ELSE 0)
                         + (IF gw'[b].base = x THEN 1 ELSE 0) - (IF gw[b].base = x THEN 1 ELSE 0)
    BY <1>2, <1>3, <1>5, <1>6, <2>1, ServerAssumption DEF Becomes
  <2>3. lockCount \in Nat
    BY UsesType DEF IInv, Typed
  <2>4. ~IsWrapping(call[c]) /\ ~IsWrapping(call'[c]) /\ ~IsCreating(call'[c]) /\ ~IsCreating(call[c])
    BY <1>1, <1>2, <1>5 DEF Becomes, IsWrapping, IsCreating, Waiting
  <2>5. lockCount' = lockCount
              + (IF gw'[b].alive THEN 1 ELSE 0) - (IF gw[b].alive THEN 1 ELSE 0)
              + (IF gw'[b].keeps THEN 1 ELSE 0) - (IF gw[b].keeps THEN 1 ELSE 0)
              + (IF IsWrapping(call'[c]) THEN 1 ELSE 0) - (IF IsWrapping(call[c]) THEN 1 ELSE 0)
              + (IF IsCreating(call'[c]) THEN 1 ELSE 0) - (IF IsCreating(call[c]) THEN 1 ELSE 0)
    BY <1>1, <1>3, <1>6, <2>3, <2>4
  <2>6. \A x \in Gateways \ {b} : gw'[x].base = gw[x].base /\ gw'[x].alive = gw[x].alive
                                     /\ gw'[x].keeps = gw[x].keeps
    BY <1>6
  <2>7. UNCHANGED <<held, locks>> /\ \A d \in Clients \ {c} : call'[d] = call[d]
    BY <1>1, <1>5 DEF Becomes
  <2> QED BY ONLY IInv, <2>2, <2>5, <2>6, <2>7, c \in Clients, <1>3, GatewayCounts
<1> QED BY <1>7, <1>8, <1>9, <1>10, <1>11 DEF IInv

LEMMA HandleReleaseStep ==
  ASSUME IInv, NEW c \in Clients, NEW i \in DOMAIN queue, queue[i] = c,
         UNCHANGED <<phase, quitThread>>, HandleRelease(c, i)
  PROVE  IInv'
<1> DEFINE g == call[c].target  b == gw[g].base
<1>1. /\ call[c].op = "release" /\ stack' = Append(stack, c)
      /\ call' = [call EXCEPT ![c].stage = "done", ![c].dying = Dying(g)]
      /\ gw' = Released(g) /\ held' = [held EXCEPT ![c] = @ \ {g}] /\ locks' = locks
      /\ lockCount' = lockCount - (IF Gone(g) THEN 1 ELSE 0)
  BY DEF HandleRelease, DLLReleaseRef
<1>2. queue' = Without(i) \/ queue' = PostQuit(Without(i))
  BY Zenon DEF HandleRelease, DLLReleaseRef
<1>3. /\ call[c].stage = "queued" /\ call[c].wrap = None /\ call[c].result = None
      /\ call[c].dying = {} /\ call \in [Clients -> Call] /\ call[c] \in Call
      /\ gw \in [Gateways -> Gateway] /\ held \in [Clients -> SUBSET Gateways]
      /\ locks \in SUBSET Clients /\ Targeted(c) /\ Staged(c)
  BY QueuedCall
<1>4. g \in held[c] /\ g \in Gateways /\ g # None /\ gw[g].refs > 0 /\ gw[g].alive
  <2>1. g \in held[c] /\ g \in Gateways
    BY <1>1, <1>3 DEF Targeted
  <2> QED BY <2>1, Pointed, ServerAssumption
<1>5. /\ b \in Gateways \cup {None}
      /\ b # None => gw[b].base = None /\ gw[b].refs > 0 /\ b # g
  <2>1. b \in Gateways \cup {None}
    BY <1>3, <1>4 DEF Gateway
  <2>2. b # None => gw[b].base = None /\ gw[b].refs > 0
    BY <2>1, <1>4, Pointed DEF IInv, Objects
  <2> QED BY <2>1, <2>2
<1>6. IsReleased(g)
  <2>1. g \in Gateways /\ gw[g].refs > 0 /\ (gw[g].base # None => gw[gw[g].base].refs > 0)
    BY <1>4, <1>5
  <2>2. Typed /\ Objects
    BY DEF IInv
  <2> HIDE DEF g, b
  <2> QED BY ONLY <2>1, <2>2, ReleaseEffect
<1>7. \A x \in Dying(g) : x \in {g, b} /\ x # None /\ gw[g].refs = 1
  <2>1. Dying(g) \subseteq Gateways
    BY <1>6 DEF IsReleased
  <2>2. \A x \in Dying(g) : x = g \/ x = Primary(g)
    BY DEF Dying
  <2>3. Dying(g) # {} => ~(gw[g].refs > 1)
    BY DEF Dying, Survives
  <2>4. gw[g].refs \in Nat
    BY <1>3, <1>4 DEF Gateway
  <2> QED BY <1>4, <2>1, <2>2, <2>3, <2>4, ServerAssumption DEF Primary
<1>8. Gone(g) => gw[g].refs = 1
  BY DEF Gone
<1> HIDE DEF g, b
<1>9. /\ gw' \in [Gateways -> Gateway] /\ Dying(g) \subseteq Gateways
      /\ \A x \in Gateways :
           /\ gw'[x].refs = gw[x].refs - (IF x = g THEN 1 ELSE 0)
                               - (IF gw[g].refs = 1 /\ x = b THEN 1 ELSE 0)
           /\ gw'[x].base = IF gw[g].refs = 1 /\ x = g THEN None ELSE gw[x].base
           /\ gw'[x].alive = IF Gone(g) /\ x = g THEN FALSE ELSE gw[x].alive
           /\ gw'[x].keeps = gw[x].keeps
           /\ ~gw[x].alive => gw'[x] = gw[x]
      /\ Gone(g) => gw'[g] = Free
      /\ \A x \in Dying(g) : gw[x].alive /\ gw[x].refs = 1 /\ gw'[x].refs = 0 /\ ~Gone(g)
  BY ONLY <1>1, <1>6 DEF IsReleased, b
<1>b. \A x \in Gateways : gw'[x].base = IF gw[g].refs = 1 /\ x = g THEN None ELSE gw[x].base
  BY <1>9
<1>g. g # b
  BY <1>4, <1>5
<1>10. Becomes(c, "done", None, None, Dying(g))
  <2>1. [call[c] EXCEPT !.stage = "done", !.dying = Dying(g)] \in Call
    BY <1>3, <1>9 DEF Call, Stages
  <2>2. call' = [call EXCEPT ![c] = [call[c] EXCEPT !.stage = "done", !.dying = Dying(g)]]
    BY <1>1, <1>3
  <2> QED BY <2>1, <2>2, <1>3 DEF Call, Becomes
<1>11. /\ held' \in [Clients -> SUBSET Gateways] /\ held'[c] = held[c] \ {g}
       /\ \A d \in Clients \ {c} : held'[d] = held[d] /\ call'[d] = call[d]
  BY <1>1, <1>3, <1>10 DEF Becomes
<1>12. queue' \in Seq(Clients \cup {Quit}) /\ stack' \in Seq(Clients) /\ Order' /\ Early'
  <2>1. call'[c].stage \notin Waiting
    BY <1>10 DEF Becomes, Waiting
  <2> QED BY <1>1, <1>2, <1>11, <2>1, HandleOrder
<1>13. Typed'
  BY <1>1, <1>3, <1>9, <1>10, <1>11, <1>12 DEF IInv, Typed, Becomes
<1>14. RefsExact(gw', held', call')
  <2>1. \A h \in Gateways \ {g} : gw'[h].base = gw[h].base
    BY <1>9
  <2>2. \A x \in Gateways : gw[x].refs \in Nat /\ x # None
    BY <1>3, ServerAssumption DEF Gateway
  <2>3. /\ gw'[g].base = IF gw[g].refs = 1 THEN None ELSE b
        /\ gw[g].base = b
    BY <1>4, <1>9 DEF b
  <2>4. \A x \in Gateways :
            gw'[x].refs = gw[x].refs
              + (IF call'[c].wrap = x THEN 1 ELSE 0) - (IF call[c].wrap = x THEN 1 ELSE 0)
              + (IF call'[c].result = x THEN 1 ELSE 0) - (IF call[c].result = x THEN 1 ELSE 0)
              + (IF x \in held'[c] THEN 1 ELSE 0) - (IF x \in held[c] THEN 1 ELSE 0)
              + (IF gw'[g].base = x THEN 1 ELSE 0) - (IF gw[g].base = x THEN 1 ELSE 0)
    <3>1. \A x \in Gateways : gw'[x].refs = gw[x].refs - (IF x = g THEN 1 ELSE 0)
                               - (IF gw[g].refs = 1 /\ x = b THEN 1 ELSE 0)
      BY <1>9
    <3>2. \A x \in Gateways : (x \in held'[c] <=> x \in held[c] /\ x # g) /\ g \in held[c]
      BY <1>4, <1>11
    <3>3. call'[c].wrap = None /\ call[c].wrap = None /\ call'[c].result = None /\ call[c].result = None
      BY <1>3, <1>10 DEF Becomes
    <3>4. ASSUME NEW x \in Gateways
          PROVE  gw'[x].refs = gw[x].refs
                   + (IF call'[c].wrap = x THEN 1 ELSE 0) - (IF call[c].wrap = x THEN 1 ELSE 0)
                   + (IF call'[c].result = x THEN 1 ELSE 0) - (IF call[c].result = x THEN 1 ELSE 0)
                   + (IF x \in held'[c] THEN 1 ELSE 0) - (IF x \in held[c] THEN 1 ELSE 0)
                   + (IF gw'[g].base = x THEN 1 ELSE 0) - (IF gw[g].base = x THEN 1 ELSE 0)
      <4>1. gw[x].refs \in Nat /\ x # None
        BY ONLY <2>2, x \in Gateways
      <4>2. call'[c].wrap # x /\ call[c].wrap # x /\ call'[c].result # x /\ call[c].result # x
        BY ONLY <3>3, <4>1
      <4>3. gw'[x].refs = gw[x].refs - (IF x = g THEN 1 ELSE 0)
                            - (IF gw[g].refs = 1 /\ x = b THEN 1 ELSE 0)
        BY ONLY <3>1, x \in Gateways
      <4>4. (x \in held'[c] <=> x \in held[c] /\ x # g) /\ (x = g => x \in held[c])
        BY ONLY <3>2, x \in Gateways
      <4>5. (gw'[g].base = x <=> gw[g].refs # 1 /\ x = b) /\ (gw[g].base = x <=> x = b)
        BY ONLY <2>3, <4>1
      <4> QED BY ONLY <4>1, <4>2, <4>3, <4>4, <4>5
    <3> QED BY ONLY <3>4
  <2>5. RefsExact(gw, held, call)
    BY DEF IInv
  <2> QED BY ONLY <2>1, <2>4, <2>5, <1>4, <1>11, c \in Clients, RefsStep
<1>15. Calls'
  <2>1. Targeted(c)' /\ Staged(c)'
    BY <1>1, <1>10 DEF Targeted, Staged, Becomes
  <2>2. \A d \in Clients \ {c} : \A x \in Gateways :
           x \in held[d] \/ x = call[d].wrap => gw'[x].base = gw[x].base
    <3>1. gw[g].refs = 1 => gw'[g].refs = 0
      <4>1. gw'[g].refs = gw[g].refs - 1 - (IF gw[g].refs = 1 /\ g = b THEN 1 ELSE 0)
        BY <1>4, <1>9
      <4>2. (IF gw[g].refs = 1 /\ g = b THEN 1 ELSE 0) = 0
        BY ONLY <1>g
      <4>3. gw'[g].refs = gw[g].refs - 1 - 0
        BY <4>1, <4>2, Zenon
      <4> QED BY ONLY <4>3
    <3>2. gw[g].refs = 1 => \A d \in Clients : g \notin held'[d] /\ call'[d].wrap # g
      BY <1>4, <1>14, <3>1, Referenced
    <3>3. gw[g].refs = 1 => \A d \in Clients \ {c} : g \notin held[d] /\ call[d].wrap # g
      BY <3>2, <1>11
    <3> QED BY ONLY <1>b, <3>3
  <2>3. Typed /\ Calls /\ locks' = locks
    BY <1>1 DEF IInv
  <2> QED BY ONLY <2>1, <2>2, <2>3, <1>11, c \in Clients, CallsKept
<1>16. Objects'
  <2>1. \A x \in Gateways : ~gw'[x].alive => gw'[x] = Free
    BY <1>9 DEF IInv, Objects
  <2>2. \A x \in Gateways : gw'[x].base # None => gw'[gw'[x].base].base = None /\ ~gw'[x].keeps
    <3>1. \A x \in Gateways : gw[x].base \in Gateways \cup {None}
      BY <1>3 DEF Gateway
    <3>2. \A x \in Gateways : gw[x].base # None => gw[gw[x].base].base = None /\ ~gw[x].keeps
      BY DEF IInv, Objects
    <3>3. \A x \in Gateways : gw'[x].keeps = gw[x].keeps
      BY <1>9
    <3> SUFFICES ASSUME NEW x \in Gateways, gw'[x].base # None
                 PROVE  gw'[gw'[x].base].base = None /\ ~gw'[x].keeps
      OBVIOUS
    <3>4. gw'[x].base = gw[x].base /\ gw[x].base \in Gateways
      BY <1>b, <3>1
    <3> QED BY <1>b, <3>2, <3>3, <3>4
  <2>3. \A d \in Clients : call'[d].dying = IF d = c THEN Dying(g) ELSE call[d].dying
    BY <1>10 DEF Becomes
  <2>4. \A d \in Clients : \A x \in call[d].dying :
           x \in Gateways /\ gw[x].alive /\ gw[x].refs = 0 /\ gw[x].base = None /\ x # g /\ x # b
    <3>1. \A d \in Clients : \A x \in call[d].dying :
             x \in Gateways /\ gw[x].alive /\ gw[x].refs = 0 /\ gw[x].base = None
      BY <1>3 DEF IInv, Objects, Call
    <3> QED BY <3>1, <1>4, <1>5, ServerAssumption
  <2>5. \A d \in Clients : \A x \in call[d].dying : gw'[x].alive /\ gw'[x].refs = 0 /\ gw'[x].base = None
    <3> SUFFICES ASSUME NEW d \in Clients, NEW x \in call[d].dying
                 PROVE  gw'[x].alive /\ gw'[x].refs = 0 /\ gw'[x].base = None
      OBVIOUS
    <3>1. x \in Gateways /\ gw[x].alive /\ gw[x].refs = 0 /\ gw[x].base = None /\ x # g /\ x # b
      BY <2>4
    <3>2. gw'[x].refs = gw[x].refs - 0 - 0 /\ gw'[x].alive = gw[x].alive
      BY <1>9, <3>1
    <3> QED BY <1>b, <3>1, <3>2
  <2>6. \A x \in Dying(g) : gw'[x].alive /\ gw'[x].refs = 0 /\ gw'[x].base = None
    BY <1>5, <1>7, <1>9
  <2>7. \A d \in Clients : \A x \in call'[d].dying : gw'[x].alive /\ gw'[x].refs = 0 /\ gw'[x].base = None
    BY <2>3, <2>5, <2>6
  <2>8. \A d \in Clients : \A x \in call[d].dying : x \notin Dying(g)
    BY <2>4, <1>9
  <2>9. \A d, e \in Clients : \A x \in call'[d].dying : x \in call'[e].dying => d = e
    BY <2>3, <2>8 DEF IInv, Objects
  <2> QED BY <2>1, <2>2, <2>7, <2>9, Zenon DEF Objects
<1>17. lockCount' = Uses(gw', call', locks')
  <2>1. \A d \in Clients \ {c} : call'[d] = call[d]
    BY <1>11
  <2>2. \A h \in Gateways \ {g} : gw'[h].alive = gw[h].alive /\ gw'[h].keeps = gw[h].keeps
    BY <1>9
  <2>3. Uses(gw', call', locks) = Uses(gw, call, locks)
           + (IF gw'[g].alive THEN 1 ELSE 0) - (IF gw[g].alive THEN 1 ELSE 0)
           + (IF gw'[g].keeps THEN 1 ELSE 0) - (IF gw[g].keeps THEN 1 ELSE 0)
           + (IF IsWrapping(call'[c]) THEN 1 ELSE 0) - (IF IsWrapping(call[c]) THEN 1 ELSE 0)
           + (IF IsCreating(call'[c]) THEN 1 ELSE 0) - (IF IsCreating(call[c]) THEN 1 ELSE 0)
    BY ONLY <2>1, <2>2, <1>3, <1>4, c \in Clients, UsesStep
  <2>4. ~IsWrapping(call[c]) /\ ~IsWrapping(call'[c]) /\ ~IsCreating(call'[c]) /\ ~IsCreating(call[c])
    BY <1>1, <1>3, <1>10 DEF Becomes, IsWrapping, IsCreating, Waiting
  <2>5. /\ gw[g].alive /\ (gw'[g].alive <=> ~Gone(g)) /\ gw'[g].keeps = gw[g].keeps
    BY <1>4, <1>9
  <2>6. lockCount = Uses(gw, call, locks) /\ lockCount \in Nat /\ locks' = locks
    BY <1>1, <1>3, UsesType DEF IInv
  <2>7. lockCount' = lockCount - (IF Gone(g) THEN 1 ELSE 0)
    BY <1>1
  <2> QED BY ONLY <2>3, <2>4, <2>5, <2>6, <2>7
<1> QED BY <1>12, <1>13, <1>14, <1>15, <1>16, <1>17 DEF IInv

(***************************************************************************)
(* The clients' own steps.                                                 *)
(***************************************************************************)
\* What the invariant says of a client that no call of is on its way.
LEMMA WaitingCall ==
  ASSUME IInv, NEW c \in Clients, call[c].stage \in Waiting
  PROVE  /\ call[c].wrap = None /\ call[c].result = None /\ call[c].dying = {}
         /\ call \in [Clients -> Call] /\ call[c] \in Call
         /\ ~IsWrapping(call[c]) /\ ~IsCreating(call[c])
         /\ call[c].stage # "queued" => \A i \in DOMAIN queue : queue[i] # c
<1>1. Staged(c)
  BY DEF IInv, Calls
<1>2. call[c].wrap = None /\ call[c].result = None /\ call[c].dying = {}
  BY <1>1 DEF Staged, Waiting
<1>3. ~IsWrapping(call[c]) /\ ~IsCreating(call[c])
  BY DEF IsWrapping, IsCreating, Waiting
<1>4. call[c].stage # "queued" => \A i \in DOMAIN queue : queue[i] # c
  BY ServerAssumption DEF IInv, Order
<1> QED BY <1>2, <1>3, <1>4 DEF IInv, Typed

\* A step that changes a call that is not yet handled, and no count.
LEMMA ClientCounts ==
  ASSUME IInv, NEW c \in Clients, NEW k \in Call, call' = [call EXCEPT ![c] = k],
         call[c].stage \in Waiting, k.stage \in Waiting,
         k.wrap = None, k.result = None, k.dying = {}, Targeted(c)',
         UNCHANGED <<lockCount, gw, held, locks>>
  PROVE  /\ call' \in [Clients -> Call] /\ call'[c] = k
         /\ \A d \in Clients \ {c} : call'[d] = call[d]
         /\ Calls' /\ Objects' /\ RefsExact(gw', held', call') /\ lockCount' = Uses(gw', call', locks')
<1>1. /\ call[c].wrap = None /\ call[c].result = None /\ call[c].dying = {}
      /\ call \in [Clients -> Call] /\ ~IsWrapping(call[c]) /\ ~IsCreating(call[c])
  BY WaitingCall
<1>2. /\ call' \in [Clients -> Call] /\ call'[c] = k /\ \A d \in Clients \ {c} : call'[d] = call[d]
  BY <1>1
<1>3. Calls'
  <2>1. Staged(c)'
    BY <1>2 DEF Staged, Waiting
  <2> QED BY <1>2, <2>1, CallsKept DEF IInv
<1>4. Objects'
  <2>1. \A d \in Clients : call'[d].dying = call[d].dying
    BY <1>1, <1>2
  <2>2. gw \in [Gateways -> Gateway]
    BY DEF IInv, Typed
  <2> QED BY <2>1, <2>2, ObjectsKept
<1>5. /\ RefsExact(gw', held', call')
      /\ Uses(gw', call', locks) = lockCount
              + (IF IsWrapping(call'[c]) THEN 1 ELSE 0) - (IF IsWrapping(call[c]) THEN 1 ELSE 0)
              + (IF IsCreating(call'[c]) THEN 1 ELSE 0) - (IF IsCreating(call[c]) THEN 1 ELSE 0)
  <2>1. gw' = gw /\ \A d \in Clients \ {c} : call'[d] = call[d] /\ held'[d] = held[d]
    BY <1>2
  <2>2. \A x \in Gateways :
              (IF call'[c].wrap = x THEN 1 ELSE 0) + (IF call'[c].result = x THEN 1 ELSE 0)
                + (IF x \in held'[c] THEN 1 ELSE 0)
            = (IF call[c].wrap = x THEN 1 ELSE 0) + (IF call[c].result = x THEN 1 ELSE 0)
                + (IF x \in held[c] THEN 1 ELSE 0)
    BY <1>1, <1>2
  <2> QED BY ONLY <2>1, <2>2, IInv, c \in Clients, CallCounts
<1>6. lockCount' = Uses(gw', call', locks')
  <2>1. lockCount \in Nat
    BY UsesType DEF IInv, Typed
  <2>2. ~IsWrapping(call'[c]) /\ ~IsCreating(call'[c])
    BY <1>2 DEF IsWrapping, IsCreating, Waiting
  <2> QED BY <1>1, <1>5, <2>1, <2>2
<1> QED BY <1>2, <1>3, <1>4, <1>5, <1>6

LEMMA EnqueueStep ==
  ASSUME IInv, NEW c \in Clients, NEW k \in Call, call' = [call EXCEPT ![c] = k],
         call[c].stage \in {"none", "scm"}, phase # "ended", queue' = Append(queue, c),
         k.stage = "queued", k.wrap = None, k.result = None, k.dying = {}, k.late = Late,
         Targeted(c)', UNCHANGED <<phase, quitThread, lockCount, stack, gw, held, locks>>
  PROVE  IInv'
<1>1. /\ call' \in [Clients -> Call] /\ call'[c] = k
      /\ \A d \in Clients \ {c} : call'[d] = call[d]
      /\ Calls' /\ Objects' /\ RefsExact(gw', held', call') /\ lockCount' = Uses(gw', call', locks')
  BY ClientCounts DEF Waiting
<1>2. \A i \in DOMAIN queue : queue[i] # c
  BY WaitingCall DEF Waiting
<1>3. queue \in Seq(Clients \cup {Quit}) /\ c # Quit
  BY ServerAssumption DEF IInv, Typed
<1> DEFINE n == Len(queue)
<1>4. /\ queue' \in Seq(Clients \cup {Quit}) /\ DOMAIN queue = 1..n /\ DOMAIN queue' = 1..(n + 1)
      /\ n \in Nat /\ \A i \in 1..n : queue'[i] = queue[i]
      /\ queue'[n + 1] = c
  BY <1>3
<1> HIDE DEF n
<1>5. Typed'
  BY <1>1, <1>4 DEF IInv, Typed
<1>6. Order'
  <2>1. \A i, j \in DOMAIN queue' : queue'[i] = queue'[j] => i = j
    BY <1>2, <1>4 DEF IInv, Order
  <2>2. \A i \in DOMAIN queue' : queue'[i] # Quit => call'[queue'[i]].stage = "queued"
    <3> SUFFICES ASSUME NEW i \in DOMAIN queue', queue'[i] # Quit
                 PROVE  call'[queue'[i]].stage = "queued"
      OBVIOUS
    <3>1. CASE i = n + 1
      BY <1>1, <1>4, <3>1
    <3>2. CASE i \in 1..n
      <4>1. queue'[i] = queue[i] /\ queue[i] \in Clients /\ queue[i] # c /\ call[queue[i]].stage = "queued"
        BY <1>2, <1>3, <1>4, <3>2 DEF IInv, Order
      <4> QED BY <1>1, <4>1
    <3> QED BY <1>4, <3>1, <3>2
  <2>3. \A d \in Clients : call'[d].stage \notin Waiting => \E i \in DOMAIN stack : stack[i] = d
    BY <1>1 DEF IInv, Order, Waiting
  <2> QED BY <2>1, <2>2, <2>3 DEF IInv, Order
<1>7. Early'
  <2> SUFFICES ASSUME NEW d \in Clients, call'[d].stage = "queued", ~call'[d].late
               PROVE  /\ phase' \notin {"left", "revoked"}
                      /\ \E j \in DOMAIN queue' : queue'[j] = d /\ \A l \in 1..j : queue'[l] # Quit
    BY DEF Early, Prompt
  <2>1. CASE d = c
    <3>1. phase \notin {"left", "revoked"} /\ Quit \notin Queued
      BY <1>1, <2>1 DEF Late
    <3>2. \A l \in 1..(n + 1) : queue'[l] # Quit
      BY <1>3, <1>4, <3>1 DEF Queued
    <3> QED BY <1>4, <2>1, <3>1, <3>2
  <2>2. CASE d # c
    <3>1. /\ phase \notin {"left", "revoked"}
          /\ \E j \in DOMAIN queue : queue[j] = d /\ \A l \in 1..j : queue[l] # Quit
      BY <1>1, <2>2 DEF IInv, Early, Prompt
    <3>2. PICK j \in DOMAIN queue : queue[j] = d /\ \A l \in 1..j : queue[l] # Quit
      BY <3>1
    <3>3. j \in DOMAIN queue' /\ queue'[j] = d /\ \A l \in 1..j : queue'[l] # Quit
      BY <1>4, <3>2
    <3> QED BY <3>1, <3>3
  <2> QED BY <2>1, <2>2
<1> QED BY <1>1, <1>5, <1>6, <1>7 DEF IInv

LEMMA DeliverStep ==
  ASSUME IInv, NEW c \in Clients, Deliver(c)
  PROVE  IInv'
<1> DEFINE k == [call[c] EXCEPT !.stage = "queued", !.late = Late]
<1>1. /\ call[c].stage = "scm" /\ phase # "ended" /\ queue' = Append(queue, c)
      /\ UNCHANGED <<phase, quitThread, lockCount, stack, gw, held, locks>>
      /\ call' = [call EXCEPT ![c].stage = "queued", ![c].late = Late]
  BY DEF Deliver
<1>2. /\ call[c].wrap = None /\ call[c].result = None /\ call[c].dying = {}
      /\ call \in [Clients -> Call] /\ call[c] \in Call
  BY <1>1, WaitingCall DEF Waiting
<1>3. Late \in BOOLEAN
  BY DEF Late
<1>4. /\ k \in Call /\ k.stage = "queued" /\ k.wrap = None /\ k.result = None /\ k.dying = {}
      /\ k.op = call[c].op /\ k.target = call[c].target /\ k.late = Late
  BY <1>2, <1>3 DEF Call, Stages
<1>5. call' = [call EXCEPT ![c] = k]
  BY <1>1, <1>2
<1>6. call[c].op = "create"
  BY <1>1 DEF IInv, Calls, Targeted
<1> HIDE DEF k
<1>7. Targeted(c)'
  BY <1>2, <1>4, <1>5, <1>6 DEF Targeted
<1> QED BY <1>1, <1>4, <1>5, <1>7, EnqueueStep

LEMMA SendStep ==
  ASSUME IInv, NEW c \in Clients, Send(c)
  PROVE  IInv'
<1>1. PICK op \in Ops, g \in Gateways \cup {None} :
        /\ Reached(op, c, g)
        /\ call' = [call EXCEPT ![c] = [Idle EXCEPT !.op = op, !.stage = "queued",
                                                    !.target = g, !.late = Late]]
  BY DEF Send
<1> DEFINE k == [Idle EXCEPT !.op = op, !.stage = "queued", !.target = g, !.late = Late]
<1>2. /\ call[c].stage = "none" /\ phase # "ended" /\ queue' = Append(queue, c)
      /\ UNCHANGED <<phase, quitThread, lockCount, stack, gw, held, locks>>
  BY DEF Send
<1>3. Late \in BOOLEAN
  BY DEF Late
<1>4. /\ k \in Call /\ k.stage = "queued" /\ k.wrap = None /\ k.result = None /\ k.dying = {}
      /\ k.op = op /\ k.target = g /\ k.late = Late
  BY <1>3 DEF Idle, Call, Stages
<1>5. call' = [call EXCEPT ![c] = k]
  BY <1>1
<1>6. call \in [Clients -> Call]
  BY DEF IInv, Typed
<1> HIDE DEF k
<1>7. Targeted(c)'
  BY <1>1, <1>2, <1>4, <1>5, <1>6 DEF Targeted, Reached
<1> QED BY <1>2, <1>4, <1>5, <1>7, EnqueueStep

LEMMA ActivateStep ==
  ASSUME IInv, NEW c \in Clients, Activate(c)
  PROVE  IInv'
<1> DEFINE k == [Idle EXCEPT !.stage = "scm"]
<1>1. /\ call[c].stage = "none" /\ call' = [call EXCEPT ![c] = k]
      /\ UNCHANGED <<phase, quitThread, lockCount, queue, stack, gw, held, locks>>
  BY DEF Activate
<1>2. /\ k \in Call /\ k.stage = "scm" /\ k.wrap = None /\ k.result = None /\ k.dying = {} /\ k.op = "create"
  BY DEF Idle, Call, Stages, Ops
<1>3. call \in [Clients -> Call]
  BY DEF IInv, Typed
<1> HIDE DEF k
<1>4. Targeted(c)'
  BY <1>1, <1>2, <1>3 DEF Targeted
<1>5. /\ call' \in [Clients -> Call] /\ call'[c] = k
      /\ \A d \in Clients \ {c} : call'[d] = call[d]
      /\ Calls' /\ Objects' /\ RefsExact(gw', held', call') /\ lockCount' = Uses(gw', call', locks')
  BY <1>1, <1>2, <1>4, ClientCounts DEF Waiting
<1>6. \A i \in DOMAIN queue : queue[i] # c
  BY <1>1, WaitingCall DEF Waiting
<1>7. Typed'
  BY <1>1, <1>5 DEF IInv, Typed
<1>8. Order'
  <2>1. \A i \in DOMAIN queue : queue[i] # Quit => queue[i] \in Clients /\ queue[i] # c
    BY <1>6 DEF IInv, Typed
  <2>2. \A i \in DOMAIN queue : queue[i] # Quit => call'[queue[i]].stage = "queued"
    BY <1>5, <2>1 DEF IInv, Order
  <2>3. \A d \in Clients : call'[d].stage \notin Waiting => \E i \in DOMAIN stack : stack[i] = d
    BY <1>2, <1>5 DEF IInv, Order, Waiting
  <2>4. phase = "ended" => \A d \in Clients : call'[d].stage \in {"none", "scm"}
    BY <1>2, <1>5 DEF IInv, Order
  <2> QED BY <1>1, <2>2, <2>3, <2>4 DEF IInv, Order
<1>9. Early'
  <2>1. \A d \in Clients : call'[d].stage = "queued" => call'[d] = call[d]
    BY <1>2, <1>5
  <2> QED BY <1>1, <2>1, EarlyKept
<1> QED BY <1>5, <1>7, <1>8, <1>9 DEF IInv

(***************************************************************************)
(* The process itself.                                                     *)
(***************************************************************************)
\* A stage of serve() that leaves the calls and the gateways alone.
LEMMA ServeStep ==
  ASSUME IInv, RegisterClassFactories \/ EnableQuitMessage \/ CoResumeClassObjects
                 \/ PumpMessages \/ LeaveLoop \/ RevokeClassFactories
  PROVE  IInv'
<1>1. /\ UNCHANGED <<lockCount, stack, call, gw, held, locks>>
      /\ phase # "ended" /\ phase' \in Phases \ {"ended"} /\ quitThread' \in BOOLEAN
      /\ phase' \in {"start", "registered"} => ~quitThread'
  <2>1. quitThread \in BOOLEAN /\ (phase \in {"start", "registered"} => ~quitThread)
    BY DEF IInv, Typed, Order
  <2>2. CASE RegisterClassFactories
    BY <2>1, <2>2 DEF RegisterClassFactories, Phases
  <2>3. CASE EnableQuitMessage
    BY <2>3 DEF EnableQuitMessage, Phases
  <2>4. CASE CoResumeClassObjects \/ PumpMessages
    BY <2>1, <2>4 DEF CoResumeClassObjects, PumpMessages, Phases
  <2>5. CASE LeaveLoop \/ RevokeClassFactories
    BY <2>1, <2>5 DEF LeaveLoop, RevokeClassFactories, Phases
  <2> QED BY <2>2, <2>3, <2>4, <2>5
<1>2. queue' = queue \/ (LeaveLoop /\ queue # <<>> /\ Head(queue) = Quit /\ queue' = Tail(queue))
  <2>1. CASE RegisterClassFactories
    BY <2>1 DEF RegisterClassFactories, PostQuit, IInv, Order
  <2>2. CASE ~RegisterClassFactories
    BY <2>2 DEF EnableQuitMessage, CoResumeClassObjects, PumpMessages, LeaveLoop, RevokeClassFactories
  <2> QED BY <2>1, <2>2
<1>3. queue \in Seq(Clients \cup {Quit})
  BY DEF IInv, Typed
<1>4. Calls' /\ Objects' /\ RefsExact(gw', held', call') /\ lockCount' = Uses(gw', call', locks')
  BY <1>1 DEF IInv, Calls, Objects, Targeted, Staged
<1>5. Typed'
  <2>1. queue' \in Seq(Clients \cup {Quit})
    BY <1>2, <1>3
  <2> QED BY <1>1, <2>1 DEF IInv, Typed
<1>6. Order'
  <2>1. \A i \in DOMAIN queue' : \E j \in DOMAIN queue : queue'[i] = queue[j]
    BY <1>2, <1>3
  <2>2. \A i, j \in DOMAIN queue' : queue'[i] = queue'[j] => i = j
    <3>1. CASE queue' = queue
      BY <3>1 DEF IInv, Order
    <3>2. CASE queue # <<>> /\ queue' = Tail(queue)
      <4>1. /\ DOMAIN queue = 1..Len(queue) /\ DOMAIN queue' = 1..(Len(queue) - 1) /\ Len(queue) \in Nat
            /\ \A i \in 1..(Len(queue) - 1) : queue'[i] = queue[i + 1]
        BY <3>2, <1>3
      <4>2. \A i \in 1..(Len(queue) - 1) : i + 1 \in DOMAIN queue
        BY <4>1
      <4> QED BY <4>1, <4>2 DEF IInv, Order
    <3> QED BY <1>2, <3>1, <3>2
  <2>3. \A i \in DOMAIN queue' : queue'[i] # Quit => call[queue'[i]].stage = "queued"
    BY <2>1 DEF IInv, Order
  <2> QED BY <1>1, <2>2, <2>3 DEF IInv, Order
<1>7. Early'
  <2> SUFFICES ASSUME NEW d \in Clients, call[d].stage = "queued", ~call[d].late
               PROVE  /\ phase' \notin {"left", "revoked"}
                      /\ \E j \in DOMAIN queue' : queue'[j] = d /\ \A l \in 1..j : queue'[l] # Quit
    BY <1>1 DEF Early, Prompt
  <2>1. /\ phase \notin {"left", "revoked"}
        /\ \E j \in DOMAIN queue : queue[j] = d /\ \A l \in 1..j : queue[l] # Quit
    BY DEF IInv, Early, Prompt
  <2>2. ~(queue # <<>> /\ Head(queue) = Quit)
    <3>1. PICK j \in DOMAIN queue : queue[j] = d /\ \A l \in 1..j : queue[l] # Quit
      BY <2>1
    <3>2. queue[1] # Quit
      BY <1>3, <3>1
    <3> QED BY <1>3, <3>2
  <2>3. queue' = queue /\ ~LeaveLoop /\ ~RevokeClassFactories
    BY <1>2, <2>1, <2>2 DEF LeaveLoop, RevokeClassFactories
  <2>4. phase' \notin {"left", "revoked"}
    BY <2>3 DEF RegisterClassFactories, EnableQuitMessage, CoResumeClassObjects, PumpMessages
  <2> QED BY <2>1, <2>3, <2>4
<1> QED BY <1>4, <1>5, <1>6, <1>7 DEF IInv

\* With an empty stack no call is being handled.
LEMMA NothingHandled ==
  ASSUME IInv, stack = <<>>
  PROVE  /\ \A d \in Clients : /\ call[d].stage \in Waiting /\ call[d].wrap = None /\ call[d].result = None
                               /\ call[d].dying = {} /\ ~IsWrapping(call[d]) /\ ~IsCreating(call[d])
         /\ call \in [Clients -> Call]
<1>1. \A d \in Clients : call[d].stage \in Waiting
  BY DEF IInv, Order
<1> QED BY <1>1, WaitingCall DEF IInv, Typed

LEMMA CoUninitializeStep ==
  ASSUME IInv, CoUninitialize
  PROVE  IInv'
<1>1. /\ phase' = "ended" /\ queue' = <<>> /\ stack = <<>>
      /\ call' = [c \in Clients |-> IF call[c].stage = "scm" THEN call[c] ELSE Idle]
      /\ UNCHANGED <<quitThread, lockCount, stack, gw, held, locks>>
  BY DEF CoUninitialize
<1>2. /\ \A d \in Clients : /\ call[d].stage \in Waiting /\ call[d].wrap = None /\ call[d].result = None
                            /\ call[d].dying = {} /\ ~IsWrapping(call[d]) /\ ~IsCreating(call[d])
      /\ call \in [Clients -> Call]
  BY <1>1, NothingHandled
<1>3. /\ call' \in [Clients -> Call]
      /\ \A d \in Clients : (call'[d] = call[d] /\ call[d].stage = "scm") \/ call'[d] = Idle
  BY <1>1, <1>2 DEF Idle, Call, Ops, Stages
<1>4. \A d \in Clients : /\ call'[d].stage \in {"none", "scm"} /\ call'[d].wrap = None
                         /\ call'[d].result = None /\ call'[d].dying = {}
                         /\ ~IsWrapping(call'[d]) /\ ~IsCreating(call'[d])
  BY <1>2, <1>3 DEF Idle, IsWrapping, IsCreating, Waiting
<1>5. Typed'
  BY <1>1, <1>3 DEF IInv, Typed, Phases
<1>6. Order' /\ Early'
  BY <1>1, <1>4 DEF Order, Early, Prompt, Waiting
<1>7. Calls'
  <2>1. \A d \in Clients : call'[d].stage = "scm" => call'[d].op = "create"
    BY <1>3 DEF IInv, Calls, Targeted, Idle
  <2> QED BY <1>4, <2>1 DEF Calls, Targeted, Staged
<1>8. Objects'
  BY <1>1, <1>4 DEF IInv, Objects
<1>9. RefsExact(gw', held', call')
  <2>1. \A x \in Gateways : WrappedBy(call', x) = WrappedBy(call, x) /\ ResultOf(call', x) = ResultOf(call, x)
    BY <1>2, <1>4, ServerAssumption DEF WrappedBy, ResultOf
  <2> QED BY <1>1, <2>1 DEF IInv, RefsExact, NWrap, NResult
<1>10. lockCount' = Uses(gw', call', locks')
  <2>1. WrappingOf(call') = WrappingOf(call) /\ CreatingOf(call') = CreatingOf(call)
    BY <1>2, <1>4 DEF WrappingOf, CreatingOf
  <2> QED BY <1>1, <2>1 DEF IInv, Uses, NWrapping, NCreating
<1> QED BY <1>5, <1>6, <1>7, <1>8, <1>9, <1>10 DEF IInv

\* Nothing is counted when there is no gateway, no reference and no call.
LEMMA NothingCounted ==
  ASSUME NEW K, \A d \in Clients : K[d].wrap = None /\ K[d].result = None
                                     /\ ~IsWrapping(K[d]) /\ ~IsCreating(K[d])
  PROVE  /\ RefsExact([g \in Gateways |-> Free], [c \in Clients |-> {}], K)
         /\ Uses([g \in Gateways |-> Free], K, {}) = 0
<1> DEFINE G == [g \in Gateways |-> Free]  H == [c \in Clients |-> {}]
<1>1. \A x \in Gateways : HeldBy(H, x) = {} /\ BaseOf(G, x) = {} /\ WrappedBy(K, x) = {} /\ ResultOf(K, x) = {}
  BY ServerAssumption DEF HeldBy, BaseOf, WrappedBy, ResultOf, Free
<1>2. LiveOf(G) = {} /\ KeepersOf(G) = {} /\ WrappingOf(K) = {} /\ CreatingOf(K) = {}
  BY DEF LiveOf, KeepersOf, WrappingOf, CreatingOf, Free
<1>3. Cardinality({}) = 0
  BY FS_EmptySet
<1>4. \A x \in Gateways : G[x].refs = 0
  BY DEF Free
<1> HIDE DEF G, H
<1>5. RefsExact(G, H, K)
  BY <1>1, <1>3, <1>4 DEF RefsExact, NHeld, NBase, NWrap, NResult
<1>6. Uses(G, K, {}) = 0
  BY <1>2, <1>3 DEF Uses, NLive, NKeepers, NWrapping, NCreating, NLocks
<1> QED BY <1>5, <1>6 DEF G, H

LEMMA LaunchStep ==
  ASSUME IInv, Launch
  PROVE  IInv'
<1>1. /\ phase = "ended" /\ phase' = "start" /\ quitThread' = FALSE /\ lockCount' = 0
      /\ gw' = [g \in Gateways |-> Free] /\ held' = [c \in Clients |-> {}] /\ locks' = {}
      /\ UNCHANGED <<queue, stack, call>>
  BY DEF Launch
<1>2. stack = <<>> /\ queue = <<>> /\ \A d \in Clients : call[d].stage \in {"none", "scm"}
  BY <1>1 DEF IInv, Order
<1>3. \A d \in Clients : /\ call[d].wrap = None /\ call[d].result = None /\ call[d].dying = {}
                         /\ ~IsWrapping(call[d]) /\ ~IsCreating(call[d])
  BY <1>2, NothingHandled
<1>4. Typed'
  BY <1>1 DEF IInv, Typed, Phases, Gateway, Free
<1>5. Order' /\ Early'
  BY <1>1, <1>2 DEF IInv, Order, Early, Prompt, Waiting
<1>6. Calls'
  BY <1>1, <1>2, <1>3 DEF IInv, Calls, Targeted, Staged
<1>7. Objects'
  BY <1>1, <1>3, ServerAssumption DEF Objects, Free
<1>8. RefsExact(gw', held', call') /\ Uses(gw', call', locks') = 0
  BY <1>1, <1>3, NothingCounted
<1> QED BY <1>1, <1>4, <1>5, <1>6, <1>7, <1>8 DEF IInv

(***************************************************************************)
(* The invariant.                                                          *)
(***************************************************************************)
LEMMA IInvInit == Init => IInv
<1> SUFFICES ASSUME Init PROVE IInv
  OBVIOUS
<1>1. /\ phase = "ended" /\ quitThread = FALSE /\ lockCount = 0 /\ queue = <<>> /\ stack = <<>>
      /\ call = [c \in Clients |-> Idle] /\ gw = [g \in Gateways |-> Free]
      /\ held = [c \in Clients |-> {}] /\ locks = {}
  BY DEF Init
<1>2. \A d \in Clients : /\ call[d].wrap = None /\ call[d].result = None /\ call[d].dying = {}
                         /\ call[d].stage = "none" /\ call[d].op = "create"
                         /\ ~IsWrapping(call[d]) /\ ~IsCreating(call[d])
  BY <1>1 DEF Idle, IsWrapping, IsCreating, Waiting
<1>3. Typed
  <2>1. Free \in Gateway /\ Idle \in Call
    BY DEF Gateway, Free, Idle, Call, Ops, Stages
  <2>2. queue \in Seq(Clients \cup {Quit}) /\ stack \in Seq(Clients)
    BY <1>1
  <2> QED BY <1>1, <2>1, <2>2 DEF Typed, Phases
<1>4. Order /\ Early
  BY <1>1, <1>2 DEF Order, Early, Prompt, Waiting
<1>5. Calls
  BY <1>2 DEF Calls, Targeted, Staged
<1>6. Objects
  BY <1>1, <1>2, ServerAssumption DEF Objects, Free
<1>7. RefsExact(gw, held, call) /\ Uses(gw, call, locks) = 0
  BY <1>1, <1>2, NothingCounted
<1> QED BY <1>1, <1>3, <1>4, <1>5, <1>6, <1>7 DEF IInv

LEMMA IInvStep == IInv /\ [Next]_vars => IInv'
<1> SUFFICES ASSUME IInv, [Next]_vars PROVE IInv'
  OBVIOUS
<1>1. CASE UNCHANGED vars
  BY <1>1 DEF vars, IInv, Typed, Order, Early, Prompt, Calls, Targeted, Staged, Objects, Queued
<1>2. CASE Serve
  BY <1>2, ServeStep, CoUninitializeStep DEF Serve
<1>3. CASE Launch
  BY <1>3, LaunchStep
<1>4. ASSUME NEW c \in Clients, Activate(c) \/ Deliver(c) \/ Send(c) PROVE IInv'
  BY <1>4, ActivateStep, DeliverStep, SendStep
<1>5. ASSUME NEW c \in Clients, Handle(c) PROVE IInv'
  <2>1. PICK i \in DOMAIN queue : /\ queue[i] = c
                                  /\ \/ HandlePython(c, i) \/ HandleLockServer(c, i)
                                     \/ HandleUnknown(c, i) \/ HandleRelease(c, i)
    BY <1>5 DEF Handle
  <2>2. UNCHANGED <<phase, quitThread>>
    BY <1>5 DEF Handle
  <2> QED BY <2>1, <2>2, HandlePythonStep, HandleLockServerStep, HandleUnknownStep, HandleReleaseStep
<1>6. ASSUME NEW c \in Clients, Body(c) PROVE IInv'
  <2>1. Rest
    BY <1>6 DEF Body, Rest
  <2> QED BY <1>6, <2>1, StageStep, WrapObjectStep, InterfaceIsOwnStep, InterfaceIsNewStep,
             DropWrapperStep, QuerySupportedStep, CallbackStep, DeleteInstanceStep,
             DeleteDoneStep DEF Body
<1>7. ASSUME NEW c \in Clients, Return(c) PROVE IInv'
  BY <1>7, ReturnStep
<1> QED BY <1>1, <1>2, <1>3, <1>4, <1>5, <1>6, <1>7 DEF Next

\* The invariant of the server: references, calls and the lock count are what the
\* pointers, messages and gateways that exist make them (PyGatewayBase, PyFactory).
THEOREM SpecIInv == Spec => []IInv
BY IInvInit, IInvStep, PTL DEF Spec

(***************************************************************************)
(* The results.                                                            *)
(***************************************************************************)
\* The types of the variables (the state that dllmain.cpp, PyGatewayBase.cpp
\* and localserver.py keep).
THEOREM SpecTypeOK == Spec => []TypeOK
<1>1. IInv => TypeOK
  BY UsesType DEF IInv, Typed, TypeOK
<1> QED BY <1>1, SpecIInv, PTL

\* g_cLockCount is exactly the number of gateways, wrappers, locks and
\* activations in progress: every PyCom_DLLAddRef has its PyCom_DLLReleaseRef.
THEOREM SpecCountHeld == Spec => []CountHeld
<1>1. IInv => CountHeld
  <2>1. Live = LiveOf(gw) /\ Keepers = KeepersOf(gw) /\ Wrapping = WrappingOf(call)
        /\ Creating = CreatingOf(call)
    BY DEF Live, LiveOf, Keepers, KeepersOf, Wrapping, WrappingOf, IsWrapping,
           Creating, CreatingOf, IsCreating, Waiting
  <2> QED BY <2>1 DEF IInv, CountHeld, Uses, NLive, NKeepers, NWrapping, NCreating, NLocks
<1> QED BY <1>1, SpecIInv, PTL

\* No client, gateway, wrapper or result has a pointer to a gateway that
\* PyGatewayBase::Release has deleted or is deleting.
THEOREM SpecNoUseAfterDelete == Spec => []NoUseAfterDelete
<1>1. IInv => NoUseAfterDelete
  <2> SUFFICES ASSUME IInv PROVE NoUseAfterDelete
    OBVIOUS
  <2>1. ASSUME NEW c \in Clients, NEW g \in held[c] \cup ({call[c].wrap, call[c].result} \ {None})
        PROVE  gw[g].alive /\ gw[g].refs > 0
    <3>1. held[c] \subseteq Gateways /\ call[c] \in Call
      BY DEF IInv, Typed
    <3>2. g \in Gateways /\ (g \in held[c] \/ call[c].wrap = g \/ call[c].result = g)
      BY <3>1 DEF Call
    <3> QED BY <3>2, Pointed
  <2>2. ASSUME NEW g \in Gateways, gw[g].base # None
        PROVE  gw[gw[g].base].refs > 0
    <3>1. gw[g].base \in Gateways
      BY <2>2 DEF IInv, Typed, Gateway
    <3> QED BY <3>1, Pointed
  <2> QED BY <2>1, <2>2 DEF NoUseAfterDelete
<1> QED BY <1>1, SpecIInv, PTL

\* A count of zero means that nothing uses the server.
CountTells == lockCount = 0 => ~InUse

LEMMA ZeroMeansUnused == IInv => CountTells
<1> SUFFICES ASSUME IInv, lockCount = 0 PROVE ~InUse
  BY DEF CountTells
<1>1. /\ Live = LiveOf(gw) /\ Keepers = KeepersOf(gw) /\ Wrapping = WrappingOf(call)
      /\ Creating = CreatingOf(call)
  BY DEF Live, LiveOf, Keepers, KeepersOf, Wrapping, WrappingOf, IsWrapping,
         Creating, CreatingOf, IsCreating, Waiting
<1>2. Uses(gw, call, locks) = 0 /\ locks \in SUBSET Clients
  BY DEF IInv, Typed
<1> QED BY <1>1, <1>2, UsesType DEF InUse

\* And with nothing in use it is zero.
LEMMA UnusedMeansZero == ASSUME IInv, ~InUse PROVE lockCount = 0
<1>1. /\ Live = LiveOf(gw) /\ Keepers = KeepersOf(gw) /\ Wrapping = WrappingOf(call)
      /\ Creating = CreatingOf(call)
  BY DEF Live, LiveOf, Keepers, KeepersOf, Wrapping, WrappingOf, IsWrapping,
         Creating, CreatingOf, IsCreating, Waiting
<1>2. /\ NLive(gw) = 0 /\ NKeepers(gw) = 0 /\ NWrapping(call) = 0 /\ NCreating(call) = 0
      /\ NLocks(locks) = 0
  BY <1>1, FS_EmptySet DEF InUse, NLive, NKeepers, NWrapping, NCreating, NLocks
<1> QED BY <1>2 DEF IInv, Uses

\* WM_QUIT is posted by the step of a call, and only with a count of zero.
LEMMA PostedStep ==
  ASSUME IInv, [Next]_vars, Quit \notin Queued, Quit \in Queued'
  PROVE  lockCount' = 0 /\ (stack # <<>> \/ stack' # <<>>)
<1>1. queue \in Seq(Clients \cup {Quit}) /\ queue' # queue /\ DOMAIN queue = 1..Len(queue) /\ Len(queue) \in Nat
  BY DEF IInv, Typed, Queued
<1>2. \A i \in DOMAIN queue : queue[i] # Quit
  BY DEF Queued
<1>3. \E i \in DOMAIN queue' : queue'[i] = Quit
  BY DEF Queued
<1>4. CASE Serve
  <2>1. CASE RegisterClassFactories
    BY <1>1, <2>1 DEF RegisterClassFactories, PostQuit, IInv, Order
  <2>2. CASE LeaveLoop
    <3>1. queue # <<>> /\ queue' = Tail(queue)
      BY <2>2 DEF LeaveLoop
    <3>2. /\ DOMAIN queue' = 1..(Len(queue) - 1)
          /\ \A i \in 1..(Len(queue) - 1) : queue'[i] = queue[i + 1] /\ i + 1 \in 1..Len(queue)
      <4> DEFINE n == Len(queue)
      <4>1. queue \in Seq(Clients \cup {Quit}) /\ n \in Nat /\ n # 0
        <5>1. queue \in Seq(Clients \cup {Quit}) /\ queue # <<>>
          BY <1>1, <3>1
        <5> QED BY ONLY <5>1
      <4>2. \A i \in 1..(n - 1) : Tail(queue)[i] = queue[i + 1] /\ i + 1 \in 1..n
        BY <4>1
      <4>3. Len(Tail(queue)) = n - 1 /\ Tail(queue) \in Seq(Clients \cup {Quit})
        BY <3>1, <4>1
      <4>4. DOMAIN Tail(queue) = 1..(n - 1)
        BY <4>3
      <4> QED BY <3>1, <4>2, <4>4
    <3> QED BY <1>1, <1>2, <1>3, <3>2
  <2>3. CASE CoUninitialize
    BY <1>3, <2>3 DEF CoUninitialize
  <2>4. CASE EnableQuitMessage \/ CoResumeClassObjects \/ PumpMessages \/ RevokeClassFactories
    BY <1>1, <2>4 DEF EnableQuitMessage, CoResumeClassObjects, PumpMessages, RevokeClassFactories
  <2> QED BY <1>4, <2>1, <2>2, <2>3, <2>4 DEF Serve
<1>5. CASE Launch
  BY <1>1, <1>5 DEF Launch
<1>6. ASSUME NEW c \in Clients, Activate(c) \/ Deliver(c) \/ Send(c)
      PROVE  lockCount' = 0 /\ (stack # <<>> \/ stack' # <<>>)
  <2>1. queue' = queue \/ queue' = Append(queue, c)
    BY <1>6 DEF Activate, Deliver, Send
  <2>2. c # Quit
    BY ServerAssumption
  <2>3. \A i \in DOMAIN Append(queue, c) : Append(queue, c)[i] # Quit
    BY <1>1, <1>2, <2>2
  <2> QED BY <1>1, <1>3, <2>1, <2>3
<1>7. ASSUME NEW c \in Clients, Handle(c)
      PROVE  lockCount' = 0 /\ (stack # <<>> \/ stack' # <<>>)
  <2>1. PICK i \in DOMAIN queue : /\ queue[i] = c
                                  /\ \/ HandlePython(c, i) \/ HandleLockServer(c, i)
                                     \/ HandleUnknown(c, i) \/ HandleRelease(c, i)
    BY <1>7 DEF Handle
  <2>2. stack' # <<>>
    <3>1. stack' = Append(stack, c) /\ stack \in Seq(Clients)
      BY <2>1 DEF HandlePython, HandleLockServer, HandleUnknown, HandleRelease, Begin, IInv, Typed
    <3> QED BY <3>1
  <2>3. lockCount' = 0 \/ queue' = Without(i)
    BY <2>1, Zenon DEF HandlePython, HandleLockServer, HandleUnknown, HandleRelease, DLLReleaseRef
  <2>4. queue' # Without(i)
    <3>1. /\ Without(i) \in Seq(Clients \cup {Quit}) /\ Len(Without(i)) = Len(queue) - 1
          /\ \A j \in 1..(Len(queue) - 1) : \E k \in DOMAIN queue : Without(i)[j] = queue[k]
      BY <1>2, <2>1, WithoutOne DEF IInv
    <3>2. DOMAIN Without(i) = 1..(Len(queue) - 1)
      BY <3>1
    <3> QED BY <1>2, <1>3, <3>1, <3>2
  <2> QED BY <2>2, <2>3, <2>4
<1>8. ASSUME NEW c \in Clients, Body(c) \/ Return(c)
      PROVE  lockCount' = 0 /\ (stack # <<>> \/ stack' # <<>>)
  <2>1. stack # <<>>
    BY <1>8 DEF Body, Return, NoResult, WrapObject, InterfaceIsOwn, InterfaceIsNew, NoInterface,
                DropWrapper, WrapperGone, QuerySupported, KeepCallback, DropCallback,
                DeleteInstance, DeleteDone, Deleting, At, Top
  <2>2. queue' = queue \/ \E n : DLLReleaseRef(n, queue)
    <3>1. CASE Return(c)
      BY <3>1, Zenon DEF Return
    <3>2. CASE Body(c)
      <4>1. \/ queue' = queue \/ WrapperGone(c) \/ DropCallback(c)
            \/ DeleteInstance(c) \/ DeleteDone(c)
        BY <3>2 DEF Body, NoResult, WrapObject, InterfaceIsOwn, InterfaceIsNew, NoInterface,
                    DropWrapper, QuerySupported, KeepCallback
      <4> QED BY <4>1, Zenon DEF WrapperGone, DropCallback, DeleteInstance, DeleteDone
    <3> QED BY <1>8, <3>1, <3>2
  <2>3. lockCount' = 0
    BY <1>1, <2>2, Zenon DEF DLLReleaseRef
  <2> QED BY <2>1, <2>3
<1> QED BY <1>1, <1>4, <1>5, <1>6, <1>7, <1>8 DEF Next, vars

\* PyCom_DLLReleaseRef posts WM_QUIT only when nothing uses the server, and
\* the calls that fail when the process ends came after it.
THEOREM SpecQuitWhenUnused == Spec => QuitWhenUnused
<1>1. IInv /\ IInv' /\ CountTells' /\ [Next]_vars => [PostedWhenUnused /\ EarlyHandled]_vars
  <2> SUFFICES ASSUME IInv, IInv', CountTells', [Next]_vars PROVE PostedWhenUnused /\ EarlyHandled
    OBVIOUS
  <2>1. PostedWhenUnused
    <3> SUFFICES ASSUME Quit \notin Queued, Quit \in Queued'
                 PROVE  stack \o stack' # <<>> /\ ~InUse'
      BY DEF PostedWhenUnused
    <3>1. lockCount' = 0 /\ (stack # <<>> \/ stack' # <<>>)
      BY PostedStep
    <3>2. stack \in Seq(Clients) /\ stack' \in Seq(Clients)
      BY DEF IInv, Typed
    <3>3. stack \o stack' # <<>>
      BY <3>1, <3>2
    <3>4. ~InUse'
      BY <3>1 DEF CountTells
    <3> QED BY <3>3, <3>4
  <2>2. EarlyHandled
    BY DEF EarlyHandled, CoUninitialize, IInv, Early, Prompt
  <2> QED BY <2>1, <2>2
<1> QED BY <1>1, ZeroMeansUnused, SpecIInv, PTL DEF Spec, QuitWhenUnused
(***************************************************************************)
(* The server is told to end.                                              *)
(***************************************************************************)
\* An activation that the service control manager has, or that is in the queue.
OnItsWay(c) == \/ call[c].stage = "scm"
               \/ call[c].op = "create" /\ call[c].stage = "queued"

Starting == {"start", "registered", "enabled"}
Working == {"resuming", "pumping"}

\* No call is handled before CoResumeClassObjects, and EnableQuitMessage was
\* called before it.
Begun == /\ phase \in Starting => stack = <<>>
         /\ phase \in {"enabled"} \cup Working => quitThread

Told == phase \in Starting \cup Working =>
          lockCount # 0 \/ Quit \in Queued \/ \E c \in Clients : OnItsWay(c)

TInv == Begun /\ Told

\* A server that is running and that nothing uses has been told to quit, or
\* somebody is coming who will use it.
UnusedIsTold == phase \in Starting \cup Working /\ ~InUse =>
                  Quit \in Queued \/ \E c \in Clients : OnItsWay(c)

\* A step of the call of client c: the count is not zero after it, or WM_QUIT
\* is in the queue, or it is as it was, with the same activations on their way.
LEMMA CallTells ==
  ASSUME TInv, NEW c \in Clients, NEW n \in Nat, NEW q \in Seq(Clients \cup {Quit}),
         Quit \in Queued => \E i \in DOMAIN q : q[i] = Quit,
         \A d \in Clients \ {c} : call'[d] = call[d],
         OnItsWay(c) => lockCount' # 0,
         UNCHANGED <<phase, quitThread>>, phase \notin Starting,
         lockCount \in Nat,
         \/ lockCount' # 0
         \/ DLLReleaseRef(n, q)
         \/ lockCount' = lockCount /\ queue' = q
  PROVE  TInv'
<1>1. Begun'
  BY DEF TInv, Begun, Starting
<1>2. ASSUME phase \in Working, lockCount' = 0
      PROVE  Quit \in Queued' \/ \E d \in Clients : OnItsWay(d)'
  <2>1. quitThread
    BY <1>2 DEF TInv, Begun
  <2>2. CASE lockCount = 0 /\ queue' = q
    <3>1. Quit \in Queued \/ \E d \in Clients : OnItsWay(d)
      BY <1>2, <2>2 DEF TInv, Told
    <3>2. ASSUME NEW d \in Clients, OnItsWay(d) PROVE OnItsWay(d)'
      BY <1>2, <3>2 DEF OnItsWay
    <3>3. Quit \in Queued => Quit \in Queued'
      BY <2>2 DEF Queued
    <3> QED BY <3>1, <3>2, <3>3
  <2>3. CASE queue' = PostQuit(q)
    <3>1. CASE Quit \in Queued
      <4>1. queue' = q
        BY <2>3, <3>1 DEF PostQuit
      <4> QED BY <3>1, <4>1 DEF Queued
    <3>2. CASE Quit \notin Queued
      <4>1. queue' = Append(q, Quit)
        BY <2>1, <2>3, <3>2 DEF PostQuit
      <4>2. Len(q) + 1 \in DOMAIN queue' /\ queue'[Len(q) + 1] = Quit
        BY <4>1
      <4> QED BY <4>2 DEF Queued
    <3> QED BY <3>1, <3>2
  <2>4. \/ lockCount' = lockCount /\ queue' = q
        \/ lockCount' = lockCount - n /\ queue' = IF n > 0 /\ lockCount' = 0 THEN PostQuit(q) ELSE q
    BY <1>2 DEF DLLReleaseRef
  <2>5. n > 0 \/ n = 0
    OBVIOUS
  <2>6. n = 0 => lockCount - n = lockCount
    OBVIOUS
  <2> QED BY <1>2, <2>2, <2>3, <2>4, <2>5, <2>6
<1>3. Told'
  BY <1>2 DEF Told
<1> QED BY <1>1, <1>3 DEF TInv

\* WM_QUIT is still there when another message has been taken out.
LEMMA QuitStays ==
  ASSUME Typed, Order, NEW i \in DOMAIN queue, queue[i] # Quit, Quit \in Queued
  PROVE  \E j \in DOMAIN Without(i) : Without(i)[j] = Quit
<1>1. PICK k \in DOMAIN queue : queue[k] = Quit
  BY DEF Queued
<1>2. /\ Without(i) \in Seq(Clients \cup {Quit}) /\ Len(Without(i)) = Len(queue) - 1
      /\ Len(queue) \in Nat \ {0} /\ i \in 1..Len(queue)
      /\ \A j \in 1..(Len(queue) - 1) : Without(i)[j] = IF j < i THEN queue[j] ELSE queue[j + 1]
  BY WithoutOne
<1>3. DOMAIN Without(i) = 1..(Len(queue) - 1) /\ k \in 1..Len(queue) /\ k # i
  BY <1>1, <1>2 DEF Typed
<1>4. CASE k < i
  <2>1. k \in 1..(Len(queue) - 1)
    BY <1>2, <1>3, <1>4
  <2> QED BY <1>1, <1>2, <1>3, <1>4, <2>1
<1>5. CASE k > i
  <2>1. k - 1 \in 1..(Len(queue) - 1) /\ ~(k - 1 < i) /\ (k - 1) + 1 = k
    BY <1>2, <1>3, <1>5
  <2> QED BY <1>1, <1>2, <1>3, <2>1
<1> QED BY <1>2, <1>3, <1>4, <1>5

LEMMA HandleTells ==
  ASSUME IInv, TInv, NEW c \in Clients, Handle(c)
  PROVE  TInv'
<1>1. PICK i \in DOMAIN queue : /\ CanHandle(i) /\ queue[i] = c
                                /\ \/ HandlePython(c, i) \/ HandleLockServer(c, i)
                                   \/ HandleUnknown(c, i) \/ HandleRelease(c, i)
  BY DEF Handle
<1>2. UNCHANGED <<phase, quitThread>>
  BY DEF Handle
<1>3. /\ Typed /\ Order /\ c # Quit /\ call[c].stage = "queued" /\ lockCount \in Nat
      /\ call \in [Clients -> Call]
  <2>1. Typed /\ Order /\ c # Quit
    BY ServerAssumption DEF IInv
  <2>2. lockCount \in Nat
    BY <2>1, UsesType DEF IInv, Typed
  <2> QED BY <1>1, <2>1, <2>2 DEF Order, Typed
<1>4. Without(i) \in Seq(Clients \cup {Quit}) /\ (Quit \in Queued => \E j \in DOMAIN Without(i) : Without(i)[j] = Quit)
  BY <1>1, <1>3, WithoutOne, QuitStays
<1>5. phase \notin Starting
  BY <1>1 DEF CanHandle, Modal, TInv, Begun, Starting
<1>6. \A d \in Clients \ {c} : call'[d] = call[d]
  BY <1>1, <1>3 DEF HandlePython, HandleLockServer, HandleUnknown, HandleRelease, Begin
<1>7. CASE HandlePython(c, i)
  <2>1. lockCount' = lockCount + TemporaryLock(c) /\ queue' = Without(i)
    BY <1>7 DEF HandlePython, DLLAddRef
  <2>2. CASE call[c].op = "create"
    <3>1. lockCount' # 0
      BY <1>3, <2>1, <2>2 DEF TemporaryLock
    <3> QED BY <1>2, <1>3, <1>4, <1>5, <1>6, <3>1, CallTells
  <2>3. CASE call[c].op # "create"
    <3>1. lockCount' = lockCount /\ ~OnItsWay(c)
      BY <1>3, <2>1, <2>3 DEF TemporaryLock, OnItsWay
    <3> QED BY <1>2, <1>3, <1>4, <1>5, <1>6, <2>1, <3>1, CallTells
  <2> QED BY <2>2, <2>3
<1>8. CASE ~HandlePython(c, i)
  <2>1. ~OnItsWay(c)
    BY <1>1, <1>3, <1>8 DEF OnItsWay, HandleLockServer, HandleUnknown, HandleRelease
  <2>2. \/ lockCount' = lockCount + 1
        \/ DLLReleaseRef(0, Without(i)) \/ DLLReleaseRef(1, Without(i))
        \/ lockCount' = lockCount /\ queue' = Without(i)
    BY <1>1, <1>8, Zenon DEF HandleLockServer, HandleUnknown, HandleRelease, DLLAddRef
  <2>3. lockCount' = lockCount + 1 => lockCount' # 0
    BY <1>3
  <2> QED BY <1>2, <1>3, <1>4, <1>5, <1>6, <2>1, <2>2, <2>3, CallTells
<1> QED BY <1>7, <1>8

LEMMA BodyTells ==
  ASSUME IInv, TInv, NEW c \in Clients, Body(c) \/ Return(c)
  PROVE  TInv'
<1>1. UNCHANGED <<phase, quitThread>>
  BY DEF Body, Return
<1>2. Top(c) /\ (call[c].dying # {} \/ call[c].stage \in {"python", "made", "drop", "dropped", "done"})
  BY DEF Body, Return, NoResult, WrapObject, InterfaceIsOwn, InterfaceIsNew, NoInterface,
         DropWrapper, WrapperGone, QuerySupported, KeepCallback, DropCallback,
         DeleteInstance, DeleteDone, Deleting, At
<1>3. phase \notin Starting
  BY <1>2 DEF Top, TInv, Begun
<1>4. call[c].stage \in {"python", "made", "drop", "dropped", "done"} /\ ~OnItsWay(c)
  <2>1. call[c].dying # {} => call[c].stage \in {"dropped", "done"}
    BY DEF IInv, Calls, Staged
  <2> QED BY <1>2, <2>1 DEF OnItsWay
<1>5. /\ queue \in Seq(Clients \cup {Quit}) /\ lockCount \in Nat /\ call \in [Clients -> Call]
      /\ Quit \in Queued => \E i \in DOMAIN queue : queue[i] = Quit
  BY UsesType DEF IInv, Typed, Queued
<1>6. \A d \in Clients \ {c} : call'[d] = call[d]
  BY <1>5 DEF Body, Return, NoResult, WrapObject, InterfaceIsOwn, InterfaceIsNew, NoInterface,
         DropWrapper, WrapperGone, QuerySupported, KeepCallback, DropCallback,
         DeleteInstance, DeleteDone, Goto
<1>7. \/ lockCount' = lockCount + 1 \/ lockCount' = lockCount + 2
      \/ lockCount' = lockCount /\ queue' = queue
      \/ \E n \in Nat : DLLReleaseRef(n, queue)
  <2>1. CASE Return(c)
    <3>1. TemporaryLock(c) \in Nat
      BY DEF TemporaryLock
    <3> QED BY <2>1, <3>1, Zenon DEF Return
  <2>2. CASE DeleteDone(c)
    <3>1. Cardinality(call[c].dying) \in Nat
      BY <1>5, Finite DEF Call
    <3> QED BY <2>2, <3>1, Zenon DEF DeleteDone
  <2>3. CASE WrapperGone(c) \/ DropCallback(c) \/ DeleteInstance(c)
    <3>1. DLLReleaseRef(1, queue)
      BY <2>3, Zenon DEF WrapperGone, DropCallback, DeleteInstance
    <3> QED BY <3>1
  <2>4. CASE \/ NoResult(c) \/ WrapObject(c) \/ InterfaceIsOwn(c) \/ InterfaceIsNew(c)
             \/ NoInterface(c) \/ DropWrapper(c) \/ QuerySupported(c) \/ KeepCallback(c)
    BY <2>4 DEF NoResult, WrapObject, InterfaceIsOwn, InterfaceIsNew, NoInterface,
                DropWrapper, QuerySupported, KeepCallback, DLLAddRef
  <2> QED BY <2>1, <2>2, <2>3, <2>4 DEF Body
<1>8. lockCount + 1 # 0 /\ lockCount + 2 # 0
  BY <1>5
<1>9. CASE lockCount' # 0 \/ (lockCount' = lockCount /\ queue' = queue)
  BY <1>1, <1>3, <1>4, <1>5, <1>6, <1>9, CallTells
<1>10. ASSUME NEW n \in Nat, DLLReleaseRef(n, queue) PROVE TInv'
  BY <1>1, <1>3, <1>4, <1>5, <1>6, <1>10, CallTells
<1> QED BY <1>7, <1>8, <1>9, <1>10

LEMMA ClientTells ==
  ASSUME IInv, TInv, NEW c \in Clients, Activate(c) \/ Deliver(c) \/ Send(c)
  PROVE  TInv'
<1>1. UNCHANGED <<phase, quitThread, lockCount, stack>>
  BY DEF Activate, Deliver, Send
<1>2. call \in [Clients -> Call] /\ queue \in Seq(Clients \cup {Quit})
  BY DEF IInv, Typed
<1>3. Quit \in Queued => Quit \in Queued'
  <2>1. queue' = queue \/ queue' = Append(queue, c)
    BY DEF Activate, Deliver, Send
  <2>2. ASSUME NEW i \in DOMAIN queue, queue' = Append(queue, c)
        PROVE  i \in DOMAIN queue' /\ queue'[i] = queue[i]
    BY <1>2, <2>2
  <2> QED BY <2>1, <2>2 DEF Queued
<1>4. ASSUME NEW d \in Clients, OnItsWay(d) PROVE OnItsWay(d)'
  <2>1. CASE Activate(c) \/ Send(c)
    <3>1. d # c /\ call'[d] = call[d]
      BY <1>2, <1>4, <2>1 DEF Activate, Send, OnItsWay
    <3> QED BY <1>4, <3>1 DEF OnItsWay
  <2>2. CASE Deliver(c)
    <3>1. CASE d = c
      <4>1. call[c].op = "create"
        BY <2>2 DEF Deliver, IInv, Calls, Targeted
      <4>2. call'[c].op = call[c].op /\ call'[c].stage = "queued"
        BY <1>2, <2>2 DEF Deliver, Call
      <4> QED BY <3>1, <4>1, <4>2 DEF OnItsWay
    <3>2. CASE d # c
      <4>1. call'[d] = call[d]
        BY <1>2, <2>2, <3>2 DEF Deliver
      <4> QED BY <1>4, <4>1 DEF OnItsWay
    <3> QED BY <3>1, <3>2
  <2> QED BY <2>1, <2>2
<1> QED BY <1>1, <1>3, <1>4 DEF TInv, Begun, Told

LEMMA ServeTells ==
  ASSUME IInv, TInv, Serve \/ Launch
  PROVE  TInv'
<1> USE DEF TInv, Begun, Told, Starting, Working
<1>1. CASE RegisterClassFactories
  <2>1. ~quitThread
    BY <1>1 DEF RegisterClassFactories, IInv, Order
  <2>2. queue' = queue
    BY <1>1, <2>1 DEF RegisterClassFactories, PostQuit
  <2> QED BY <1>1, <2>2 DEF RegisterClassFactories, Queued, OnItsWay
<1>2. CASE EnableQuitMessage \/ CoResumeClassObjects \/ PumpMessages
  BY <1>2 DEF EnableQuitMessage, CoResumeClassObjects, PumpMessages, Queued, OnItsWay
<1>3. CASE LeaveLoop \/ RevokeClassFactories \/ CoUninitialize
  BY <1>3 DEF LeaveLoop, RevokeClassFactories, CoUninitialize
<1>4. CASE Launch
  <2>1. PICK c \in Clients : call[c].stage = "scm"
    BY <1>4 DEF Launch
  <2>2. stack = <<>>
    BY <1>4 DEF Launch, IInv, Order
  <2> QED BY <1>4, <2>1, <2>2 DEF Launch, OnItsWay
<1> QED BY <1>1, <1>2, <1>3, <1>4 DEF Serve

\* PyCom_DLLReleaseRef tells a server that nothing uses any more to quit, from
\* EnableQuitMessage on: the only other case is that an activation is coming.
THEOREM SpecUnusedIsTold == Spec => []UnusedIsTold
<1>1. Init => TInv
  BY DEF Init, TInv, Begun, Told, Starting, Working
<1>2. IInv /\ TInv /\ [Next]_vars => TInv'
  <2> SUFFICES ASSUME IInv, TInv, [Next]_vars PROVE TInv'
    OBVIOUS
  <2>1. CASE UNCHANGED vars
    BY <2>1 DEF vars, TInv, Begun, Told, Queued, OnItsWay
  <2> QED BY <2>1, ServeTells, ClientTells, HandleTells, BodyTells DEF Next
<1>3. IInv /\ TInv => UnusedIsTold
  BY UnusedMeansZero DEF TInv, Told, UnusedIsTold
<1> QED BY <1>1, <1>2, <1>3, SpecIInv, PTL DEF Spec
=============================================================================
