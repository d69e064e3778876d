---------------------------- MODULE SessionProofs ----------------------------
(***************************************************************************)
(* Sessions for any tabs, sessions and calls: a sign-out forgets, and a    *)
(* live session leaves the storage for a reason.                           *)
(***************************************************************************)
EXTENDS Session, FiniteSetTheorems, TLAPS

(* Logins that have no session yet; SubmitLogin leaves room for them.      *)
Pending == {c \in calls : c.kind = "login" /\ c.new = None}

Room == IsFiniteSet(calls) /\ issued + Cardinality(Pending) <= MaxSessions

Given == {None} \cup 1..issued

KnownInv ==
    /\ \A c \in calls : /\ c.token \in Given /\ c.new \in Given
                        /\ c.answer = "none" => c.new = None
                        /\ c.new # None => c.kind = "login"
                        /\ c.kind = "query" /\ c.answer = "denied" => c.token \in ended
                        /\ c.kind = "query" /\ c.answer = "ok" => c.token # None
    /\ \A t \in Tabs : cache[t] \cup confirmed[t] \subseteq Given

(* A session that a login was answered with is in no other place until the *)
(* answer is taken: nobody has stored, used or signed it out yet.          *)
FreshInv ==
    /\ \A c, d \in calls : c.new # None /\ c.new = d.new => c = d
    /\ \A c \in calls : c.new # None =>
          /\ stored # c.new
          /\ \A d \in calls : d.token # c.new
          /\ \A t \in Tabs : c.new \notin cache[t] \cup confirmed[t]

SigningOut(t) == \E c \in calls : c.tab = t /\ c.kind = "logout"

(* After a sign-out the queries under way no longer reach the cache.       *)
Gone(t, k) ==
    /\ stored # k /\ k \notin cache[t]
    /\ \A c \in calls : c.tab = t /\ c.kind = "query" /\ c.token = k => c.dropped

ForgetInv == \A t \in Tabs : \A k \in confirmed[t] : SigningOut(t) \/ Gone(t, k)

IInv == TypeOK /\ Room /\ KnownInv /\ FreshInv /\ ForgetInv

-----------------------------------------------------------------------------
(* Calls that go on, some without anyone who asks for their answer         *)
CallsBecome(S, D) == calls' = {IF c \in D THEN [c EXCEPT !.dropped = TRUE] ELSE c : c \in S}

Kept(c, d) ==
    /\ d \in Call /\ d.tab = c.tab /\ d.kind = c.kind /\ d.token = c.token
    /\ d.answer = c.answer /\ d.new = c.new /\ (c.dropped => d.dropped)

LEMMA DropKeeps ==
    ASSUME NEW c \in Call
    PROVE  LET d == [c EXCEPT !.dropped = TRUE] IN Kept(c, d) /\ d.dropped
<1>1. ASSUME NEW d, d = [c EXCEPT !.dropped = TRUE] PROVE Kept(c, d) /\ d.dropped
  <2>1. /\ d.tab = c.tab /\ d.kind = c.kind /\ d.token = c.token
        /\ d.answer = c.answer /\ d.new = c.new /\ d.dropped = TRUE
    BY <1>1 DEF Call
  <2>2. d \in Call
    BY <1>1 DEF Call
  <2>. QED
    BY <2>1, <2>2 DEF Kept
<1>. QED
  BY <1>1

LEMMA ImageFinite ==
    ASSUME NEW S, IsFiniteSet(S), NEW f, DOMAIN f = S
    PROVE  /\ IsFiniteSet({f[x] : x \in S})
           /\ Cardinality({f[x] : x \in S}) <= Cardinality(S)
<1> DEFINE T == {f[x] : x \in S}
           g == [x \in S |-> f[x]]
<1>1. g \in [S -> T] /\ \A y \in T : \E x \in S : g[x] = y
  OBVIOUS
<1>2. g \in Surjection(S, T)
  BY <1>1 DEF Surjection
<1>. HIDE DEF T, g
<1>3. IsFiniteSet(T) /\ Cardinality(T) <= Cardinality(S)
  BY <1>2, FS_Surjection
<1>. QED
  BY <1>3 DEF T

(* What the calls of S became, with a name for each                        *)
LEMMA CallsMean ==
    ASSUME TypeOK, Room, NEW S \in SUBSET calls, NEW D, CallsBecome(S, D)
    PROVE  \E f : /\ DOMAIN f = S /\ calls' = {f[c] : c \in S}
                  /\ \A c \in S : Kept(c, f[c]) /\ (c \in D => f[c].dropped) /\ (c \notin D => f[c] = c)
                  /\ IsFiniteSet(calls') /\ IsFiniteSet(Pending')
                  /\ Cardinality(Pending') \in Nat /\ Cardinality(Pending') <= Cardinality(Pending)
                  /\ calls' \subseteq Call
<1> DEFINE f == [c \in S |-> IF c \in D THEN [c EXCEPT !.dropped = TRUE] ELSE c]
           P == {c \in S : c.kind = "login" /\ c.new = None}
           g == [c \in P |-> f[c]]
<1>1. \A c \in S : c \in Call
  BY DEF TypeOK
<1>2. \A c \in S : Kept(c, c)
  BY <1>1 DEF Kept
<1>3. \A c \in S : Kept(c, f[c]) /\ (c \in D => f[c].dropped) /\ (c \notin D => f[c] = c)
  BY <1>1, <1>2, DropKeeps
<1>4. DOMAIN f = S /\ calls' = {f[c] : c \in S}
  BY DEF CallsBecome
<1>. HIDE DEF f
<1>5. Pending' = {g[c] : c \in P}
  <2>1. \A c \in P : g[c] = f[c]
    OBVIOUS
  <2>2. \A c \in S : f[c].kind = c.kind /\ f[c].new = c.new
    BY <1>3 DEF Kept
  <2>3. ASSUME NEW d \in Pending' PROVE d \in {g[c] : c \in P}
    <3>1. d \in calls' /\ d.kind = "login" /\ d.new = None
      BY DEF Pending
    <3>2. PICK c \in S : d = f[c]
      BY <1>4, <3>1
    <3>3. c \in P
      BY <2>2, <3>1, <3>2
    <3>. QED
      BY <2>1, <3>2, <3>3
  <2>4. ASSUME NEW c \in P PROVE g[c] \in Pending'
    <3>1. c \in S /\ c.kind = "login" /\ c.new = None
      OBVIOUS
    <3>2. f[c] \in calls' /\ f[c].kind = "login" /\ f[c].new = None
      BY <1>4, <2>2, <3>1
    <3>3. f[c] \in Pending'
      BY <3>2 DEF Pending
    <3>. QED
      BY <2>1, <3>3
  <2>. HIDE DEF g, P
  <2>. QED
    BY <2>3, <2>4
<1>6. IsFiniteSet(S) /\ IsFiniteSet(Pending) /\ P \in SUBSET Pending
  BY FS_Subset DEF Room, Pending
<1>7. IsFiniteSet(P) /\ Cardinality(P) <= Cardinality(Pending)
  BY <1>6, FS_Subset
<1>8. IsFiniteSet(calls')
  BY <1>4, <1>6, ImageFinite
<1>9. DOMAIN g = P
  OBVIOUS
<1>. HIDE DEF g, P
<1>10. IsFiniteSet(Pending') /\ Cardinality(Pending') <= Cardinality(P)
  BY <1>5, <1>7, <1>9, ImageFinite
<1>11. Cardinality(Pending') \in Nat /\ Cardinality(P) \in Nat /\ Cardinality(Pending) \in Nat
  BY <1>6, <1>7, <1>10, FS_CardinalityType
<1>12. Cardinality(Pending') <= Cardinality(Pending)
  BY <1>7, <1>10, <1>11
<1>13. calls' \subseteq Call
  BY <1>3, <1>4 DEF Kept
<1>. QED
  BY <1>3, <1>4, <1>8, <1>10, <1>11, <1>12, <1>13

TabsTyped ==
    /\ path' \in [Tabs -> Paths]
    /\ shell' \in [Tabs -> {"out", "admin", "employee"}]
    /\ leaving' \in [Tabs -> BOOLEAN]
    /\ cache' \in [Tabs -> SUBSET Sessions]
    /\ confirmed' \in [Tabs -> SUBSET Sessions]

(* Calls end or are dropped, and no call is made: whatever becomes of the  *)
(* stored session, a signed-out one stays forgotten.                       *)
LEMMA QuietStep ==
    ASSUME IInv, UNCHANGED serverVars, NEW S \in SUBSET calls, NEW D, CallsBecome(S, D), TabsTyped,
           stored' \in {None, stored} \/ \E c \in calls \ S : c.new # None /\ stored' = c.new,
           \A t \in Tabs : confirmed'[t] \in {{}, confirmed[t]},
           \A t \in Tabs : \A k \in cache'[t] :
              \/ k \in cache[t]
              \/ \E c \in calls : c.tab = t /\ c.kind = "query" /\ ~c.dropped /\ c.token = k,
           \A t \in Tabs :
              \/ confirmed'[t] = {}
              \/ \A c \in calls : c.tab = t /\ c.kind = "logout" => c \in S
              \/ /\ stored' = None /\ cache'[t] = {}
                 /\ \A c \in S : c.tab = t /\ c.kind = "query" => c \in D
    PROVE  IInv'
<1>. TypeOK /\ Room /\ KnownInv /\ FreshInv /\ ForgetInv
  BY DEF IInv
<1>1. PICK f : /\ DOMAIN f = S /\ calls' = {f[c] : c \in S}
               /\ \A c \in S : Kept(c, f[c]) /\ (c \in D => f[c].dropped) /\ (c \notin D => f[c] = c)
               /\ IsFiniteSet(calls') /\ IsFiniteSet(Pending')
               /\ Cardinality(Pending') \in Nat /\ Cardinality(Pending') <= Cardinality(Pending)
               /\ calls' \subseteq Call
  BY CallsMean
<1>2. UNCHANGED <<issued, ended, due>> /\ Given' = Given
  BY DEF serverVars, Given
<1>3. stored' \in Given
  BY DEF Given, TypeOK, KnownInv
<1>4. TypeOK'
  BY <1>1, <1>2, <1>3 DEF TypeOK, TabsTyped, Given
<1>5. Room'
  <2>1. Cardinality(Pending) \in Nat /\ issued \in Nat /\ MaxSessions \in Nat
    <3>1. IsFiniteSet(Pending)
      BY FS_Subset DEF Room, Pending
    <3>. QED
      BY <3>1, FS_CardinalityType, BoundsAssumption DEF TypeOK
  <2>. QED
    BY <1>1, <1>2, <2>1 DEF Room
<1>6. KnownInv'
  BY <1>1, <1>2 DEF KnownInv, Kept
<1>7. FreshInv'
  <2>1. ASSUME NEW c \in S, NEW d \in S, c.new # None, c.new = d.new PROVE c = d
    BY <2>1 DEF FreshInv
  <2>2. \A c, d \in calls' : c.new # None /\ c.new = d.new => c = d
    BY <1>1, <2>1 DEF Kept
  <2>3. ASSUME NEW c \in S, c.new # None
        PROVE  /\ stored' # c.new /\ \A d \in S : d.token # c.new
               /\ \A t \in Tabs : c.new \notin cache'[t] \cup confirmed'[t]
    <3>1. stored' # c.new
      <4>1. stored # c.new /\ c.new # None
        BY <2>3 DEF FreshInv
      <4>2. \A d \in calls \ S : d.new # None => d.new # c.new
        BY <2>3 DEF FreshInv
      <4>. QED
        BY <4>1, <4>2
    <3>2. /\ \A d \in calls : d.token # c.new
          /\ \A t \in Tabs : c.new \notin cache[t] \cup confirmed[t]
      BY <2>3 DEF FreshInv
    <3>. QED
      BY <3>1, <3>2
  <2>. QED
    BY <1>1, <2>2, <2>3 DEF FreshInv, Kept
<1>8. ForgetInv'
  <2> SUFFICES ASSUME NEW t \in Tabs, NEW k \in confirmed'[t]
               PROVE  SigningOut(t)' \/ Gone(t, k)'
    BY DEF ForgetInv
  <2>1. confirmed'[t] = confirmed[t] /\ k \in confirmed[t] /\ k \in Sessions /\ k # None
    BY BoundsAssumption DEF TabsTyped, Sessions, None
  <2>2. CASE \A c \in calls : c.tab = t /\ c.kind = "logout" => c \in S
    <3>1. SigningOut(t) => SigningOut(t)'
      BY <1>1, <2>2 DEF SigningOut, Kept
    <3>2. ASSUME Gone(t, k) PROVE Gone(t, k)'
      <4>1. stored' # k
        BY <2>1, <3>2 DEF Gone, FreshInv
      <4>2. k \notin cache'[t]
        BY <3>2 DEF Gone
      <4>3. \A c \in calls' : c.tab = t /\ c.kind = "query" /\ c.token = k => c.dropped
        BY <1>1, <3>2 DEF Gone, Kept
      <4>. QED
        BY <4>1, <4>2, <4>3 DEF Gone
    <3>. QED
      BY <2>1, <3>1, <3>2 DEF ForgetInv
  <2>3. CASE /\ stored' = None /\ cache'[t] = {}
             /\ \A c \in S : c.tab = t /\ c.kind = "query" => c \in D
    BY <1>1, <2>1, <2>3 DEF Gone, Kept
  <2>. QED
    BY <2>1, <2>2, <2>3
<1>. QED
  BY <1>4, <1>5, <1>6, <1>7, <1>8 DEF IInv

-----------------------------------------------------------------------------
(* Page loads, navigations and redirects                                   *)
LEMMA RoleTyped ==
    ASSUME NEW token
    PROVE  RoleOf(token) \in {"out", "admin", "employee"}
BY DEF RoleOf

LEMMA ReloadQuiet ==
    ASSUME IInv, UNCHANGED serverVars, NEW t \in Tabs, NEW p \in Paths, NEW token,
           Reloads(t, p, token), stored' \in {None, stored}
    PROVE  IInv'
<1>. TypeOK
  BY DEF IInv
<1>1. PICK S : S = calls \ Of(t)
  OBVIOUS
<1>2. S \in SUBSET calls /\ CallsBecome(S, {})
  <2>1. calls' = S
    BY <1>1 DEF Reloads
  <2>. QED
    BY <1>1, <2>1 DEF CallsBecome
<1>3. TabsTyped
  BY RoleTyped DEF TabsTyped, Reloads, Mounts, Set, TypeOK
<1>4. /\ confirmed'[t] = {} /\ cache'[t] = {}
      /\ \A u \in Tabs \ {t} : confirmed'[u] = confirmed[u] /\ cache'[u] = cache[u]
  BY DEF Reloads, Set, TypeOK
<1>5. \A u \in Tabs \ {t} : \A c \in calls : c.tab = u => c \in S
  BY <1>1 DEF Of
<1>6. \A u \in Tabs : confirmed'[u] \in {{}, confirmed[u]}
  BY <1>4
<1>7. \A u \in Tabs : \A k \in cache'[u] : k \in cache[u]
  BY <1>4
<1>8. \A u \in Tabs :
         \/ confirmed'[u] = {}
         \/ \A c \in calls : c.tab = u /\ c.kind = "logout" => c \in S
  BY <1>4, <1>5
<1>. QED
  BY <1>2, <1>3, <1>6, <1>7, <1>8, QuietStep

LEMMA MoveQuiet ==
    ASSUME IInv, UNCHANGED serverVars, NEW t \in Tabs, NEW p \in Paths, NEW token,
           Moves(t, p, token), stored' \in {None, stored}
    PROVE  IInv'
<1>. TypeOK
  BY DEF IInv
<1>1. PICK D : D = {c \in calls : c.tab = t /\ c.kind = "login"}
  OBVIOUS
<1>2. CallsBecome(calls, D)
  BY <1>1 DEF CallsBecome, Moves
<1>3. TabsTyped
  BY RoleTyped DEF TabsTyped, Moves, Mounts, Set, TypeOK
<1>4. \A u \in Tabs : confirmed'[u] = confirmed[u] /\ cache'[u] = cache[u]
  BY DEF Moves
<1>. QED
  BY <1>2, <1>3, <1>4, QuietStep

LEMMA RedirectQuiet ==
    ASSUME IInv, UNCHANGED serverVars, NEW t \in Tabs, NEW finished,
           \A c \in finished : c.kind # "logout", Redirect(t, finished)
    PROVE  IInv'
<1>. TypeOK
  BY DEF IInv
<1>1. CASE path[t] # "login" /\ Reloads(t, "login", None)
  BY <1>1, ReloadQuiet DEF Redirect, Paths
<1>2. CASE path[t] = "login" /\ calls' = calls \ finished /\ UNCHANGED tabVars
  <2>1. PICK S : S = calls \ finished
    OBVIOUS
  <2>2. S \in SUBSET calls /\ CallsBecome(S, {})
    BY <1>2, <2>1 DEF CallsBecome
  <2>3. TabsTyped
    BY <1>2 DEF TabsTyped, TypeOK, tabVars
  <2>4. \A u \in Tabs : confirmed'[u] = confirmed[u] /\ cache'[u] = cache[u]
    BY <1>2 DEF tabVars
  <2>5. \A c \in calls : c.kind = "logout" => c \in S
    BY <2>1
  <2>6. stored' = None
    BY DEF Redirect
  <2>. QED
    BY <2>2, <2>3, <2>4, <2>5, <2>6, QuietStep
<1>. QED
  BY <1>1, <1>2 DEF Redirect

-----------------------------------------------------------------------------
(* A call is made, with what is stored by then.                            *)
LEMMA AddStep ==
    ASSUME IInv, UNCHANGED serverVars, NEW t \in Tabs, NEW kind \in {"query", "logout", "login"},
           NEW token, token = stored', calls' = calls \cup {NewCall(t, kind, token)},
           TabsTyped, cache' = cache, stored' \in {None, stored},
           kind = "login" => issued + Cardinality(Pending) < MaxSessions,
           \A u \in Tabs :
              \/ confirmed'[u] = confirmed[u]
              \/ kind = "logout" /\ u = t /\ confirmed'[u] = confirmed[u] \cup ({stored'} \ {None})
    PROVE  IInv'
<1>. TypeOK /\ Room /\ KnownInv /\ FreshInv /\ ForgetInv
  BY DEF IInv
<1>1. UNCHANGED <<issued, ended, due>> /\ Given' = Given
  BY DEF serverVars, Given
<1>2. token \in Given /\ token \in Sessions \cup {None} /\ token \in {None} \cup 1..issued
  BY BoundsAssumption DEF Given, TypeOK, Sessions, None
<1>3. PICK n : n = NewCall(t, kind, token)
  OBVIOUS
<1>4. /\ n.tab = t /\ n.kind = kind /\ n.token = token /\ n.answer = "none" /\ n.new = None
      /\ calls' = calls \cup {n}
  BY <1>3 DEF NewCall
<1>5. n \in Call
  BY <1>2, <1>3 DEF NewCall, Call
<1>6. TypeOK'
  BY <1>1, <1>2, <1>4, <1>5 DEF TypeOK, TabsTyped
<1>7. Room'
  <2>1. IsFiniteSet(calls) /\ IsFiniteSet(Pending)
    BY FS_Subset DEF Room, Pending
  <2>2. IsFiniteSet(calls')
    BY <1>4, <2>1, FS_AddElement
  <2>3. Cardinality(Pending) \in Nat /\ issued \in Nat /\ MaxSessions \in Nat
    BY <2>1, FS_CardinalityType, BoundsAssumption DEF TypeOK
  <2>4. CASE kind = "login"
    <3>1. Pending' = Pending \cup {n}
      BY <1>4, <2>4 DEF Pending
    <3>2. Cardinality(Pending') \in {Cardinality(Pending), Cardinality(Pending) + 1}
      BY <2>1, <3>1, FS_AddElement
    <3>. QED
      BY <1>1, <2>2, <2>3, <2>4, <3>2 DEF Room
  <2>5. CASE kind # "login"
    <3>1. Pending' = Pending
      BY <1>4, <2>5 DEF Pending
    <3>. QED
      BY <1>1, <2>2, <3>1 DEF Room
  <2>. QED
    BY <2>4, <2>5
<1>8. KnownInv'
  <2>1. \A c \in calls' : /\ c.token \in Given' /\ c.new \in Given'
                          /\ c.answer = "none" => c.new = None
                          /\ c.new # None => c.kind = "login"
                          /\ c.kind = "query" /\ c.answer = "denied" => c.token \in ended'
                          /\ c.kind = "query" /\ c.answer = "ok" => c.token # None
    BY <1>1, <1>2, <1>4 DEF KnownInv, Given
  <2>2. \A u \in Tabs : cache'[u] \cup confirmed'[u] \subseteq Given'
    BY <1>1, <1>2 DEF KnownInv
  <2>. QED
    BY <2>1, <2>2 DEF KnownInv
<1>9. FreshInv'
  <2>1. \A c, d \in calls' : c.new # None /\ c.new = d.new => c = d
    BY <1>4 DEF FreshInv
  <2>2. ASSUME NEW c \in calls', c.new # None
        PROVE  /\ stored' # c.new /\ \A d \in calls' : d.token # c.new
               /\ \A u \in Tabs : c.new \notin cache'[u] \cup confirmed'[u]
    <3>1. c \in calls /\ stored # c.new
      BY <1>4, <2>2 DEF FreshInv
    <3>2. \A d \in calls : d.token # c.new
      BY <2>2, <3>1 DEF FreshInv
    <3>3. \A u \in Tabs : c.new \notin cache[u] \cup confirmed[u]
      BY <2>2, <3>1 DEF FreshInv
    <3>4. stored' # c.new
      BY <2>2, <3>1
    <3>. QED
      BY <1>4, <3>2, <3>3, <3>4
  <2>. QED
    BY <2>1, <2>2 DEF FreshInv
<1>10. ForgetInv'
  <2> SUFFICES ASSUME NEW u \in Tabs, NEW k \in confirmed'[u]
               PROVE  SigningOut(u)' \/ Gone(u, k)'
    BY DEF ForgetInv
  <2>1. CASE kind = "logout" /\ u = t
    BY <1>4, <2>1 DEF SigningOut
  <2>2. CASE ~(kind = "logout" /\ u = t)
    <3>1. k \in confirmed[u] /\ k # None
      BY <2>2, BoundsAssumption DEF TabsTyped, Sessions, None
    <3>2. SigningOut(u) => SigningOut(u)'
      BY <1>4 DEF SigningOut
    <3>3. Gone(u, k) => Gone(u, k)'
      BY <1>4, <3>1 DEF Gone
    <3>. QED
      BY <3>1, <3>2, <3>3 DEF ForgetInv
  <2>. QED
    BY <2>1, <2>2
<1>. QED
  BY <1>6, <1>7, <1>8, <1>9, <1>10 DEF IInv

-----------------------------------------------------------------------------
(* The server answers a call                                               *)
LEMMA ServeMeans ==
    ASSUME IInv, NEW c \in calls, Serve(c)
    PROVE  \E e \in Call :
              /\ calls' = (calls \ {c}) \cup {e}
              /\ e.tab = c.tab /\ e.kind = c.kind /\ e.token = c.token /\ e.dropped = c.dropped
              /\ c.new = None /\ e.answer # "none"
              /\ ended \subseteq ended' /\ ended' \subseteq 1..issued'
              /\ \/ /\ c.kind = "login" /\ e.new = issued + 1 /\ issued' = issued + 1
                    /\ issued' + Cardinality(Pending \ {c}) <= MaxSessions
                 \/ /\ c.kind # "login" /\ e.new = None /\ issued' = issued
                    /\ (c.kind = "query" /\ e.answer = "denied" => c.token \in ended)
              /\ (c.kind = "query" /\ e.answer = "ok" => c.token # None)
<1>. TypeOK /\ Room /\ KnownInv
  BY DEF IInv
<1>1. c \in Call /\ c.answer = "none" /\ c.new = None /\ c.token \in {None} \cup 1..issued
  BY DEF Serve, TypeOK, KnownInv, Given
<1>2. issued \in Nat /\ MaxSessions \in Nat /\ ended \subseteq 1..issued /\ None \in Sessions \cup {None}
  BY BoundsAssumption DEF TypeOK
<1>3. CASE c.kind = "login"
  <2>1. issued' = issued + 1 /\ ended' = ended /\ Answered(c, "ok", issued + 1)
    BY <1>3 DEF Serve
  <2>2. issued + 1 \in Sessions \cup {None} /\ issued' + Cardinality(Pending \ {c}) <= MaxSessions
    <3>1. IsFiniteSet(Pending) /\ c \in Pending
      BY <1>1, <1>3, FS_Subset DEF Room, Pending
    <3>2. Cardinality(Pending \ {c}) = Cardinality(Pending) - 1 /\ IsFiniteSet(Pending \ {c})
      BY <3>1, FS_RemoveElement
    <3>3. Cardinality(Pending) \in Nat /\ Cardinality(Pending \ {c}) \in Nat
      BY <3>1, <3>2, FS_CardinalityType
    <3>4. issued + 1 <= MaxSessions /\ issued + 1 + Cardinality(Pending \ {c}) <= MaxSessions
      BY <1>2, <3>2, <3>3 DEF Room
    <3>. QED
      BY <1>2, <2>1, <3>4 DEF Sessions
  <2>3. PICK new : new = issued + 1
    OBVIOUS
  <2>4. PICK b, e : b = [c EXCEPT !.answer = "ok"] /\ e = [b EXCEPT !.new = new]
    OBVIOUS
  <2>5. /\ e \in Call /\ e.tab = c.tab /\ e.kind = c.kind /\ e.token = c.token
        /\ e.dropped = c.dropped /\ e.answer = "ok" /\ e.new = new
    <3>1. c \in Call /\ "ok" \in {"none", "ok", "denied", "forbidden"} /\ new \in Sessions \cup {None}
      BY <1>1, <2>2, <2>3
    <3>2. /\ b \in Call /\ b.tab = c.tab /\ b.kind = c.kind /\ b.token = c.token
          /\ b.dropped = c.dropped /\ b.answer = "ok"
      BY <2>4, <3>1 DEF Call
    <3>. QED
      BY <2>4, <3>1, <3>2 DEF Call
  <2>6. calls' = (calls \ {c}) \cup {e}
    BY <2>1, <2>3, <2>4 DEF Answered
  <2>7. ended' \subseteq 1..issued'
    BY <1>2, <2>1
  <2>. QED
    BY <1>1, <1>3, <2>1, <2>2, <2>3, <2>5, <2>6, <2>7
<1>4. CASE c.kind # "login"
  <2>1. PICK a \in {"ok", "denied", "forbidden"} :
            /\ Answered(c, a, None) /\ issued' = issued
            /\ ended \subseteq ended' /\ ended' \subseteq 1..issued'
            /\ c.kind = "query" /\ a = "denied" => c.token \in ended
            /\ c.kind = "query" /\ a = "ok" => c.token # None
    <3>1. CASE c.kind = "query"
      <4>1. Verdict(c.token) \in {"ok", "denied", "forbidden"}
        BY DEF Verdict
      <4>2. /\ Verdict(c.token) = "denied" => c.token \in ended
            /\ Verdict(c.token) = "ok" => c.token # None
        BY DEF Verdict, RoleOf
      <4>. QED
        BY <1>2, <3>1, <4>1, <4>2 DEF Serve
    <3>2. CASE c.kind = "logout"
      <4>1. /\ Answered(c, IF c.token \in ended THEN "denied" ELSE "ok", None)
            /\ ended' = ended \cup ({c.token} \ {None}) /\ issued' = issued
        BY <3>2 DEF Serve
      <4>2. ended' \subseteq 1..issued'
        BY <1>1, <1>2, <4>1
      <4>. QED
        BY <3>2, <4>1, <4>2
    <3>. QED
      BY <1>4, <3>1, <3>2 DEF Serve
  <2>2. PICK b, e : b = [c EXCEPT !.answer = a] /\ e = [b EXCEPT !.new = None]
    OBVIOUS
  <2>3. /\ e \in Call /\ e.tab = c.tab /\ e.kind = c.kind /\ e.token = c.token
        /\ e.dropped = c.dropped /\ e.answer = a /\ e.new = None
    <3>1. c \in Call /\ a \in {"none", "ok", "denied", "forbidden"} /\ None \in Sessions \cup {None}
      BY <1>1, <1>2
    <3>2. /\ b \in Call /\ b.tab = c.tab /\ b.kind = c.kind /\ b.token = c.token
          /\ b.dropped = c.dropped /\ b.answer = a
      BY <2>2, <3>1 DEF Call
    <3>. QED
      BY <2>2, <3>1, <3>2 DEF Call
  <2>4. calls' = (calls \ {c}) \cup {e}
    BY <2>1, <2>2 DEF Answered
  <2>. QED
    BY <1>1, <1>4, <2>1, <2>3, <2>4
<1>. QED
  BY <1>3, <1>4

LEMMA ServeStep ==
    ASSUME IInv, NEW c \in calls, Serve(c)
    PROVE  IInv'
<1>. TypeOK /\ Room /\ KnownInv /\ FreshInv /\ ForgetInv
  BY DEF IInv
<1>1. PICK e \in Call :
        /\ calls' = (calls \ {c}) \cup {e}
        /\ e.tab = c.tab /\ e.kind = c.kind /\ e.token = c.token /\ e.dropped = c.dropped
        /\ c.new = None /\ e.answer # "none"
        /\ ended \subseteq ended' /\ ended' \subseteq 1..issued'
        /\ \/ /\ c.kind = "login" /\ e.new = issued + 1 /\ issued' = issued + 1
              /\ issued' + Cardinality(Pending \ {c}) <= MaxSessions
           \/ /\ c.kind # "login" /\ e.new = None /\ issued' = issued
              /\ (c.kind = "query" /\ e.answer = "denied" => c.token \in ended)
              /\ (c.kind = "query" /\ e.answer = "ok" => c.token # None)
  BY ServeMeans
<1>2. UNCHANGED <<due, stored, path, shell, leaving, cache, confirmed>>
  BY DEF Serve, tabVars
<1>3. /\ IsFiniteSet(Pending) /\ IsFiniteSet(calls') /\ IsFiniteSet(Pending \ {c})
      /\ Cardinality(Pending) \in Nat /\ Cardinality(Pending \ {c}) \in Nat
      /\ issued \in Nat /\ MaxSessions \in Nat
  <2>1. IsFiniteSet(calls) /\ IsFiniteSet(Pending)
    BY FS_Subset DEF Room, Pending
  <2>2. IsFiniteSet(calls \ {c}) /\ IsFiniteSet(Pending \ {c})
    BY <2>1, FS_RemoveElement
  <2>3. IsFiniteSet(calls')
    BY <1>1, <2>2, FS_AddElement
  <2>. QED
    BY <2>1, <2>2, <2>3, FS_CardinalityType, BoundsAssumption DEF TypeOK
<1>4. Room' /\ issued' <= MaxSessions
  <2>1. CASE c.kind = "login"
    <3>1. Pending' \subseteq Pending \ {c}
      BY <1>1, <1>3, <2>1 DEF Pending, None
    <3>2. Cardinality(Pending') <= Cardinality(Pending \ {c}) /\ Cardinality(Pending') \in Nat
      BY <1>3, <3>1, FS_Subset, FS_CardinalityType
    <3>. QED
      BY <1>1, <1>3, <2>1, <3>2 DEF Room
  <2>2. CASE c.kind # "login"
    <3>1. Pending' \subseteq Pending
      BY <1>1, <2>2 DEF Pending
    <3>2. Cardinality(Pending') <= Cardinality(Pending) /\ Cardinality(Pending') \in Nat
      BY <1>3, <3>1, FS_Subset, FS_CardinalityType
    <3>. QED
      BY <1>1, <1>3, <2>2, <3>2 DEF Room
  <2>. QED
    BY <2>1, <2>2
<1>5. issued' \in Nat /\ issued <= issued' /\ Given \subseteq Given'
  BY <1>1, <1>3 DEF Given
<1>6. TypeOK'
  BY <1>1, <1>2, <1>3, <1>4, <1>5 DEF TypeOK
<1>7. e.new \in Given' /\ (e.new # None => c.kind = "login" /\ e.new \notin Given)
  <2>1. CASE c.kind = "login"
    <3>1. e.new = issued + 1 /\ issued' = issued + 1
      BY <1>1, <2>1
    <3>2. e.new \notin Given
      BY <1>3, <3>1 DEF Given, None
    <3>. QED
      BY <1>3, <2>1, <3>1, <3>2 DEF Given
  <2>2. CASE c.kind # "login"
    BY <1>1, <2>2 DEF Given
  <2>. QED
    BY <2>1, <2>2
<1>8. KnownInv'
  <2>1. \A d \in calls : /\ d.token \in Given /\ d.new \in Given
                         /\ d.answer = "none" => d.new = None
                         /\ d.new # None => d.kind = "login"
                         /\ d.kind = "query" /\ d.answer = "denied" => d.token \in ended
                         /\ d.kind = "query" /\ d.answer = "ok" => d.token # None
    BY DEF KnownInv
  <2>2. /\ e.kind = "query" /\ e.answer = "denied" => e.token \in ended
        /\ e.kind = "query" /\ e.answer = "ok" => e.token # None
    BY <1>1
  <2>3. \A d \in calls' : /\ d.token \in Given' /\ d.new \in Given'
                          /\ d.answer = "none" => d.new = None
                          /\ d.new # None => d.kind = "login"
                          /\ d.kind = "query" /\ d.answer = "denied" => d.token \in ended'
                          /\ d.kind = "query" /\ d.answer = "ok" => d.token # None
    <3>1. \A d \in calls : d.token \in Given' /\ d.new \in Given'
      BY <1>5, <2>1
    <3>2. /\ e.token \in Given' /\ e.new \in Given' /\ e.answer # "none"
          /\ e.new # None => e.kind = "login"
      BY <1>1, <1>7, <3>1
    <3>3. \A d \in calls' : d \in calls \/ d = e
      BY <1>1
    <3>4. \A j : j \in ended => j \in ended'
      BY <1>1
    <3>. QED
      BY <2>1, <2>2, <3>1, <3>2, <3>3, <3>4
  <2>4. \A t \in Tabs : cache'[t] \cup confirmed'[t] \subseteq Given'
    BY <1>2, <1>5 DEF KnownInv
  <2>. QED
    BY <2>3, <2>4 DEF KnownInv
<1>9. FreshInv'
  <2>1. \A d \in calls : d.new \in Given /\ d.token \in Given
    BY DEF KnownInv
  <2>2. \A d \in calls : e.new # None => d.new # e.new
    BY <1>7, <2>1
  <2>3. \A d, f \in calls' : d.new # None /\ d.new = f.new => d = f
    <3>1. \A d, f \in calls : d.new # None /\ d.new = f.new => d = f
      BY DEF FreshInv
    <3>. QED
      BY <1>1, <2>2, <3>1
  <2>4. ASSUME NEW d \in calls', d.new # None
        PROVE  /\ stored' # d.new /\ \A f \in calls' : f.token # d.new
               /\ \A t \in Tabs : d.new \notin cache'[t] \cup confirmed'[t]
    <3>1. CASE d \in calls
      <4>1. /\ stored # d.new /\ \A f \in calls : f.token # d.new
            /\ \A t \in Tabs : d.new \notin cache[t] \cup confirmed[t]
        BY <2>4, <3>1 DEF FreshInv
      <4>. QED
        BY <1>1, <1>2, <4>1
    <3>2. CASE d = e
      <4>1. d.new \notin Given
        BY <1>7, <2>4, <3>2
      <4>2. stored \in Given /\ \A t \in Tabs : cache[t] \cup confirmed[t] \subseteq Given
        BY DEF TypeOK, Given, KnownInv
      <4>3. \A f \in calls' : f.token \in Given
        BY <1>1, <2>1
      <4>. QED
        BY <1>2, <4>1, <4>2, <4>3
    <3>. QED
      BY <1>1, <3>1, <3>2
  <2>. QED
    BY <2>3, <2>4 DEF FreshInv
<1>10. ForgetInv'
  <2> SUFFICES ASSUME NEW t \in Tabs, NEW k \in confirmed'[t]
               PROVE  SigningOut(t)' \/ Gone(t, k)'
    BY DEF ForgetInv
  <2>1. k \in confirmed[t]
    BY <1>2
  <2>2. SigningOut(t) => SigningOut(t)'
    BY <1>1 DEF SigningOut
  <2>3. Gone(t, k) => Gone(t, k)'
    BY <1>1, <1>2 DEF Gone
  <2>. QED
    BY <2>1, <2>2, <2>3 DEF ForgetInv
<1>. QED
  BY <1>4, <1>6, <1>8, <1>9, <1>10 DEF IInv

-----------------------------------------------------------------------------
(* Every step of the specification                                         *)
LEMMA OperatorStep ==
    ASSUME IInv, NEW t \in Tabs, Operator(t)
    PROVE  IInv'
<1>. TypeOK
  BY DEF IInv
<1>1. PICK token : token = stored'
  OBVIOUS
<1>2. ASSUME NEW p \in Paths, Navigate(t, p) PROVE IInv'
  <2>1. UNCHANGED serverVars /\ stored' \in {None, stored}
    BY <1>2 DEF Navigate
  <2>2. Reloads(t, "login", None) \/ Moves(t, p, token)
    BY <1>1, <1>2 DEF Navigate
  <2>3. "login" \in Paths
    BY DEF Paths
  <2>4. CASE Reloads(t, "login", None)
    BY <2>1, <2>3, <2>4, ReloadQuiet
  <2>5. CASE Moves(t, p, token)
    BY <2>1, <2>5, MoveQuiet
  <2>. QED
    BY <2>2, <2>4, <2>5
<1>3. ASSUME NEW p \in Paths, Reload(t, p) PROVE IInv'
  <2>1. UNCHANGED serverVars /\ stored' \in {None, stored}
    BY <1>3 DEF Reload
  <2>2. PICK q \in Paths : Reloads(t, q, token)
    <3>1. PICK q : q = IF Expired /\ p = "console" THEN "login" ELSE p
      OBVIOUS
    <3>2. q \in Paths
      BY <3>1 DEF Paths
    <3>3. Reloads(t, q, token)
      BY <1>1, <1>3, <3>1 DEF Reload, Reloads, Mounts, Set
    <3>. QED
      BY <3>2, <3>3
  <2>. QED
    BY <2>1, <2>2, ReloadQuiet
<1>4. CASE SubmitLogin(t)
  <2>1. UNCHANGED serverVars /\ stored' \in {None, stored} /\ UNCHANGED tabVars
    BY <1>4 DEF SubmitLogin
  <2>2. calls' = calls \cup {NewCall(t, "login", token)}
    BY <1>1, <1>4 DEF SubmitLogin
  <2>3. issued + Cardinality(Pending) < MaxSessions
    BY <1>4 DEF SubmitLogin, Pending
  <2>4. TabsTyped /\ cache' = cache /\ \A u \in Tabs : confirmed'[u] = confirmed[u]
    BY <2>1 DEF TabsTyped, TypeOK, tabVars
  <2>. QED
    BY <1>1, <2>1, <2>2, <2>3, <2>4, AddStep
<1>5. CASE ConfirmSignOut(t)
  <2>1. CASE Expired /\ path[t] = "console"
    BY <1>5, <2>1, RedirectQuiet DEF ConfirmSignOut
  <2>2. CASE ~(Expired /\ path[t] = "console")
    <3>1. UNCHANGED serverVars /\ stored' \in {None, stored} /\ cache' = cache
      BY <1>5, <2>2 DEF ConfirmSignOut
    <3>2. calls' = calls \cup {NewCall(t, "logout", token)}
      BY <1>1, <1>5, <2>2 DEF ConfirmSignOut
    <3>3. confirmed' = [confirmed EXCEPT ![t] = confirmed[t] \cup ({stored'} \ {None})]
      BY <1>5, <2>2 DEF ConfirmSignOut, Set
    <3>4. \A u \in Tabs :
             \/ confirmed'[u] = confirmed[u]
             \/ u = t /\ confirmed'[u] = confirmed[u] \cup ({stored'} \ {None})
      BY <3>3 DEF TypeOK
    <3>5. {stored'} \ {None} \subseteq Sessions
      BY <3>1, BoundsAssumption DEF TypeOK, Sessions
    <3>6. TabsTyped
      BY <1>5, <2>2, <3>3, <3>5 DEF TabsTyped, TypeOK, ConfirmSignOut, Set
    <3>. QED
      BY <1>1, <3>1, <3>2, <3>4, <3>6, AddStep
  <2>. QED
    BY <2>1, <2>2
<1>6. CASE Query(t)
  <2>1. CASE Expired
    BY <1>6, <2>1, RedirectQuiet DEF Query
  <2>2. CASE ~Expired
    <3>1. UNCHANGED serverVars /\ stored' = stored /\ UNCHANGED tabVars
      BY <1>6, <2>2 DEF Query
    <3>2. calls' = calls \cup {NewCall(t, "query", token)}
      BY <1>1, <1>6, <2>2, <3>1 DEF Query
    <3>3. TabsTyped /\ cache' = cache /\ \A u \in Tabs : confirmed'[u] = confirmed[u]
      BY <3>1 DEF TabsTyped, TypeOK, tabVars
    <3>. QED
      BY <1>1, <3>1, <3>2, <3>3, AddStep
  <2>. QED
    BY <2>1, <2>2
<1>. QED
  BY <1>2, <1>3, <1>4, <1>5, <1>6 DEF Operator

LEMMA AnswerStep ==
    ASSUME IInv, NEW c \in calls, Answer(c)
    PROVE  IInv'
<1>. TypeOK
  BY DEF IInv
<1>1. c \in Call /\ c.tab \in Tabs
  BY DEF TypeOK, Call
<1>2. PICK t \in Tabs : t = c.tab
  BY <1>1
<1>3. PICK S : S = calls \ {c}
  OBVIOUS
<1>4. S \in SUBSET calls /\ (calls' = calls \ {c} => CallsBecome(S, {}))
  BY <1>3 DEF CallsBecome
<1>5. c.kind # "logout" => \A d \in calls : d.kind = "logout" => d \in S
  BY <1>3
<1>6. CASE QueryAnswered(c)
  <2>1. CASE c.answer = "denied"
    BY <1>2, <1>6, <2>1, RedirectQuiet DEF QueryAnswered
  <2>2. CASE c.answer # "denied"
    <3>1. /\ UNCHANGED serverVars /\ c.kind = "query" /\ calls' = calls \ {c}
          /\ UNCHANGED <<stored, path, shell, leaving, confirmed>>
          /\ cache' = [cache EXCEPT ![t] = Received(c)]
      BY <1>2, <1>6, <2>2 DEF QueryAnswered, Set
    <3>2. c.answer = "ok" => c.token \in Sessions
      <4>1. c.token \in Sessions \cup {None}
        BY <1>1 DEF Call
      <4>2. c.answer = "ok" => c.token # None
        BY <3>1 DEF IInv, KnownInv
      <4>. QED
        BY <4>1, <4>2
    <3>3. Received(c) \in SUBSET Sessions
      BY <1>1, <3>2 DEF Received, TypeOK
    <3>4. TabsTyped
      BY <3>1, <3>3 DEF TabsTyped, TypeOK
    <3>5. \A u \in Tabs : \A k \in cache'[u] :
             \/ k \in cache[u]
             \/ c.tab = u /\ c.kind = "query" /\ ~c.dropped /\ c.token = k
      BY <1>2, <3>1 DEF TypeOK, Received
    <3>. QED
      BY <1>4, <1>5, <3>1, <3>4, <3>5, QuietStep
  <2>. QED
    BY <2>1, <2>2
<1>7. CASE QueryLost(c) \/ LoginFails(c)
  <2>1. UNCHANGED <<serverVars, stored, tabVars>> /\ c.kind # "logout" /\ calls' = calls \ {c}
    BY <1>7 DEF QueryLost, LoginFails
  <2>2. TabsTyped /\ cache' = cache /\ confirmed' = confirmed
    BY <2>1 DEF TabsTyped, TypeOK, tabVars
  <2>. QED
    BY <1>4, <1>5, <2>1, <2>2, QuietStep
<1>8. CASE SignedOut(c)
  <2>1. UNCHANGED serverVars /\ stored' = None /\ c.kind = "logout"
    BY <1>8 DEF SignedOut
  <2>2. CASE c.answer = "denied" /\ path[c.tab] # "login"
    <3>1. Reloads(t, "login", None) /\ "login" \in Paths
      BY <1>2, <1>8, <2>2 DEF SignedOut, Paths
    <3>. QED
      BY <2>1, <3>1, ReloadQuiet
  <2>3. CASE ~(c.answer = "denied" /\ path[c.tab] # "login")
    <3>1. PICK D : D = {d \in calls : d.tab = t /\ d.kind # "logout"}
      OBVIOUS
    <3>2. /\ calls' = {IF d.tab = t /\ d.kind # "logout"
                       THEN [d EXCEPT !.dropped = TRUE] ELSE d : d \in S}
          /\ cache' = [cache EXCEPT ![t] = {}] /\ UNCHANGED <<leaving, confirmed>>
          /\ Mounts(t, "login", None)
      BY <1>2, <1>3, <1>8, <2>3 DEF SignedOut, Set
    <3>3. CallsBecome(S, D)
      BY <1>4, <3>1, <3>2 DEF CallsBecome
    <3>4. TabsTyped
      BY <3>2, RoleTyped DEF TabsTyped, TypeOK, Mounts, Set, Paths
    <3>5. cache'[t] = {} /\ \A u \in Tabs \ {t} : cache'[u] = cache[u]
      BY <3>2 DEF TypeOK
    <3>6. \A u \in Tabs : \A k \in cache'[u] : k \in cache[u]
      BY <3>5
    <3>7. \A d \in S : d.tab = t /\ d.kind = "query" => d \in D
      BY <1>4, <3>1
    <3>8. \A u \in Tabs \ {t} : \A d \in calls : d.tab = u => d \in S
      BY <1>2, <1>3
    <3>9. \A u \in Tabs :
             \/ \A d \in calls : d.tab = u /\ d.kind = "logout" => d \in S
             \/ /\ stored' = None /\ cache'[u] = {}
                /\ \A d \in S : d.tab = u /\ d.kind = "query" => d \in D
      BY <2>1, <3>5, <3>7, <3>8
    <3>. QED
      BY <1>4, <2>1, <3>2, <3>3, <3>4, <3>6, <3>9, QuietStep
  <2>. QED
    BY <2>2, <2>3
<1>9. CASE LoggedIn(c)
  <2>1. /\ UNCHANGED <<serverVars, leaving, cache, confirmed>>
        /\ c.kind = "login" /\ c.new # None /\ stored' = c.new
    BY <1>9 DEF LoggedIn
  <2>2. PICK p \in Paths : Mounts(t, p, c.new)
    BY <1>2, <1>9 DEF LoggedIn, Paths
  <2>3. PICK D : D = {d \in calls : d.tab = t /\ d.kind = "login"}
    OBVIOUS
  <2>4. CallsBecome(S, D)
    <3>1. calls' = {IF d.tab = t /\ d.kind = "login" THEN [d EXCEPT !.dropped = TRUE] ELSE d : d \in S}
      BY <1>2, <1>3, <1>9 DEF LoggedIn
    <3>. QED
      BY <1>4, <2>3, <3>1 DEF CallsBecome
  <2>5. TabsTyped
    BY <2>1, <2>2, RoleTyped DEF TabsTyped, TypeOK, Mounts, Set
  <2>6. \E d \in calls \ S : d.new # None /\ stored' = d.new
    BY <1>3, <2>1
  <2>. QED
    BY <1>4, <1>5, <2>1, <2>4, <2>5, <2>6, QuietStep
<1>. QED
  BY <1>6, <1>7, <1>8, <1>9 DEF Answer

LEMMA ClockStep ==
    ASSUME IInv, NEW k \in 1..issued, EndSession(k) \/ ClockPasses(k)
    PROVE  IInv'
<1>1. /\ UNCHANGED <<issued, stored, tabVars, calls>>
      /\ ended \subseteq ended' /\ ended' \subseteq ended \cup {k}
      /\ due' \subseteq due \cup {k}
  BY DEF EndSession, ClockPasses
<1>2. TypeOK'
  BY <1>1 DEF IInv, TypeOK, tabVars
<1>3. Room' /\ Given' = Given
  BY <1>1 DEF IInv, Room, Pending, Given
<1>4. KnownInv'
  BY <1>1, <1>3 DEF IInv, KnownInv, tabVars
<1>5. FreshInv'
  BY <1>1 DEF IInv, FreshInv, tabVars
<1>6. ForgetInv'
  BY <1>1 DEF IInv, ForgetInv, SigningOut, Gone, tabVars
<1>. QED
  BY <1>2, <1>3, <1>4, <1>5, <1>6 DEF IInv

LEMMA InitStep == Init => IInv
<1> SUFFICES ASSUME Init PROVE IInv
  OBVIOUS
<1>1. TypeOK
  BY BoundsAssumption DEF Init, TypeOK, Paths, None
<1>2. Room
  <2>1. calls = {} /\ Pending = {} /\ issued = 0
    BY DEF Init, Pending
  <2>. QED
    BY <2>1, FS_EmptySet, BoundsAssumption DEF Room
<1>3. KnownInv /\ FreshInv /\ ForgetInv
  BY DEF Init, KnownInv, FreshInv, ForgetInv
<1>. QED
  BY <1>1, <1>2, <1>3 DEF IInv

LEMMA NextStep == IInv /\ [Next]_vars => IInv'
<1> SUFFICES ASSUME IInv, [Next]_vars PROVE IInv'
  OBVIOUS
<1>1. CASE Next
  BY <1>1, OperatorStep, ServeStep, AnswerStep, ClockStep DEF Next
<1>2. CASE UNCHANGED vars
  BY <1>2 DEF vars, serverVars, tabVars, IInv, TypeOK, Room, Pending, Given, KnownInv, FreshInv,
              ForgetInv, SigningOut, Gone
<1>. QED
  BY <1>1, <1>2

(* Once the sign-out of a session is over in a tab, answered or not, the   *)
(* session is not stored and nothing read with it is in the tab's cache,   *)
(* however the calls and the answers of any number of tabs interleave.     *)
THEOREM SignOutIsForgotten == Spec => []SessionInv
<1>1. IInv => SessionInv
  <2> SUFFICES ASSUME IInv PROVE SignOutForgets
    BY DEF IInv, SessionInv
  <2>. QED
    BY DEF IInv, ForgetInv, SignOutForgets, SigningOut, Gone, Of
<1>. QED
  BY <1>1, InitStep, NextStep, PTL DEF Spec

(* A session that server and clock still accept leaves the storage only    *)
(* through a sign-out, a new sign-in, or the refusal of another session's  *)
(* call that was still under way.                                          *)
THEOREM LiveSessionIsKept == Spec => LiveSessionKept
<1> DEFINE Reason(k) == \E c \in calls \ calls' :
                           \/ c.kind \in {"logout", "login"}
                           \/ c.kind = "query" /\ c.answer = "denied" /\ c.token # k
           A == \A k \in Sessions : stored = k /\ stored' # k /\ k \notin ended \cup due => Reason(k)
<1>1. ASSUME IInv, Next PROVE A
  <2> SUFFICES ASSUME NEW k \in Sessions, stored = k, stored' # k, k \notin ended, k \notin due
               PROVE  Reason(k)
    OBVIOUS
  <2>. TypeOK /\ KnownInv
    BY <1>1 DEF IInv
  <2>1. ~Expired
    BY DEF Expired
  <2>2. ASSUME NEW t \in Tabs, Operator(t) PROVE FALSE
    BY <2>1, <2>2 DEF Operator, Navigate, Reload, SubmitLogin, ConfirmSignOut, Query
  <2>3. ASSUME NEW c \in calls, Serve(c) PROVE FALSE
    BY <2>3 DEF Serve
  <2>4. ASSUME NEW j \in 1..issued, EndSession(j) \/ ClockPasses(j) PROVE FALSE
    BY <2>4 DEF EndSession, ClockPasses
  <2>5. ASSUME NEW c \in calls, Answer(c) PROVE Reason(k)
    <3>1. CASE QueryAnswered(c)
      <4>1. c.kind = "query" /\ c.answer = "denied" /\ Redirect(c.tab, {c})
        BY <3>1 DEF QueryAnswered
      <4>2. c.token \in ended
        BY <4>1 DEF KnownInv
      <4>3. c \notin calls'
        BY <4>1 DEF Redirect, Reloads, Of
      <4>. QED
        BY <4>1, <4>2, <4>3
    <3>2. CASE QueryLost(c) \/ LoginFails(c)
      BY <3>2 DEF QueryLost, LoginFails
    <3>3. CASE SignedOut(c)
      <4>1. c.kind = "logout"
        BY <3>3 DEF SignedOut
      <4>2. c \notin calls'
        <5>1. CASE Reloads(c.tab, "login", None)
          BY <5>1 DEF Reloads, Of
        <5>2. CASE calls' = {IF d.tab = c.tab /\ d.kind # "logout"
                             THEN [d EXCEPT !.dropped = TRUE] ELSE d : d \in calls \ {c}}
          <6> SUFFICES ASSUME NEW d \in calls \ {c},
                              c = IF d.tab = c.tab /\ d.kind # "logout"
                                  THEN [d EXCEPT !.dropped = TRUE] ELSE d
                       PROVE  FALSE
            BY <5>2
          <6>1. d \in Call /\ Kept(d, [d EXCEPT !.dropped = TRUE])
            BY DropKeeps DEF TypeOK
          <6>. QED
            BY <4>1, <6>1 DEF Kept
        <5>. QED
          BY <3>3, <5>1, <5>2 DEF SignedOut
      <4>. QED
        BY <4>1, <4>2
    <3>4. CASE LoggedIn(c)
      <4>1. c.kind = "login" /\ c.new # None
        BY <3>4 DEF LoggedIn
      <4>2. c \notin calls'
        <5> SUFFICES ASSUME NEW d \in calls \ {c},
                            c = IF d.tab = c.tab /\ d.kind = "login"
                                THEN [d EXCEPT !.dropped = TRUE] ELSE d
                     PROVE  FALSE
          BY <3>4 DEF LoggedIn
        <5>1. d \in Call /\ Kept(d, [d EXCEPT !.dropped = TRUE])
          BY DropKeeps DEF TypeOK
        <5>2. d.new = c.new
          BY <5>1 DEF Kept
        <5>. QED
          BY <1>1, <4>1, <5>2 DEF IInv, FreshInv
      <4>. QED
        BY <4>1, <4>2
    <3>. QED
      BY <2>5, <3>1, <3>2, <3>3, <3>4 DEF Answer
  <2>. QED
    BY <1>1, <2>2, <2>3, <2>4, <2>5 DEF Next
<1>2. IInv /\ [Next]_vars => [A]_vars
  BY <1>1
<1>3. Spec => [][A]_vars
  <2>. HIDE DEF A
  <2>. QED
    BY <1>2, InitStep, NextStep, PTL DEF Spec
<1>. QED
  BY <1>3 DEF LiveSessionKept
=============================================================================
