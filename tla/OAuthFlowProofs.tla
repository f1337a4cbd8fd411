---------------------------- MODULE OAuthFlowProofs ----------------------------
(* Proofs about OAuthFlow, for any tabs, browsers, providers, states and     *)
(* handoff codes.                                                            *)
EXTENDS OAuthFlow, TLAPS

\* A state was made in a browser, at a provider that is configured; and what
\* a browser has in the slot of a provider was made there for it.
StatesKnown ==
    /\ \A n \in States : made[n] # NoProvider => made[n] \in Providers
    /\ \A b \in Browsers, p \in Providers :
          cookie[b][p] # NoState =>
              home[cookie[b][p]] = b /\ made[cookie[b][p]] = p

\* A tab that is under way has a state that was made, and a provider.
UnderWay(t) ==
    tab[t].pc # "idle" =>
        /\ tab[t].provider \in Providers
        /\ tab[t].state \in States
        /\ made[tab[t].state] # NoProvider

\* A tab past validate is where its sign-in began.
AtHome(t) ==
    tab[t].pc \in {"accepted", "signed", "stored", "landed"} /\ tab[t].next = NoState =>
        /\ home[tab[t].state] = BrowserOf[t]
        /\ made[tab[t].state] = tab[t].provider

\* The state a response brings was made for its browser and its provider.
Brings(t) ==
    tab[t].next # NoState =>
        /\ tab[t].provider \in Providers
        /\ home[tab[t].next] = BrowserOf[t]
        /\ made[tab[t].next] = tab[t].provider

\* The cookie and the state of an undisturbed tab are as it left them.
Kept(t) ==
    tab[t].pc = "away" /\ t \notin disturbed =>
        /\ cookie[BrowserOf[t]][tab[t].provider] = tab[t].state
        /\ made[tab[t].state] = tab[t].provider

\* A code that is stored has been drawn, and its tokens not handed out.
CodesSpent ==
    \A c \in Codes : /\ c \in stored => c \in used /\ handed[c] = 0
                     /\ c \notin used => handed[c] = 0
                     /\ handed[c] <= 1

Holds(t) == UnderWay(t) /\ AtHome(t) /\ Brings(t) /\ Kept(t)

Inv ==
    /\ TypeOK
    /\ StatesKnown
    /\ \A t \in Tabs : Holds(t)
    /\ CodesSpent

USE BrowserAssumption, ConfiguredAssumption, NothingAssumption

-----------------------------------------------------------------------------
\* What tabs a step does not touch rely on: the made states stay as they are,
\* and so does the cookie of those that stay undisturbed.
LEMMA OthersKeep ==
    ASSUME Inv, NEW t \in Tabs, tab'[t] = tab[t],
           \A n \in States : made[n] # NoProvider => made'[n] = made[n] /\ home'[n] = home[n],
           tab[t].pc = "away" /\ t \notin disturbed' =>
              t \notin disturbed /\
              cookie'[BrowserOf[t]][tab[t].provider] = cookie[BrowserOf[t]][tab[t].provider]
    PROVE  Holds(t)'
<1>1. UnderWay(t) /\ AtHome(t) /\ Brings(t) /\ Kept(t) /\ tab[t] \in Tab
  BY DEF Inv, TypeOK, Holds
<1>2. UnderWay(t)'
  BY <1>1 DEF UnderWay
<1>3. AtHome(t)'
  BY <1>1 DEF UnderWay, AtHome
<1>4. Kept(t)'
  BY <1>1 DEF UnderWay, Kept
<1>5. Brings(t)'
  BY <1>1 DEF Brings, Tab
<1> QED BY <1>2, <1>3, <1>4, <1>5 DEF Holds

LEMMA IdleType ==
    Idle \in Tab /\ Idle.pc = "idle" /\ Idle.next = NoState
BY DEF Idle, Tab

\* A tab that is idle promises nothing.
LEMMA IdleKeeps ==
    ASSUME NEW t \in Tabs, tab'[t] = Idle
    PROVE  Holds(t)'
BY IdleType DEF Holds, UnderWay, AtHome, Brings, Kept

\* What Move does, field by field.
LEMMA MoveFields ==
    ASSUME TypeOK, NEW t \in Tabs, NEW pc \in {"idle", "away", "accepted", "signed",
                                               "stored", "refused", "landed"},
           Move(t, pc)
    PROVE  /\ tab' \in [Tabs -> Tab]
           /\ tab'[t].pc = pc
           /\ tab'[t].provider = tab[t].provider
           /\ tab'[t].state = tab[t].state
           /\ tab'[t].next = tab[t].next
           /\ tab'[t].code = tab[t].code
           /\ \A u \in Tabs \ {t} : tab'[u] = tab[u]
<1> PICK q : q = [tab[t] EXCEPT !.pc = pc]
  OBVIOUS
<1>1. tab[t] \in Tab
  BY DEF TypeOK
<1>2. /\ q.pc = pc /\ q.provider = tab[t].provider
      /\ q.state = tab[t].state /\ q.next = tab[t].next /\ q.code = tab[t].code
      /\ q \in Tab
  BY <1>1 DEF Tab
<1>3. tab' = [tab EXCEPT ![t] = q]
  BY DEF Move
<1> QED BY <1>2, <1>3 DEF TypeOK

\* What SetCookie does, slot by slot.
LEMMA CookieSlots ==
    ASSUME TypeOK, NEW t \in Tabs, NEW p \in Providers, NEW n \in States \cup {NoState},
           SetCookie(t, p, n)
    PROVE  /\ cookie' \in [Browsers -> [Providers -> States \cup {NoState}]]
           /\ \A b \in Browsers, q \in Providers :
                 cookie'[b][q] = IF b = BrowserOf[t] /\ q = p THEN n ELSE cookie[b][q]
<1>1. BrowserOf[t] \in Browsers
  OBVIOUS
<1>2. cookie' = [cookie EXCEPT ![BrowserOf[t]] = [cookie[BrowserOf[t]] EXCEPT ![p] = n]]
  BY DEF SetCookie, Slot
<1>3. cookie[BrowserOf[t]] \in [Providers -> States \cup {NoState}]
  BY <1>1 DEF TypeOK
<1>4. PICK f : f = [cookie[BrowserOf[t]] EXCEPT ![p] = n]
  OBVIOUS
<1>5. f \in [Providers -> States \cup {NoState}]
  BY <1>3, <1>4
<1>6. \A q \in Providers : f[q] = IF q = p THEN n ELSE cookie[BrowserOf[t]][q]
  BY <1>3, <1>4
<1>7. cookie' = [cookie EXCEPT ![BrowserOf[t]] = f]
  BY <1>2, <1>4
<1> QED BY <1>1, <1>5, <1>6, <1>7 DEF TypeOK

LEMMA InitInvariant == Init => Inv
BY IdleType DEF Init, Inv, TypeOK, StatesKnown, CodesSpent, Holds, UnderWay, AtHome, Brings, Kept

\* A state is made once, and what was made before stays as it was.
LEMMA MakeFields ==
    ASSUME Inv, NEW t \in Tabs, NEW p \in Providers, NEW n \in States, Make(t, p, n)
    PROVE  /\ made' \in [States -> Configured \cup {NoProvider}]
           /\ home' \in [States -> Browsers \cup {Nobody}]
           /\ fresh' \in SUBSET States
           /\ made'[n] = p /\ home'[n] = BrowserOf[t]
           /\ \A m \in States : made[m] # NoProvider => made'[m] = made[m] /\ home'[m] = home[m]
BY DEF Make, IsConfigured, Inv, TypeOK

LEMMA StartKeeps ==
    ASSUME Inv, NEW t \in Tabs, NEW p \in Providers, NEW n \in States, Start(t, p, n)
    PROVE  Inv'
<1> DEFINE b == BrowserOf[t]
<1> PICK q : q = [Idle EXCEPT !.pc = "away", !.provider = p, !.state = n]
  OBVIOUS
<1>1. /\ q.pc = "away" /\ q.provider = p /\ q.state = n /\ q.next = NoState /\ q \in Tab
  BY DEF Idle, Tab
<1>2. /\ tab' = [tab EXCEPT ![t] = q] /\ Make(t, p, n)
      /\ disturbed' = (disturbed \cup AwayAt(b, p)) \ {t}
      /\ UNCHANGED <<stored, handed, used>>
  BY DEF Start, handoff
<1>3. /\ cookie' \in [Browsers -> [Providers -> States \cup {NoState}]]
      /\ \A c \in Browsers, r \in Providers :
            cookie'[c][r] = IF c = b /\ r = p THEN n ELSE cookie[c][r]
  BY CookieSlots DEF Start, Inv
<1>4. b \in Browsers
  OBVIOUS
<1>5. /\ made' \in [States -> Configured \cup {NoProvider}]
      /\ home' \in [States -> Browsers \cup {Nobody}]
      /\ fresh' \in SUBSET States
      /\ made'[n] = p /\ home'[n] = b
      /\ \A m \in States : made[m] # NoProvider => made'[m] = made[m] /\ home'[m] = home[m]
  BY <1>2, MakeFields
<1>6. TypeOK'
  BY <1>1, <1>2, <1>3, <1>5 DEF Inv, TypeOK, AwayAt
<1>7. StatesKnown'
  <2>1. \A m \in States : made'[m] # NoProvider => made'[m] \in Providers
    BY <1>5
  <2>2. ASSUME NEW c \in Browsers, NEW r \in Providers, cookie'[c][r] # NoState
        PROVE  home'[cookie'[c][r]] = c /\ made'[cookie'[c][r]] = r
    <3>1. CASE c = b /\ r = p
      BY <1>3, <1>5, <3>1
    <3>2. CASE ~(c = b /\ r = p)
      <4>1. cookie'[c][r] = cookie[c][r] /\ cookie[c][r] \in States
        BY <1>3, <2>2, <3>2 DEF Inv, TypeOK
      <4>2. home[cookie[c][r]] = c /\ made[cookie[c][r]] = r
        BY <2>2, <4>1 DEF Inv, StatesKnown
      <4> QED BY <1>5, <4>1, <4>2
    <3> QED BY <3>1, <3>2
  <2> QED BY <2>1, <2>2 DEF StatesKnown
<1>8. ASSUME NEW u \in Tabs PROVE Holds(u)'
  <2>1. CASE u = t
    <3>1. tab'[u] = q
      BY <1>2, <2>1 DEF Inv, TypeOK
    <3>2. cookie'[b][p] = n
      BY <1>3, <1>4
    <3> QED BY <1>1, <1>5, <2>1, <3>1, <3>2 DEF Holds, UnderWay, AtHome, Brings, Kept
  <2>2. CASE u # t
    <3>1. tab'[u] = tab[u]
      BY <1>2, <2>2 DEF Inv, TypeOK
    <3>2. ASSUME tab[u].pc = "away", u \notin disturbed'
          PROVE  /\ u \notin disturbed
                 /\ cookie'[BrowserOf[u]][tab[u].provider] = cookie[BrowserOf[u]][tab[u].provider]
      <4>1. u \notin disturbed /\ ~(BrowserOf[u] = b /\ tab[u].provider = p)
        BY <1>2, <2>2, <3>2 DEF AwayAt
      <4>2. tab[u].provider \in Providers
        BY <3>2 DEF Inv, Holds, UnderWay
      <4> QED BY <1>3, <4>1, <4>2
    <3> QED BY <1>5, <3>1, <3>2, OthersKeep
  <2> QED BY <2>1, <2>2
<1>9. CodesSpent'
  BY <1>2 DEF Inv, CodesSpent
<1> QED BY <1>6, <1>7, <1>8, <1>9 DEF Inv

\* A callback that is not validated makes a state for its own response.
LEMMA CallbackUncheckedKeeps ==
    ASSUME Inv, NEW t \in Tabs, NEW n \in States, CallbackUnchecked(t, n)
    PROVE  Inv'
<1> PICK q : q = [tab[t] EXCEPT !.pc = "accepted", !.next = n]
  OBVIOUS
<1>1. /\ tab[t] \in Tab /\ tab[t].pc = "away" /\ UnderWay(t)
      /\ tab[t].provider \in Providers
  BY DEF Inv, TypeOK, Holds, UnderWay, CallbackUnchecked
<1>2. /\ q.pc = "accepted" /\ q.provider = tab[t].provider /\ q.state = tab[t].state
      /\ q.next = n /\ q \in Tab /\ n # NoState
  BY <1>1 DEF Tab
<1>3. /\ tab' = [tab EXCEPT ![t] = q] /\ Make(t, tab[t].provider, n)
      /\ disturbed' = disturbed \ {t}
      /\ UNCHANGED <<cookie, stored, handed, used>>
  BY DEF CallbackUnchecked, handoff
<1>4. /\ tab' \in [Tabs -> Tab] /\ tab'[t] = q /\ \A u \in Tabs \ {t} : tab'[u] = tab[u]
  BY <1>2, <1>3 DEF Inv, TypeOK
<1>5. /\ made' \in [States -> Configured \cup {NoProvider}]
      /\ home' \in [States -> Browsers \cup {Nobody}]
      /\ fresh' \in SUBSET States
      /\ made'[n] = tab[t].provider /\ home'[n] = BrowserOf[t]
      /\ \A m \in States : made[m] # NoProvider => made'[m] = made[m] /\ home'[m] = home[m]
  <2> PICK p \in Providers : p = tab[t].provider
    BY <1>1
  <2>1. Make(t, p, n)
    BY <1>3
  <2> QED BY <2>1, MakeFields
<1>6. TypeOK'
  BY <1>3, <1>4, <1>5 DEF Inv, TypeOK
<1>7. StatesKnown'
  <2>1. \A m \in States : made'[m] # NoProvider => made'[m] \in Providers
    BY <1>5
  <2>2. ASSUME NEW c \in Browsers, NEW r \in Providers, cookie'[c][r] # NoState
        PROVE  home'[cookie'[c][r]] = c /\ made'[cookie'[c][r]] = r
    <3>1. cookie'[c][r] = cookie[c][r] /\ cookie[c][r] \in States
      BY <1>3, <2>2 DEF Inv, TypeOK
    <3>2. home[cookie[c][r]] = c /\ made[cookie[c][r]] = r
      BY <2>2, <3>1 DEF Inv, StatesKnown
    <3> QED BY <1>5, <3>1, <3>2
  <2> QED BY <2>1, <2>2 DEF StatesKnown
<1>8. Holds(t)'
  <2>1. UnderWay(t)'
    BY <1>1, <1>2, <1>4, <1>5 DEF UnderWay
  <2>2. AtHome(t)' /\ Kept(t)'
    BY <1>2, <1>4 DEF AtHome, Kept
  <2>3. Brings(t)'
    BY <1>1, <1>2, <1>4, <1>5 DEF Brings
  <2> QED BY <2>1, <2>2, <2>3 DEF Holds
<1>9. ASSUME NEW u \in Tabs \ {t} PROVE Holds(u)'
  BY <1>3, <1>4, <1>5, OthersKeep
<1>10. CodesSpent'
  BY <1>3 DEF Inv, CodesSpent
<1> QED BY <1>6, <1>7, <1>8, <1>9, <1>10 DEF Inv

LEMMA ReopenKeeps ==
    ASSUME Inv, NEW t \in Tabs, NEW n \in States, Reopen(t, n)
    PROVE  Inv'
<1> PICK q : q = [Idle EXCEPT !.pc = "away", !.provider = made[n], !.state = n]
  OBVIOUS
<1>1. made[n] \in Providers
  BY DEF Reopen, Inv, StatesKnown
<1>2. /\ q.pc = "away" /\ q.provider = made[n] /\ q.state = n /\ q.next = NoState
      /\ q \in Tab
  BY <1>1 DEF Idle, Tab
<1>3. /\ tab' = [tab EXCEPT ![t] = q] /\ disturbed' = disturbed \cup {t}
      /\ UNCHANGED <<made, home, fresh, cookie, stored, handed, used>>
  BY DEF Reopen, issue, handoff
<1>4. TypeOK' /\ StatesKnown' /\ CodesSpent'
  BY <1>2, <1>3 DEF Inv, TypeOK, StatesKnown, CodesSpent
<1>5. ASSUME NEW u \in Tabs PROVE Holds(u)'
  <2>1. CASE u = t
    <3>1. tab'[u] = q /\ u \in disturbed'
      BY <1>3, <2>1 DEF Inv, TypeOK
    <3> QED BY <1>1, <1>2, <1>3, <2>1, <3>1 DEF Holds, UnderWay, AtHome, Brings, Kept
  <2>2. CASE u # t
    <3>1. tab'[u] = tab[u]
      BY <1>3, <2>2 DEF Inv, TypeOK
    <3> QED BY <1>3, <3>1, OthersKeep
  <2> QED BY <2>1, <2>2
<1> QED BY <1>4, <1>5 DEF Inv

LEMMA CallbackKeeps ==
    ASSUME Inv, NEW t \in Tabs, Callback(t)
    PROVE  Inv'
<1> PICK pc : pc = IF Valid(t) THEN "accepted" ELSE "refused"
  OBVIOUS
<1>1. /\ tab[t].pc = "away" /\ Move(t, pc) /\ disturbed' = disturbed \ {t}
      /\ UNCHANGED <<made, home, fresh, cookie, stored, handed, used>>
  BY DEF Callback, issue, handoff
<1>2. /\ tab' \in [Tabs -> Tab] /\ tab'[t].pc = pc
      /\ tab'[t].provider = tab[t].provider /\ tab'[t].state = tab[t].state
      /\ tab'[t].next = tab[t].next
      /\ \A u \in Tabs \ {t} : tab'[u] = tab[u]
  BY <1>1, MoveFields DEF Inv
<1>3. TypeOK' /\ StatesKnown' /\ CodesSpent'
  BY <1>1, <1>2 DEF Inv, TypeOK, StatesKnown, CodesSpent
<1>4. Holds(t)'
  <2>1. UnderWay(t) /\ Brings(t) /\ BrowserOf[t] \in Browsers
    BY DEF Inv, Holds
  <2>2. UnderWay(t)'
    BY <1>1, <1>2, <2>1 DEF UnderWay
  <2>3. AtHome(t)'
    <3>1. CASE Valid(t)
      <4>1. /\ cookie[BrowserOf[t]][tab[t].provider] = tab[t].state
            /\ made[tab[t].state] = tab[t].provider
        BY <3>1 DEF Valid, MatchesCookie, Slot
      <4>2. home[tab[t].state] = BrowserOf[t]
        BY <1>1, <2>1, <4>1 DEF Inv, StatesKnown, UnderWay
      <4> QED BY <1>1, <1>2, <4>1, <4>2 DEF AtHome
    <3>2. CASE ~Valid(t)
      BY <1>2, <3>2 DEF AtHome
    <3> QED BY <3>1, <3>2
  <2>4. Kept(t)'
    BY <1>2 DEF Kept
  <2>5. Brings(t)'
    BY <1>1, <1>2, <2>1 DEF Brings
  <2> QED BY <2>2, <2>3, <2>4, <2>5 DEF Holds
<1>5. ASSUME NEW u \in Tabs \ {t} PROVE Holds(u)'
  BY <1>1, <1>2, OthersKeep
<1> QED BY <1>3, <1>4, <1>5 DEF Inv

\* Steps that move a tab on, past validate and short of nothing, and leave
\* the states and the cookies alone.
LEMMA MoveKeeps ==
    ASSUME Inv, NEW t \in Tabs,
           tab[t].pc \in {"accepted", "signed"} \/ tab'[t].pc = "refused",
           tab[t].pc # "idle",
           tab'[t].pc \in {"signed", "stored", "refused"},
           tab'[t].provider = tab[t].provider, tab'[t].state = tab[t].state,
           tab'[t].next = tab[t].next, tab' \in [Tabs -> Tab], \A u \in Tabs \ {t} : tab'[u] = tab[u],
           UNCHANGED <<issue, cookie, disturbed>>
    PROVE  \A u \in Tabs : Holds(u)'
<1>1. UNCHANGED <<made, home, fresh, cookie, disturbed>>
  BY DEF issue
<1>2. Holds(t)'
  BY <1>1 DEF Inv, Holds, UnderWay, AtHome, Brings, Kept
<1>3. ASSUME NEW u \in Tabs \ {t} PROVE Holds(u)'
  BY <1>1, OthersKeep
<1> QED BY <1>2, <1>3

LEMMA SignInKeeps ==
    ASSUME Inv, NEW t \in Tabs, SignIn(t)
    PROVE  Inv'
<1> PICK pc \in {"signed", "refused"} : Move(t, pc)
  BY DEF SignIn
<1>1. /\ tab[t].pc = "accepted"
      /\ UNCHANGED <<issue, made, home, fresh, cookie, stored, handed, used, disturbed>>
  BY DEF SignIn, issue, handoff
<1>2. /\ tab' \in [Tabs -> Tab] /\ tab'[t].pc = pc
      /\ tab'[t].provider = tab[t].provider /\ tab'[t].state = tab[t].state
      /\ tab'[t].next = tab[t].next
      /\ \A u \in Tabs \ {t} : tab'[u] = tab[u]
  BY MoveFields DEF Inv
<1>3. TypeOK' /\ StatesKnown' /\ CodesSpent'
  BY <1>1, <1>2 DEF Inv, TypeOK, StatesKnown, CodesSpent
<1>4. \A u \in Tabs : Holds(u)'
  BY <1>1, <1>2, MoveKeeps
<1> QED BY <1>3, <1>4 DEF Inv

LEMMA StoreKeeps ==
    ASSUME Inv, NEW t \in Tabs, NEW c \in Codes, Store(t, c)
    PROVE  Inv'
<1>1. /\ tab[t].pc = "signed" /\ c \notin used
      /\ used' = used \cup {c}
      /\ stored' \in {stored, stored \cup {c}}
      /\ UNCHANGED <<issue, made, home, fresh, cookie, handed, disturbed>>
  BY DEF Store, issue
<1>2. /\ tab' \in [Tabs -> Tab] /\ tab'[t].pc \in {"stored", "refused"}
      /\ tab'[t].provider = tab[t].provider /\ tab'[t].state = tab[t].state
      /\ tab'[t].next = tab[t].next
      /\ \A u \in Tabs \ {t} : tab'[u] = tab[u]
  <2>1. CASE tab' = [tab EXCEPT ![t] = [tab[t] EXCEPT !.pc = "stored", !.code = c]]
    <3> PICK q : q = [tab[t] EXCEPT !.pc = "stored", !.code = c]
      OBVIOUS
    <3>1. tab[t] \in Tab
      BY DEF Inv, TypeOK
    <3>2. /\ q.pc = "stored" /\ q.provider = tab[t].provider
          /\ q.state = tab[t].state /\ q.next = tab[t].next /\ q \in Tab
      BY <3>1 DEF Tab
    <3>3. tab' = [tab EXCEPT ![t] = q]
      BY <2>1
    <3> QED BY <3>2, <3>3 DEF Inv, TypeOK
  <2>2. CASE Move(t, "refused")
    BY <2>2, MoveFields DEF Inv
  <2> QED BY <2>1, <2>2 DEF Store
<1>3. TypeOK' /\ StatesKnown'
  BY <1>1, <1>2 DEF Inv, TypeOK, StatesKnown
<1>4. CodesSpent'
  BY <1>1 DEF Inv, TypeOK, CodesSpent
<1>5. \A u \in Tabs : Holds(u)'
  BY <1>1, <1>2, MoveKeeps
<1> QED BY <1>3, <1>4, <1>5 DEF Inv

LEMMA RespondKeeps ==
    ASSUME Inv, NEW t \in Tabs, Respond(t)
    PROVE  Inv'
<1> DEFINE b == BrowserOf[t]
<1> DEFINE p == tab[t].provider
<1> DEFINE n == tab[t].next
<1>1. /\ tab[t].pc \in {"stored", "refused"}
      /\ SetCookie(t, p, n)
      /\ disturbed' = disturbed \cup AwayAt(b, p)
      /\ UNCHANGED <<made, home, fresh, stored, handed, used>>
  BY DEF Respond, issue, handoff
<1>2. /\ p \in Providers /\ b \in Browsers /\ n \in States \cup {NoState}
      /\ n # NoState => home[n] = b /\ made[n] = p
  BY <1>1 DEF Inv, TypeOK, Tab, Holds, UnderWay, Brings
<1>3. /\ cookie' \in [Browsers -> [Providers -> States \cup {NoState}]]
      /\ \A c \in Browsers, r \in Providers :
            cookie'[c][r] = IF c = b /\ r = p THEN n ELSE cookie[c][r]
  <2>1. TypeOK
    BY DEF Inv
  <2> HIDE DEF p, n
  <2> QED BY <1>1, <1>2, <2>1, CookieSlots
<1>4. /\ tab' \in [Tabs -> Tab]
      /\ \A u \in Tabs \ {t} : tab'[u] = tab[u]
      /\ \/ tab'[t] = Idle
         \/ /\ tab[t].pc = "stored" /\ tab'[t].pc = "landed"
            /\ tab'[t].provider = tab[t].provider /\ tab'[t].state = tab[t].state
            /\ tab'[t].next = tab[t].next
  <2>1. CASE tab[t].pc = "stored"
    BY <2>1, MoveFields DEF Respond, Inv
  <2>2. CASE tab[t].pc # "stored"
    BY <2>2, IdleType DEF Respond, Inv, TypeOK
  <2> QED BY <2>1, <2>2
<1>5. TypeOK' /\ CodesSpent'
  BY <1>1, <1>3, <1>4 DEF Inv, TypeOK, CodesSpent, AwayAt
<1>6. StatesKnown'
  BY <1>1, <1>2, <1>3 DEF Inv, StatesKnown
<1>7. Holds(t)'
  <2>1. CASE tab'[t] = Idle
    BY <2>1, IdleKeeps
  <2>2. CASE tab'[t] # Idle
    BY <1>1, <1>4, <2>2 DEF Inv, Holds, UnderWay, AtHome, Brings, Kept
  <2> QED BY <2>1, <2>2
<1>8. ASSUME NEW u \in Tabs \ {t} PROVE Holds(u)'
  <2>1. ASSUME tab[u].pc = "away", u \notin disturbed'
        PROVE  /\ u \notin disturbed
               /\ cookie'[BrowserOf[u]][tab[u].provider] = cookie[BrowserOf[u]][tab[u].provider]
    <3>1. u \notin disturbed /\ ~(BrowserOf[u] = b /\ tab[u].provider = p)
      BY <1>1, <2>1 DEF AwayAt
    <3>2. tab[u].provider \in Providers
      BY <2>1 DEF Inv, Holds, UnderWay
    <3> QED BY <1>3, <3>1, <3>2
  <2> QED BY <1>1, <1>4, <2>1, OthersKeep
<1> QED BY <1>5, <1>6, <1>7, <1>8 DEF Inv

LEMMA LeaveKeeps ==
    ASSUME Inv, NEW t \in Tabs, Leave(t)
    PROVE  Inv'
<1>1. /\ tab' = [tab EXCEPT ![t] = Idle] /\ disturbed' = disturbed \ {t}
      /\ UNCHANGED <<made, home, fresh, cookie, stored, handed, used>>
  BY DEF Leave, issue, handoff
<1>2. TypeOK' /\ StatesKnown' /\ CodesSpent'
  BY <1>1, IdleType DEF Inv, TypeOK, StatesKnown, CodesSpent
<1>3. ASSUME NEW u \in Tabs PROVE Holds(u)'
  <2>1. CASE u = t
    BY <1>1, <2>1, IdleKeeps DEF Inv, TypeOK
  <2>2. CASE u # t
    <3>1. tab'[u] = tab[u]
      BY <1>1, <2>2 DEF Inv, TypeOK
    <3> QED BY <1>1, <2>2, <3>1, OthersKeep
  <2> QED BY <2>1, <2>2
<1> QED BY <1>2, <1>3 DEF Inv

LEMMA ExchangeKeeps ==
    ASSUME Inv, NEW t \in Tabs, Exchange(t)
    PROVE  Inv'
<1> DEFINE c == tab[t].code
<1>1. /\ c \in stored /\ stored' = stored \ {c}
      /\ handed' \in {handed, [handed EXCEPT ![c] = @ + 1]}
      /\ UNCHANGED <<made, home, fresh, cookie, used, tab, disturbed>>
  BY DEF Exchange, Consumed, issue
<1>2. c \in Codes /\ handed[c] = 0 /\ c \in used
  BY <1>1 DEF Inv, TypeOK, CodesSpent
<1>3. /\ handed' \in [Codes -> Nat]
      /\ \A d \in Codes : handed'[d] = handed[d] \/ (d = c /\ handed'[d] = 1)
  BY <1>1, <1>2 DEF Inv, TypeOK
<1>4. TypeOK' /\ StatesKnown'
  BY <1>1, <1>3 DEF Inv, TypeOK, StatesKnown
<1>5. CodesSpent'
  <2> HIDE DEF c
  <2> QED BY <1>1, <1>2, <1>3 DEF Inv, CodesSpent
<1>6. ASSUME NEW u \in Tabs PROVE Holds(u)'
  BY <1>1, OthersKeep
<1> QED BY <1>4, <1>5, <1>6 DEF Inv

LEMMA TimeKeeps ==
    ASSUME Inv, \/ \E n \in States : Expire(n)
                \/ \E c \in Codes : Lapse(c)
    PROVE  Inv'
<1>1. /\ fresh' \subseteq fresh /\ stored' \subseteq stored
      /\ UNCHANGED <<made, home, cookie, handed, used, tab, disturbed>>
  BY DEF Expire, Lapse, issue, handoff
<1>2. TypeOK' /\ StatesKnown' /\ CodesSpent'
  BY <1>1 DEF Inv, TypeOK, StatesKnown, CodesSpent
<1>3. ASSUME NEW u \in Tabs PROVE Holds(u)'
  BY <1>1, OthersKeep
<1> QED BY <1>2, <1>3 DEF Inv

LEMMA DropCookiesKeeps ==
    ASSUME Inv, NEW b \in Browsers, DropCookies(b)
    PROVE  Inv'
<1>1. /\ cookie' = [cookie EXCEPT ![b] = [p \in Providers |-> NoState]]
      /\ disturbed' = disturbed \cup UNION {AwayAt(b, p) : p \in Providers}
      /\ UNCHANGED <<made, home, fresh, stored, handed, used, tab>>
  BY DEF DropCookies, issue, handoff
<1>2. /\ cookie' \in [Browsers -> [Providers -> States \cup {NoState}]]
      /\ \A c \in Browsers, r \in Providers :
            cookie'[c][r] = IF c = b THEN NoState ELSE cookie[c][r]
  BY <1>1 DEF Inv, TypeOK
<1>3. TypeOK' /\ CodesSpent'
  BY <1>1, <1>2 DEF Inv, TypeOK, CodesSpent, AwayAt
<1>4. StatesKnown'
  BY <1>1, <1>2 DEF Inv, StatesKnown
<1>5. ASSUME NEW u \in Tabs PROVE Holds(u)'
  <2>1. ASSUME tab[u].pc = "away", u \notin disturbed'
        PROVE  /\ u \notin disturbed
               /\ cookie'[BrowserOf[u]][tab[u].provider] = cookie[BrowserOf[u]][tab[u].provider]
    <3>1. tab[u].provider \in Providers
      BY <2>1 DEF Inv, Holds, UnderWay
    <3>2. u \notin disturbed /\ u \notin AwayAt(b, tab[u].provider)
      BY <1>1, <2>1, <3>1
    <3>3. BrowserOf[u] # b
      BY <2>1, <3>2 DEF AwayAt
    <3> QED BY <1>2, <3>1, <3>2, <3>3
  <2> QED BY <1>1, <2>1, OthersKeep
<1> QED BY <1>3, <1>4, <1>5 DEF Inv

LEMMA StutterKeeps ==
    ASSUME Inv, UNCHANGED vars
    PROVE  Inv'
BY DEF Inv, vars, TypeOK, StatesKnown, CodesSpent, Holds, UnderWay, AtHome, Brings, Kept

\* Every reachable state satisfies the inductive invariant.
THEOREM Invariance == Spec => []Inv
<1>1. Init => Inv
  BY InitInvariant
<1>2. Inv /\ [Next]_vars => Inv'
  <2> SUFFICES ASSUME Inv, [Next]_vars PROVE Inv'
    OBVIOUS
  <2>1. ASSUME NEW t \in Tabs,
               \/ \E p \in Providers, n \in States : Start(t, p, n)
               \/ \E n \in States : Reopen(t, n) \/ CallbackUnchecked(t, n)
               \/ \E c \in Codes : Store(t, c)
               \/ Callback(t) \/ SignIn(t) \/ Respond(t) \/ Leave(t) \/ Exchange(t)
        PROVE  Inv'
    BY <2>1, StartKeeps, ReopenKeeps, StoreKeeps, CallbackKeeps, CallbackUncheckedKeeps,
       SignInKeeps, RespondKeeps, LeaveKeeps, ExchangeKeeps
  <2>2. CASE (\E n \in States : Expire(n)) \/ (\E c \in Codes : Lapse(c))
    BY <2>2, TimeKeeps
  <2>3. CASE \E b \in Browsers : DropCookies(b)
    BY <2>3, DropCookiesKeeps
  <2>4. CASE UNCHANGED vars
    BY <2>4, StutterKeeps
  <2> QED BY <2>1, <2>2, <2>3, <2>4 DEF Next
<1> QED BY <1>1, <1>2, PTL DEF Spec

-----------------------------------------------------------------------------
\* Every variable keeps to its type.
THEOREM TypeCorrect == Spec => []TypeOK
<1>1. Inv => TypeOK
  BY DEF Inv
<1> QED BY <1>1, Invariance, PTL

\* A sign-in whose callback was validated ends in the browser and at the
\* provider it began with (OAuthStateService.validate; the guard calls it for
\* a path that ends in "/callback").
THEOREM EndsAtHome == Spec => []EndsWhereItBegan
<1>1. Inv => EndsWhereItBegan
  BY DEF Inv, Holds, AtHome, EndsWhereItBegan
<1> QED BY <1>1, Invariance, PTL

\* A tab nobody disturbs passes when it returns in time: starts, callbacks
\* and responses at other providers, or elsewhere, leave its cookie alone.
THEOREM Returns == Spec => []UndisturbedReturns
<1>1. Inv => UndisturbedReturns
  <2> SUFFICES ASSUME Inv, NEW t \in Tabs, tab[t].pc = "away", t \notin disturbed,
                      tab[t].state \in fresh
               PROVE  Valid(t)
    BY DEF UndisturbedReturns
  <2>1. Kept(t)
    BY DEF Inv, Holds
  <2> QED BY <2>1 DEF Kept, Valid, MatchesCookie, Slot
<1> QED BY <1>1, Invariance, PTL

\* Tokens behind a handoff code go out once at most (the script of
\* OAuthHandoffService.consume reads and deletes at one stroke).
THEOREM HandsOutOnce == Spec => []HandedOutOnce
<1>1. Inv => HandedOutOnce
  BY DEF Inv, CodesSpent, HandedOutOnce
<1> QED BY <1>1, Invariance, PTL
=============================================================================
