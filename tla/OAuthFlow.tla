------------------------------ MODULE OAuthFlow ------------------------------
(* Sign-in with an OAuth provider, from the entry point to the exchange of   *)
(* the handoff code.  The server keeps nothing between the entry point and   *)
(* the callback: the signed state travels in the address and in one cookie   *)
(* per browser and provider, and a response that sets or clears the cookie   *)
(* takes effect when it reaches the browser.  Any number of tabs share it.   *)
EXTENDS Naturals

CONSTANTS Tabs, Browsers,
          BrowserOf,      \* the browser of each tab
          Providers,
          Configured,     \* those with credentials in the environment
          States,         \* signed states, one for each start
          Codes,          \* handoff codes
          NoState, NoProvider, NoCode, Nobody

ASSUME BrowserAssumption == BrowserOf \in [Tabs -> Browsers]
ASSUME ConfiguredAssumption == Configured \subseteq Providers
ASSUME NothingAssumption ==
    /\ NoState \notin States /\ NoProvider \notin Providers
    /\ NoCode \notin Codes /\ Nobody \notin Browsers

VARIABLES
    made,        \* the provider a state was made for
    home,        \* the browser it was made in (nothing in the code knows)
    fresh,       \* states that have not expired
    cookie,      \* cookie[b][s]: the state in slot s of browser b
    stored,      \* handoff codes in Redis
    handed,      \* how often the tokens behind a code were handed out
    used,        \* codes drawn so far
    tab,         \* where each tab is
    disturbed    \* tabs whose way back another tab, or the browser, crossed

vars == <<made, home, fresh, cookie, stored, handed, used, tab, disturbed>>
issue == <<made, home, fresh>>
handoff == <<stored, handed, used>>

Tab == [pc : {"idle", "away", "accepted", "signed", "stored", "refused", "landed"},
        provider : Providers \cup {NoProvider},
        state : States \cup {NoState},
        next : States \cup {NoState},    \* what its response leaves in the cookie
        code : Codes \cup {NoCode}]

Idle == [pc |-> "idle", provider |-> NoProvider, state |-> NoState,
         next |-> NoState, code |-> NoCode]

TypeOK ==
    /\ made \in [States -> Configured \cup {NoProvider}]
    /\ home \in [States -> Browsers \cup {Nobody}]
    /\ fresh \in SUBSET States
    /\ cookie \in [Browsers -> [Providers -> States \cup {NoState}]]
    /\ stored \in SUBSET Codes
    /\ handed \in [Codes -> Nat]
    /\ used \in SUBSET Codes
    /\ tab \in [Tabs -> Tab]
    /\ disturbed \in SUBSET Tabs

Init ==
    /\ made = [n \in States |-> NoProvider]
    /\ home = [n \in States |-> Nobody]
    /\ fresh = {}
    /\ cookie = [b \in Browsers |-> [p \in Providers |-> NoState]]
    /\ stored = {}
    /\ handed = [c \in Codes |-> 0]
    /\ used = {}
    /\ tab = [t \in Tabs |-> Idle]
    /\ disturbed = {}

SharedSlot(p) == CHOOSE q \in Providers : TRUE

\* cookieName
Slot(p) == p

\* Tabs at provider p whose cookie is the one of browser b.
AwayAt(b, p) == {t \in Tabs : /\ tab[t].pc = "away"
                              /\ tab[t].provider = p
                              /\ BrowserOf[t] = b}

\* A response sets the cookie of t's browser for p to n.
SetCookie(t, p, n) ==
    LET b == BrowserOf[t]
    IN  cookie' = [cookie EXCEPT ![b] = [cookie[b] EXCEPT ![Slot(p)] = n]]

Move(t, pc) == tab' = [tab EXCEPT ![t] = [tab[t] EXCEPT !.pc = pc]]

AnyProvider(p) == TRUE

\* assertConfigured
IsConfigured(p) == p \in Configured

\* create: a state for provider p, for the browser of t.
Make(t, p, n) ==
    /\ IsConfigured(p)
    /\ made[n] = NoProvider
    /\ made' = [made EXCEPT ![n] = p]
    /\ home' = [home EXCEPT ![n] = BrowserOf[t]]
    /\ fresh' = fresh \cup {n}

-----------------------------------------------------------------------------
\* GET /auth/oauth/:provider: the guard makes a state, and the browser gets
\* the cookie with the redirect to the provider.
Start(t, p, n) ==
    /\ tab[t].pc = "idle"
    /\ Make(t, p, n)
    /\ SetCookie(t, p, n)
    /\ tab' = [tab EXCEPT ![t] = [Idle EXCEPT !.pc = "away", !.provider = p, !.state = n]]
    /\ disturbed' = (disturbed \cup AwayAt(BrowserOf[t], p)) \ {t}
    /\ UNCHANGED handoff

\* The address of a callback is opened elsewhere, or again.
Reopen(t, n) ==
    /\ tab[t].pc \in {"idle", "landed"}
    /\ made[n] # NoProvider
    /\ tab' = [tab EXCEPT ![t] = [Idle EXCEPT !.pc = "away", !.provider = made[n], !.state = n]]
    /\ disturbed' = disturbed \cup {t}
    /\ UNCHANGED <<issue, cookie, handoff>>

MatchesSignature(t) == made[tab[t].state] # NoProvider

\* The state of the address is the one of the cookie.
MatchesCookie(t) ==
    cookie[BrowserOf[t]][Slot(tab[t].provider)] = tab[t].state

\* validate.  Whoever holds a state got it from the server, so its signature
\* is good; the provider is the one whose callback it is.
Valid(t) ==
    /\ MatchesCookie(t)
    /\ made[tab[t].state] = tab[t].provider
    /\ tab[t].state \in fresh

\* GET /auth/oauth/:provider/callback reaches the guard with its cookies.
Callback(t) ==
    /\ tab[t].pc = "away"
    /\ Move(t, IF Valid(t) THEN "accepted" ELSE "refused")
    /\ disturbed' = disturbed \ {t}
    /\ UNCHANGED <<issue, cookie, handoff>>

\* The same in a spelling that the router takes and the guard does not (with
\* a slash at the end, or in other letters): not validated, and the response
\* brings a new state as from the entry point.
CallbackUnchecked(t, n) ==
    /\ tab[t].pc = "away"
    /\ Make(t, tab[t].provider, n)
    /\ tab' = [tab EXCEPT ![t] = [tab[t] EXCEPT !.pc = "accepted", !.next = n]]
    /\ disturbed' = disturbed \ {t}
    /\ UNCHANGED <<cookie, handoff>>

\* The provider takes its code and returns the profile, and oauthLogin signs
\* the user in; or one of them fails.
SignIn(t) ==
    /\ tab[t].pc = "accepted"
    /\ Move(t, "signed") \/ Move(t, "refused")
    /\ UNCHANGED <<issue, cookie, handoff, disturbed>>

\* OAuthHandoffService.create; its call may fail and yet be applied.
Store(t, c) ==
    /\ tab[t].pc = "signed"
    /\ c \notin used
    /\ used' = used \cup {c}
    /\ \/ /\ stored' = stored \cup {c}
          /\ tab' = [tab EXCEPT ![t] = [tab[t] EXCEPT !.pc = "stored", !.code = c]]
       \/ /\ stored' \in {stored, stored \cup {c}}
          /\ Move(t, "refused")
    /\ UNCHANGED <<issue, cookie, handed, disturbed>>

\* The response arrives and clears the cookie, or sets it when it brings a
\* state, whatever is in it by now; with the redirect of a sign-in the page of
\* the frontend opens.
Respond(t) ==
    /\ tab[t].pc \in {"stored", "refused"}
    /\ SetCookie(t, tab[t].provider, tab[t].next)
    /\ IF tab[t].pc = "stored"
       THEN Move(t, "landed")
       ELSE tab' = [tab EXCEPT ![t] = Idle]
    /\ disturbed' = disturbed \cup AwayAt(BrowserOf[t], tab[t].provider)
    /\ UNCHANGED <<issue, handoff>>

\* The user gives up, or the response is lost; the cookie stays.
Leave(t) ==
    /\ tab[t].pc # "idle"
    /\ tab' = [tab EXCEPT ![t] = Idle]
    /\ disturbed' = disturbed \ {t}
    /\ UNCHANGED <<issue, cookie, handoff>>

ReadOnly(c) == stored

\* What the script leaves of the stored codes.
Consumed(c) == stored \ {c}

\* POST /auth/oauth/exchange, as often as the page asks; the answer may be lost.
Exchange(t) ==
    LET c == tab[t].code
    IN  /\ tab[t].pc = "landed"
        /\ c \in stored
        /\ stored' = Consumed(c)
        /\ \/ handed' = [handed EXCEPT ![c] = @ + 1]
           \/ UNCHANGED handed
        /\ UNCHANGED <<issue, cookie, used, tab, disturbed>>

-----------------------------------------------------------------------------
\* Ten minutes pass for a state, or the TTL of a code.
Expire(n) ==
    /\ n \in fresh
    /\ fresh' = fresh \ {n}
    /\ UNCHANGED <<made, home, cookie, handoff, tab, disturbed>>

Lapse(c) ==
    /\ c \in stored
    /\ stored' = stored \ {c}
    /\ UNCHANGED <<issue, cookie, handed, used, tab, disturbed>>

\* A browser drops its cookies.
DropCookies(b) ==
    /\ cookie' = [cookie EXCEPT ![b] = [p \in Providers |-> NoState]]
    /\ disturbed' = disturbed \cup UNION {AwayAt(b, p) : p \in Providers}
    /\ UNCHANGED <<issue, handoff, tab>>

Next ==
    \/ \E t \in Tabs :
          \/ \E p \in Providers, n \in States : Start(t, p, n)
          \/ \E n \in States : Reopen(t, n) \/ CallbackUnchecked(t, n)
          \/ \E c \in Codes : Store(t, c)
          \/ Callback(t) \/ SignIn(t) \/ Respond(t) \/ Leave(t) \/ Exchange(t)
    \/ \E n \in States : Expire(n)
    \/ \E c \in Codes : Lapse(c)
    \/ \E b \in Browsers : DropCookies(b)

Spec == Init /\ [][Next]_vars

-----------------------------------------------------------------------------
(* Properties *)

\* A sign-in whose callback was validated ends in the browser it began in, at
\* the provider it began with, whatever other tabs and callbacks that were not
\* validated leave in the cookie: opened in another browser it goes no further
\* than validate.  Of a callback that is not validated it says nothing.
EndsWhereItBegan ==
    \A t \in Tabs :
        /\ tab[t].pc \in {"accepted", "signed", "stored", "landed"}
        /\ tab[t].next = NoState
        =>
        /\ home[tab[t].state] = BrowserOf[t]
        /\ made[tab[t].state] = tab[t].provider

\* A tab that comes back in time passes, unless meanwhile another tab of its
\* browser began or ended a sign-in with the same provider, or the cookies
\* went: sign-ins with other providers and in other browsers do not interfere.
UndisturbedReturns ==
    \A t \in Tabs : tab[t].pc = "away" /\ t \notin disturbed
                        /\ tab[t].state \in fresh => Valid(t)

\* The "short-lived, single-use handoff code": its tokens are handed out once
\* at most, however often the exchange is asked for or its answer lost.
HandedOutOnce == \A c \in Codes : handed[c] <= 1
=============================================================================
