------------------------------ MODULE OwnerAuth ------------------------------
(***************************************************************************)
(* Who is let in, and what the server list of a user holds: the routes of  *)
(* worker/src/auth.ts and servers.ts with the middleware, and the pages    *)
(* that call them (web/src/main.ts, auth.ts, servers.ts).                  *)
(*                                                                         *)
(* Self-deploy: the first visitor registers a passkey and is the owner,    *)
(* later logins prove it.  Demo: everyone gets a user of his own, whose    *)
(* data expires.  A ceremony is two requests with the authenticator in     *)
(* between; the verify request reads user:owner, takes the challenge,      *)
(* verifies, and writes user:owner whole.  KV has no transactions, so      *)
(* requests of other pages fall between these steps.  A page is in one     *)
(* request or dialog at a time; an error leaves it where it was before the *)
(* ceremony.  A key of KV with a TTL is gone when that has passed.  The    *)
(* cards of the dashboard stay in use while a save is under way, so saves  *)
(* of one page overlap.                                                    *)
(***************************************************************************)
EXTENDS Integers, FiniteSets, Functions

CONSTANTS
  Browsers,        \* a browser with its cookie and its authenticator
  Pages,           \* open pages
  Layouts,         \* the ways in which the pages are spread over the browsers
  Servers,         \* what may be saved in the list
  Modes,           \* DEMO_MODE: a set of truth values
  Saves,           \* the requests POST /api/servers that can be under way
  MayFail,         \* whether /api/servers may answer with an error
  ChallengeTtl, DemoTtl, PasskeyTtl,  \* 5 minutes, 24 hours, 7 days
  MaxIds,          \* bound: challenges and demo users
  MaxTime,         \* bound: time
  MaxRequests      \* bound, for each layout: challenges, demo users and saves

ASSUME OwnerAuthAssumption ==
  /\ Layouts \subseteq [Pages -> Browsers] /\ Modes \subseteq BOOLEAN /\ MayFail \in BOOLEAN
  /\ {ChallengeTtl, DemoTtl, PasskeyTtl, MaxIds, MaxTime} \subseteq Nat \ {0}
  /\ MaxRequests \in [Layouts -> Nat]

Ids == 1 .. MaxIds
Owner == 0                    \* the sub of the owner; demo users are numbered
Subs == Ids \cup {Owner}
NoOwner == [cred |-> 0, counter |-> 0]
NoCookie == [sub |-> MaxIds + 1, exp |-> 0]
NoAnswer == [cred |-> 0, counter |-> 0]
Items == [server : Servers, by : 0 .. MaxIds + 1]   \* a saved server; ghost: by whom

VARIABLES
  demo,        \* isDemoMode
  BrowserOf,   \* the browser of each page
  counting,    \* whether authenticators count their signatures
  now,
  used,        \* ids given out: challenges and demo users, random in the code
  owner,       \* user:owner: the credential, named by its challenge, and its counter
  challenges,  \* challenge:<id>: its type and when it expires
  lists,       \* user:<sub>:servers: what it holds, when it expires and was put
  cookie,      \* the session cookie of each browser
  page,        \* what each page is doing
  save,        \* the requests POST /api/servers under way
  sends,       \* their number so far
  holder,      \* the browser whose authenticator has the credential
  signs,       \* the signature counter of each credential
  overlapped,  \* ghost: challenges whose register/verify overlapped another's
  born,        \* ghost: when a demo user logged in
  spoiled      \* ghost: users whose saves overlapped, failed or were abandoned,
               \* or were made from a list that could not be loaded

fixed == <<demo, BrowserOf, counting>>  \* chosen by Init
kv == <<owner, challenges, lists>>
saving == <<save, sends, spoiled>>
vars == <<fixed, now, used, kv, cookie, page, holder, signs, overlapped, born, saving>>

Never == MaxTime + 1 + DemoTtl + PasskeyTtl

(* at: where the page is; ch: the challenge; allowed: allowCredentials;      *)
(* answer: the authenticator's; rec: the user record the request has read;   *)
(* cache: cachedServers; loaded: no (it is null), yes, or failed.            *)
FreshPage ==
  [at |-> "start", kind |-> "none", ch |-> 0, allowed |-> 0, answer |-> NoAnswer,
   rec |-> NoOwner, cache |-> {}, loaded |-> "no"]

Init ==
  /\ demo \in Modes /\ BrowserOf \in Layouts /\ counting \in BOOLEAN /\ (demo => ~counting)
  /\ now = 0 /\ used = 0
  /\ owner = NoOwner /\ challenges = <<>> /\ lists = <<>>
  /\ cookie = [b \in Browsers |-> NoCookie]
  /\ page = [p \in Pages |-> FreshPage]
  /\ save = <<>> /\ sends = 0
  /\ holder = <<>> /\ signs = [i \in Ids |-> 0]
  /\ overlapped = {} /\ born = <<>> /\ spoiled = {}

-----------------------------------------------------------------------------
With(f, x, v) == [y \in DOMAIN f \cup {x} |-> IF y = x THEN v ELSE f[y]]

Goes(p, at) == page' = [page EXCEPT ![p].at = at]

(* A ceremony is over: what it was about is forgotten, the cache is not. *)
Leaves(p, at) ==
  page' = [page EXCEPT ![p] = [FreshPage EXCEPT !.at = at, !.cache = page[p].cache,
                                                !.loaded = page[p].loaded]]

CookieOf(p) == cookie[BrowserOf[p]]

(* verifyJwt of the cookie a page sends: payload.exp < now is too late. *)
Authorized(p) == CookieOf(p) # NoCookie /\ now <= CookieOf(p).exp

SetCookie(p, sub, maxAge) ==
  cookie' = [cookie EXCEPT ![BrowserOf[p]] = [sub |-> sub, exp |-> now + maxAge]]

(* initApp, with GET /status: the dashboard, or the button to be shown. *)
InitApp(p) ==
  /\ page[p].at = "start"
  /\ Goes(p, CASE Authorized(p) -> "dashboard"
               [] ~Authorized(p) /\ demo -> "demo"
               [] ~Authorized(p) /\ ~demo /\ owner # NoOwner -> "authentication"
               [] OTHER -> "registration")
  /\ UNCHANGED <<fixed, now, used, kv, cookie, holder, signs, overlapped, born, saving>>

WithinBound == used + sends < MaxRequests[BrowserOf]

(* A new challenge for p, stored for a while. *)
NewChallenge(p, kind) ==
  /\ used < MaxIds /\ WithinBound
  /\ used' = used + 1
  /\ challenges' = With(challenges, used', [type |-> kind, exp |-> now + ChallengeTtl])
  /\ page' = [page EXCEPT ![p].at = "prompt", ![p].kind = kind, ![p].ch = used',
                          ![p].allowed = owner.cred]

(* POST /register/options: refused when there is an owner. *)
RegisterOptions(p) ==
  /\ page[p].at = "registration" /\ owner = NoOwner
  /\ NewChallenge(p, "registration")
  /\ UNCHANGED <<fixed, now, owner, lists, cookie, holder, signs, overlapped, born, saving>>

(* POST /login/options: refused when there is no owner. *)
LoginOptions(p) ==
  /\ page[p].at = "authentication" /\ owner # NoOwner
  /\ NewChallenge(p, "authentication")
  /\ UNCHANGED <<fixed, now, owner, lists, cookie, holder, signs, overlapped, born, saving>>

(* startRegistration: a new credential, its counter at zero. *)
CreateCredential(p) ==
  /\ page[p].at = "prompt" /\ page[p].kind = "registration"
  /\ holder' = With(holder, page[p].ch, BrowserOf[p])
  /\ page' = [page EXCEPT ![p].at = "verify",
                          ![p].answer = [cred |-> page[p].ch, counter |-> 0]]
  /\ UNCHANGED <<fixed, now, used, kv, cookie, signs, overlapped, born, saving>>

(* startAuthentication: a signature with an allowed credential. *)
SignChallenge(p) ==
  LET c == page[p].allowed
  IN  /\ page[p].at = "prompt" /\ page[p].kind = "authentication"
      /\ c \in DOMAIN holder /\ holder[c] = BrowserOf[p]
      /\ signs' = IF counting THEN [signs EXCEPT ![c] = @ + 1] ELSE signs
      /\ page' = [page EXCEPT ![p].at = "verify",
                              ![p].answer = [cred |-> c, counter |-> signs'[c]]]
      /\ UNCHANGED <<fixed, now, used, kv, cookie, holder, overlapped, born, saving>>

(* The user gives up, or has no such credential: startAuthentication throws. *)
CancelPrompt(p) ==
  /\ page[p].at = "prompt"
  /\ Leaves(p, page[p].kind)
  /\ UNCHANGED <<fixed, now, used, kv, cookie, holder, signs, overlapped, born, saving>>

Registering ==
  {q \in Pages : page[q].kind = "registration" /\ page[q].at \in {"read", "verified"}}

(* Ghost: p's register/verify overlaps with the others that are under way. *)
Overlaps(p) ==
  overlapped' = IF page'[p].at = "read" /\ page[p].kind = "registration" /\ Registering # {}
                THEN overlapped \cup {page[q].ch : q \in Registering \cup {p}}
                ELSE overlapped

(* Mutant: the owner is not looked up again. *)
VerifyOwnerUnchecked(p) ==
  /\ page[p].at = "verify"
  /\ page' = [page EXCEPT ![p].at = "read", ![p].rec = owner]
  /\ Overlaps(p)
  /\ UNCHANGED <<fixed, now, used, kv, cookie, holder, signs, born, saving>>

(* POST /register/verify and /login/verify read user:owner, ... *)
VerifyOwner(p) ==
  /\ page[p].at = "verify"
  /\ IF (page[p].kind = "registration") = (owner = NoOwner)
     THEN page' = [page EXCEPT ![p].at = "read", ![p].rec = owner]
     ELSE Leaves(p, page[p].kind)
  /\ Overlaps(p)
  /\ UNCHANGED <<fixed, now, used, kv, cookie, holder, signs, born, saving>>

(* verifyRegistrationResponse; verifyAuthenticationResponse with the stored  *)
(* credential, whose counter must have moved if either counts.               *)
Verified(pg) ==
  \/ pg.kind = "registration"
  \/ /\ pg.answer.cred = pg.rec.cred
     /\ pg.answer.counter > 0 \/ pg.rec.counter > 0 => pg.answer.counter > pg.rec.counter

(* ... take the challenge, which no other request names, and verify, ... *)
TakeChallenge(p) ==
  LET valid == /\ page[p].ch \in DOMAIN challenges
               /\ challenges[page[p].ch].type = page[p].kind
  IN  /\ page[p].at = "read"
      /\ challenges' = IF valid THEN Restrict(challenges, DOMAIN challenges \ {page[p].ch})
                                ELSE challenges
      /\ IF valid /\ Verified(page[p]) THEN Goes(p, "verified") ELSE Leaves(p, page[p].kind)
      /\ UNCHANGED <<fixed, now, used, owner, lists, cookie, holder, signs, overlapped, born, saving>>

(* Mutant: the counter expected next is stored. *)
NewRecordAhead(pg) == [cred |-> pg.answer.cred, counter |-> pg.answer.counter + 1]

(* The record of a new owner, or the one that was read with its new counter. *)
NewRecord(pg) == [cred |-> IF pg.kind = "registration" THEN pg.answer.cred ELSE pg.rec.cred,
                  counter |-> pg.answer.counter]

(* ... write the record back ... *)
StoreOwner(p) ==
  /\ page[p].at = "verified"
  /\ owner' = NewRecord(page[p])
  /\ Goes(p, "stored")
  /\ UNCHANGED <<fixed, now, used, challenges, lists, cookie, holder, signs, overlapped, born, saving>>

(* ... and answer with the cookie. *)
IssueCookie(p) ==
  /\ page[p].at = "stored"
  /\ SetCookie(p, Owner, PasskeyTtl)
  /\ Leaves(p, "dashboard")
  /\ UNCHANGED <<fixed, now, used, kv, holder, signs, overlapped, born, saving>>

(* POST /demo: a new user.  Nothing reads the record that is stored for him. *)
LoginDemo(p) ==
  /\ page[p].at = "demo" /\ used < MaxIds /\ WithinBound
  /\ used' = used + 1
  /\ SetCookie(p, used', DemoTtl)
  /\ born' = With(born, used', now)
  /\ Goes(p, "dashboard")
  /\ UNCHANGED <<fixed, now, kv, holder, signs, overlapped, saving>>

(* Mutant: the page stays and with it its cache. *)
LogoutWithoutReload(p) ==
  /\ page[p].at = "open"
  /\ cookie' = [cookie EXCEPT ![BrowserOf[p]] = NoCookie]
  /\ Goes(p, "start")
  /\ UNCHANGED <<fixed, now, used, kv, holder, signs, overlapped, born, saving>>

(* The page is loaded anew: no answer to its saves finds it any more. *)
LoadedAnew(p) ==
  /\ page' = [page EXCEPT ![p] = FreshPage]
  /\ save' = [r \in DOMAIN save |-> IF save[r].page = p
                                    THEN [save[r] EXCEPT !.waiting = FALSE] ELSE save[r]]
  /\ spoiled' = spoiled \cup {save[r].sub : r \in {q \in DOMAIN save : save[q].page = p}}
  /\ UNCHANGED sends

(* POST /logout clears the cookie, and the page is loaded anew. *)
Logout(p) ==
  /\ page[p].at = "open"
  /\ cookie' = [cookie EXCEPT ![BrowserOf[p]] = NoCookie]
  /\ LoadedAnew(p)
  /\ UNCHANGED <<fixed, now, used, kv, holder, signs, overlapped, born>>

Reload(p) ==
  /\ page[p].at \in {"registration", "authentication", "open"}
  /\ LoadedAnew(p)
  /\ UNCHANGED <<fixed, now, used, kv, cookie, holder, signs, overlapped, born>>

-----------------------------------------------------------------------------
(* The server list. *)

Stored(sub) == IF sub \in DOMAIN lists THEN lists[sub].servers ELSE {}

(* Mutant: no expirationTtl. *)
ListExpiresNever(sub) == Never

(* options.expirationTtl of POST /api/servers *)
ListExpires(sub) == IF sub = Owner THEN Never ELSE now + DemoTtl

(* loadServers: an error is cached like an empty list. *)
LoadServers(p) ==
  /\ page[p].at = "dashboard"
  /\ \E fails \in {FALSE, MayFail} :
       LET failed == fails \/ ~Authorized(p)
       IN  page' = IF page[p].loaded # "no" THEN [page EXCEPT ![p].at = "open"]
                   ELSE [page EXCEPT ![p].at = "open",
                           ![p].loaded = IF failed THEN "failed" ELSE "yes",
                           ![p].cache = IF failed THEN {} ELSE Stored(CookieOf(p).sub)]
  /\ UNCHANGED <<fixed, now, used, kv, cookie, holder, signs, overlapped, born, saving>>

(* Whose cookie a request of p carries. *)
Sender(p) == IF Authorized(p) THEN CookieOf(p).sub ELSE NoCookie.sub

(* saveServers sends a list to or from which it adds or removes an item.  It *)
(* waits for the answer while the page is there.  cached: the list is the    *)
(* array that is cached.                                                     *)
Request(p, list, item, adds) ==
  [at |-> "sent", page |-> p, waiting |-> TRUE, cached |-> adds, list |-> list,
   item |-> item, adds |-> adds, sub |-> Sender(p)]

Send(p, list, item, adds) ==
  /\ WithinBound
  /\ sends' = sends + 1
  /\ \E r \in Saves \ DOMAIN save : save' = With(save, r, Request(p, list, item, adds))
  /\ spoiled' = IF page[p].loaded = "failed" \/ \E r \in DOMAIN save : save[r].sub = Sender(p)
                THEN spoiled \cup {Sender(p)} ELSE spoiled

(* handleConnect pushes onto the cached list, then saves it. *)
AddServer(p, s) ==
  LET item == [server |-> s, by |-> Sender(p)]
  IN  /\ page[p].at = "open" /\ \A x \in page[p].cache : x.server # s
      /\ Send(p, page[p].cache \cup {item}, item, TRUE)
      /\ page' = [page EXCEPT ![p].cache = @ \cup {item}]
      /\ UNCHANGED <<fixed, now, used, kv, cookie, holder, signs, overlapped, born>>

(* The button of a card saves the list on the screen without its server. *)
RemoveServer(p, item) ==
  /\ page[p].at = "open" /\ item \in page[p].cache
  /\ Send(p, page[p].cache \ {item}, item, FALSE)
  /\ UNCHANGED <<fixed, now, used, kv, cookie, page, holder, signs, overlapped, born>>

(* POST /api/servers puts the list, or answers 401 or another error, which   *)
(* changes nothing in the page.                                              *)
PutServers(r) ==
  LET sub == save[r].sub
  IN  /\ r \in DOMAIN save /\ save[r].at = "sent"
      /\ \/ /\ sub \in Subs
            /\ lists' = With(lists, sub, [servers |-> save[r].list, exp |-> ListExpires(sub),
                                          put |-> now])
            /\ save' = [save EXCEPT ![r].at = "put"]
            /\ UNCHANGED spoiled
         \/ /\ MayFail \/ sub \notin Subs
            /\ save' = Restrict(save, DOMAIN save \ {r})
            /\ spoiled' = IF save[r].adds THEN spoiled \cup {sub} ELSE spoiled
            /\ UNCHANGED lists
      /\ UNCHANGED <<fixed, now, used, owner, challenges, cookie, page, holder, signs,
                     overlapped, born, sends>>

(* The answer: cachedServers becomes the array that was saved, which a save  *)
(* of the pushed array finds there already unless another answer came first. *)
ServersSaved(r) ==
  /\ r \in DOMAIN save /\ save[r].at = "put"
  /\ LET p == save[r].page
         replaces == save[r].waiting /\ ~save[r].cached
     IN  /\ page' = IF replaces THEN [page EXCEPT ![p].cache = save[r].list] ELSE page
         /\ save' = [q \in DOMAIN save \ {r} |->
                      IF replaces /\ save[q].page = p THEN [save[q] EXCEPT !.cached = FALSE]
                      ELSE save[q]]
  /\ UNCHANGED <<fixed, now, used, kv, cookie, holder, signs, overlapped, born, sends,
                 spoiled>>

-----------------------------------------------------------------------------
Unexpired(f, t) == Restrict(f, {x \in DOMAIN f : f[x].exp > t})

(* A request takes far less than a TTL, so time passes between requests. *)
Tick ==
  /\ now < MaxTime
  /\ \A p \in Pages : page[p].at \notin {"read", "verified", "stored"}
  /\ save = <<>>
  /\ now' = now + 1
  /\ challenges' = Unexpired(challenges, now')
  /\ lists' = Unexpired(lists, now')
  /\ UNCHANGED <<fixed, used, owner, cookie, page, holder, signs, overlapped, born, saving>>

Next ==
  \/ Tick
  \/ \E p \in Pages :
       \/ InitApp(p) \/ RegisterOptions(p) \/ LoginOptions(p) \/ CreateCredential(p)
       \/ SignChallenge(p) \/ CancelPrompt(p) \/ VerifyOwner(p) \/ TakeChallenge(p)
       \/ StoreOwner(p) \/ IssueCookie(p) \/ LoginDemo(p) \/ Logout(p) \/ Reload(p)
       \/ LoadServers(p)
       \/ \E s \in Servers : AddServer(p, s)
       \/ \E item \in page[p].cache : RemoveServer(p, item)
  \/ \E r \in Saves : PutServers(r) \/ ServersSaved(r)

Spec == Init /\ [][Next]_vars

-----------------------------------------------------------------------------
(* Every variable has its type. *)
TypeOK ==
  /\ demo \in Modes /\ BrowserOf \in Layouts /\ counting \in BOOLEAN
  /\ now \in 0 .. MaxTime /\ used \in 0 .. MaxIds
  /\ owner \in [cred : Ids \cup {0}, counter : Nat]
  /\ DOMAIN challenges \subseteq 1 .. used /\ DOMAIN lists \subseteq Subs
  /\ \A u \in DOMAIN lists : lists[u].servers \subseteq Items
  /\ cookie \in [Browsers -> [sub : 0 .. MaxIds + 1, exp : Nat]]
  /\ DOMAIN holder \subseteq 1 .. used /\ Range(holder) \subseteq Browsers
  /\ signs \in [Ids -> Nat] /\ overlapped \subseteq 1 .. used
  /\ DOMAIN save \subseteq Saves /\ \A r \in DOMAIN save : save[r].list \subseteq Items
  /\ \A p \in Pages : page[p].ch \in 0 .. used /\ page[p].cache \subseteq Items

(* "First visitor registers a passkey and becomes the sole owner. No other   *)
(* users can register" (README): whoever has a cookie of the owner holds     *)
(* the passkey that is stored, although several pages may have been given    *)
(* registration options before any of them registered.  Only when two        *)
(* register/verify requests overlapped, each before the other had stored its *)
(* record, may the passkey that is stored be the other one's.                *)
SoleOwner ==
  \A b \in Browsers : cookie[b].sub = Owner =>
    /\ owner # NoOwner
    /\ holder[owner.cred] # b =>
         /\ owner.cred \in overlapped
         /\ \E c \in overlapped : c \in DOMAIN holder /\ holder[c] = b

(* The counter that is stored for a credential is never ahead of the         *)
(* authenticator's own, whatever logins overlap and write their record back: *)
(* the owner's next signature is accepted.                                   *)
NotLockedOut == owner # NoOwner => owner.counter <= signs[owner.cred]

(* "User data expires after 24 hours" (README): a demo user's list is gone   *)
(* that long after it was saved last, and no save is accepted later than     *)
(* that after the login.                                                     *)
DemoDataGone ==
  \A u \in DOMAIN lists \ {Owner} :
    now < lists[u].put + DemoTtl /\ lists[u].put <= born[u] + DemoTtl

(* Each browser has one page open. *)
OnePageEach == \A p, q \in Pages : BrowserOf[p] = BrowserOf[q] => p = q

(* One browser has been the owner's, and no saves of u overlapped, failed,   *)
(* were abandoned by a reload or made from a list that could not be loaded.  *)
Orderly(u) == u \notin spoiled /\ (u = Owner => overlapped = {})

(* The save changes the list that is stored by its item. *)
ChangesOne(r) ==
  save[r].list = IF save[r].adds THEN Stored(save[r].sub) \cup {save[r].item}
                 ELSE Stored(save[r].sub) \ {save[r].item}

(* For a user with one page: a list never holds what another user saved,     *)
(* through reloads, logouts, expired cookies and lists, overlapping and      *)
(* failing saves, and other users of the same page; and a save of an orderly *)
(* user changes the stored list by its one server and nothing else, unless   *)
(* the list of a demo user has expired.                                      *)
ServersAsSaved ==
  OnePageEach =>
    /\ \A u \in DOMAIN lists : \A item \in Stored(u) : item.by = u
    /\ \A r \in DOMAIN save :
         save[r].at = "sent" /\ Orderly(save[r].sub) /\ save[r].sub \in DOMAIN lists \cup {Owner}
         => ChangesOne(r)

(* What is stored of a user is what the user saved, for as long as it may    *)
(* be kept.                                                                  *)
ListsAreTrue == TypeOK /\ ServersAsSaved /\ DemoDataGone

(* The stronger claims do not hold. *)

(* There is one owner, whatever register/verify requests overlap. *)
OnlyOwner ==
  \A b \in Browsers : cookie[b].sub = Owner => owner # NoOwner /\ holder[owner.cred] = b

(* Every save of the owner changes the list by one server and nothing else.  *)
(* Not so if saves overlap or fail or the list could not be loaded; ...      *)
EverySaveChangesOne ==
  OnePageEach /\ overlapped = {} =>
    \A r \in DOMAIN save : save[r].at = "sent" /\ save[r].sub = Owner => ChangesOne(r)

(* ... and not if the owner has several pages, each of which saves the list  *)
(* it loaded, so that what another page saved meanwhile is lost.             *)
EveryPageChangesOne ==
  \A r \in DOMAIN save :
    save[r].at = "sent" /\ save[r].sub = Owner /\ Orderly(Owner) => ChangesOne(r)

(* A demo user's data is gone 24 hours after the login.  Each save renews it. *)
DemoDataGoneInTime == \A u \in DOMAIN lists \ {Owner} : now < born[u] + DemoTtl

(* The stored counter of a credential never goes back.  Two logins that      *)
(* overlap break this: each writes back the record it read.                  *)
CounterNeverBack ==
  [][owner # NoOwner /\ owner'.cred = owner.cred => owner'.counter >= owner.counter]_vars
=============================================================================
