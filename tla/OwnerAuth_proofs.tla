-------------------------- MODULE OwnerAuth_proofs --------------------------
(***************************************************************************)
(* Proofs about OwnerAuth, for any browsers, pages, servers, lifetimes and *)
(* numbers of ceremonies and saves, whatever requests overlap or fail: the *)
(* stored counter locks nobody out, whoever has a cookie of the owner has  *)
(* the stored passkey unless two registrations overlapped, demo data       *)
(* expires, and the lists are what was saved.  The last section is about   *)
(* HostKeys, for any hosts, keys, attempts and isolates.                   *)
(***************************************************************************)
EXTENDS OwnerAuth, HostKeys, FiniteSetTheorems, TLAPS

Ceremonies == {"prompt", "verify", "read", "verified", "stored"}
Places == Ceremonies \cup {"start", "dashboard", "demo", "authentication", "registration", "open"}
Record == [cred : 0 .. MaxIds, counter : Nat]
PageType ==
  [at : Places, kind : {"none", "registration", "authentication"}, ch : 0 .. MaxIds,
   allowed : 0 .. MaxIds, answer : Record, rec : Record, cache : SUBSET Items,
   loaded : {"no", "yes", "failed"}]
SaveType ==
  [at : {"sent", "put"}, page : Pages, waiting : BOOLEAN, cached : BOOLEAN, list : SUBSET Items,
   item : Items, adds : BOOLEAN, sub : 0 .. MaxIds + 1]

TypeFixed ==
  /\ demo \in Modes /\ BrowserOf \in Layouts /\ counting \in BOOLEAN
  /\ now \in 0 .. MaxTime /\ used \in 0 .. MaxIds
TypeKv ==
  /\ owner \in Record
  /\ DOMAIN challenges \subseteq 1 .. used /\ DOMAIN lists \subseteq Subs
  /\ \A u \in DOMAIN lists : lists[u].servers \subseteq Items
TypeCookies ==
  /\ cookie \in [Browsers -> [sub : 0 .. MaxIds + 1, exp : Nat]]
  /\ \A b \in Browsers : cookie[b] = NoCookie \/ cookie[b].sub \in 0 .. used
TypeGhosts ==
  /\ DOMAIN holder \subseteq 1 .. used /\ \A c \in DOMAIN holder : holder[c] \in Browsers
  /\ signs \in [Ids -> Nat] /\ overlapped \subseteq 1 .. used
TypeSaves == DOMAIN save \subseteq Saves /\ \A r \in DOMAIN save : save[r] \in SaveType
(* A page in a ceremony has a challenge. *)
TypePages ==
  /\ page \in [Pages -> PageType]
  /\ \A p \in Pages :
       /\ page[p].ch \in 0 .. used
       /\ page[p].at \in Ceremonies => page[p].ch # 0 /\ page[p].kind # "none"

TypeInv == TypeFixed /\ TypeKv /\ TypeCookies /\ TypeGhosts /\ TypeSaves /\ TypePages

LEMMA TypeInvImplies == TypeInv => TypeOK
<1> SUFFICES ASSUME TypeInv PROVE TypeOK
  OBVIOUS
<1>1. owner \in [cred : Ids \cup {0}, counter : Nat]
  BY OwnerAuthAssumption DEF TypeInv, TypeKv, Record, Ids
<1>2. Range(holder) \subseteq Browsers
  BY DEF TypeInv, TypeGhosts, Range
<1>3. \A p \in Pages : page[p].ch \in 0 .. used /\ page[p].cache \subseteq Items
  BY DEF TypeInv, TypePages, PageType
<1>4. \A r \in DOMAIN save : save[r].list \subseteq Items
  BY DEF TypeInv, TypeSaves, SaveType
<1> QED
  BY <1>1, <1>2, <1>3, <1>4 DEF TypeInv, TypeFixed, TypeKv, TypeCookies, TypeGhosts, TypeSaves, TypePages, TypeOK

-----------------------------------------------------------------------------
(* Functions and pages *)

LEMMA ParameterTypes ==
  /\ MaxIds \in Nat \ {0} /\ MaxTime \in Nat \ {0}
  /\ ChallengeTtl \in Nat \ {0} /\ DemoTtl \in Nat \ {0} /\ PasskeyTtl \in Nat \ {0}
BY OwnerAuthAssumption

LEMMA BrowserType ==
  ASSUME TypeInv, NEW p \in Pages PROVE BrowserOf[p] \in Browsers
BY OwnerAuthAssumption DEF TypeInv, TypeFixed

LEMMA ConstantTypes ==
  /\ NoOwner \in Record /\ NoAnswer \in Record /\ FreshPage \in PageType
  /\ NoCookie \in [sub : 0 .. MaxIds + 1, exp : Nat]
<1> USE ParameterTypes
<1>1. NoOwner \in Record /\ NoAnswer \in Record
  BY DEF NoOwner, NoAnswer, Record
<1>2. NoCookie \in [sub : 0 .. MaxIds + 1, exp : Nat]
  BY DEF NoCookie
<1>3. FreshPage \in PageType
  BY <1>1 DEF FreshPage, PageType, Places, Ceremonies
<1> QED
  BY <1>1, <1>2, <1>3

(* A step of one page. *)
PageMoves(p, pg) == page' = [page EXCEPT ![p] = pg]

LEMMA PageStep ==
  ASSUME TypeInv, NEW p \in Pages, NEW pg \in PageType, PageMoves(p, pg)
  PROVE  /\ page' \in [Pages -> PageType] /\ page'[p] = pg
         /\ \A q \in Pages : q # p => page'[q] = page[q]
BY DEF TypeInv, TypePages, PageMoves

LEMMA GoesStep ==
  ASSUME TypeInv, NEW p \in Pages, NEW at \in Places, Goes(p, at)
  PROVE  /\ [page[p] EXCEPT !.at = at] \in PageType
         /\ PageMoves(p, [page[p] EXCEPT !.at = at])
<1>1. [page[p] EXCEPT !.at = at] \in PageType
  BY DEF TypeInv, TypePages, PageType
<1>2. page' = [page EXCEPT ![p] = [page[p] EXCEPT !.at = at]]
  BY DEF Goes, TypeInv, TypePages
<1> QED
  BY <1>1, <1>2 DEF PageMoves

LeftPage(p, at) == [FreshPage EXCEPT !.at = at, !.cache = page[p].cache,
                                     !.loaded = page[p].loaded]

LEMMA LeavesStep ==
  ASSUME TypeInv, NEW p \in Pages, NEW at \in Places, Leaves(p, at)
  PROVE  /\ LeftPage(p, at) \in PageType /\ PageMoves(p, LeftPage(p, at))
         /\ LeftPage(p, at).at = at /\ LeftPage(p, at).ch = 0
<1>1. LeftPage(p, at) \in PageType
  <2>1. page[p] \in PageType /\ FreshPage \in PageType
    BY ConstantTypes DEF TypeInv, TypePages
  <2> QED
    BY <2>1 DEF LeftPage, PageType
<1>2. LeftPage(p, at).at = at /\ LeftPage(p, at).ch = 0
  BY DEF LeftPage, FreshPage
<1> QED
  BY <1>1, <1>2 DEF Leaves, LeftPage, PageMoves

ChallengedPage(p, kind) ==
  [page[p] EXCEPT !.at = "prompt", !.kind = kind, !.ch = used + 1, !.allowed = owner.cred]

LEMMA ChallengeStep ==
  ASSUME TypeInv, NEW p \in Pages, NEW kind \in {"registration", "authentication"},
         NewChallenge(p, kind)
  PROVE  /\ ChallengedPage(p, kind) \in PageType /\ PageMoves(p, ChallengedPage(p, kind))
         /\ used \in Nat /\ used < MaxIds /\ used' = used + 1
         /\ DOMAIN challenges' = DOMAIN challenges \cup {used + 1}
<1> USE ParameterTypes
<1>1. used \in Nat /\ used < MaxIds /\ used' = used + 1 /\ used + 1 \in 0 .. MaxIds
  BY DEF NewChallenge, TypeInv, TypeFixed
<1>2. page[p] \in PageType /\ owner.cred \in 0 .. MaxIds /\ "prompt" \in Places
  BY DEF TypeInv, TypePages, TypeKv, Record, Places, Ceremonies
<1>3. ChallengedPage(p, kind) \in PageType
  BY <1>1, <1>2 DEF ChallengedPage, PageType
<1>4. PageMoves(p, ChallengedPage(p, kind))
  BY <1>1, <1>2 DEF NewChallenge, ChallengedPage, PageMoves, TypeInv, TypePages
<1>5. DOMAIN challenges' = DOMAIN challenges \cup {used + 1}
  BY <1>1 DEF NewChallenge, With
<1> QED
  BY <1>1, <1>3, <1>4, <1>5

CreatedPage(p) ==
  [page[p] EXCEPT !.at = "verify", !.answer = [cred |-> page[p].ch, counter |-> 0]]

LEMMA CreateStep ==
  ASSUME TypeInv, NEW p \in Pages, CreateCredential(p)
  PROVE  /\ CreatedPage(p) \in PageType /\ PageMoves(p, CreatedPage(p))
         /\ page[p].ch \in 1 .. used
<1> USE ParameterTypes
<1>1. page[p] \in PageType /\ "verify" \in Places
  BY DEF TypeInv, TypePages, Places, Ceremonies
<1>2. [cred |-> page[p].ch, counter |-> 0] \in Record
  BY <1>1 DEF PageType, Record
<1>3. CreatedPage(p) \in PageType
  BY <1>1, <1>2 DEF CreatedPage, PageType
<1>4. PageMoves(p, CreatedPage(p))
  BY <1>1 DEF CreateCredential, CreatedPage, PageMoves, TypeInv, TypePages
<1>5. page[p].ch \in 1 .. used
  BY DEF CreateCredential, TypeInv, TypePages, TypeFixed, Ceremonies
<1> QED
  BY <1>3, <1>4, <1>5

SignedPage(p) ==
  [page[p] EXCEPT !.at = "verify",
                  !.answer = [cred |-> page[p].allowed, counter |-> signs'[page[p].allowed]]]

LEMMA SignStep ==
  ASSUME TypeInv, NEW p \in Pages, SignChallenge(p)
  PROVE  /\ SignedPage(p) \in PageType /\ PageMoves(p, SignedPage(p))
         /\ signs' \in [Ids -> Nat] /\ page[p].allowed \in DOMAIN holder
         /\ \A c \in Ids : signs[c] <= signs'[c]
<1> USE ParameterTypes
<1> DEFINE c == page[p].allowed
<1>1. page[p] \in PageType /\ "verify" \in Places /\ c \in 0 .. MaxIds
  BY DEF TypeInv, TypePages, Places, Ceremonies, PageType
<1>2. c \in DOMAIN holder /\ c \in Ids
  BY DEF SignChallenge, TypeInv, TypeGhosts, TypeFixed, Ids
<1>3. signs \in [Ids -> Nat] /\ (signs' = [signs EXCEPT ![c] = @ + 1] \/ signs' = signs)
  BY DEF SignChallenge, TypeInv, TypeGhosts
<1> HIDE DEF c
<1>4. signs' \in [Ids -> Nat] /\ \A d \in Ids : signs[d] <= signs'[d]
  BY <1>2, <1>3
<1>5. [cred |-> c, counter |-> signs'[c]] \in Record
  BY <1>1, <1>2, <1>4 DEF Record
<1>6. SignedPage(p) \in PageType
  BY <1>1, <1>5 DEF SignedPage, PageType, c
<1>7. PageMoves(p, SignedPage(p))
  BY <1>1 DEF SignChallenge, SignedPage, PageMoves, TypeInv, TypePages
<1> QED
  BY <1>2, <1>4, <1>6, <1>7 DEF c

ReadPage(p) == [page[p] EXCEPT !.at = "read", !.rec = owner]

LEMMA VerifyStep ==
  ASSUME TypeInv, NEW p \in Pages, VerifyOwner(p)
  PROVE  \/ /\ (page[p].kind = "registration") = (owner = NoOwner)
            /\ ReadPage(p) \in PageType /\ PageMoves(p, ReadPage(p))
         \/ /\ LeftPage(p, page[p].kind) \in PageType /\ PageMoves(p, LeftPage(p, page[p].kind))
            /\ LeftPage(p, page[p].kind).at \notin Ceremonies /\ LeftPage(p, page[p].kind).ch = 0
<1>1. page[p] \in PageType /\ page[p].kind \in {"registration", "authentication"}
  BY DEF VerifyOwner, TypeInv, TypePages, PageType, Ceremonies
<1>2. CASE (page[p].kind = "registration") = (owner = NoOwner)
  <2>1. owner \in Record /\ "read" \in Places
    BY DEF TypeInv, TypeKv, Places, Ceremonies
  <2>2. ReadPage(p) \in PageType
    BY <1>1, <2>1 DEF ReadPage, PageType
  <2>3. PageMoves(p, ReadPage(p))
    BY <1>1, <1>2 DEF VerifyOwner, ReadPage, PageMoves, TypeInv, TypePages
  <2> QED
    BY <1>2, <2>2, <2>3
<1>3. CASE Leaves(p, page[p].kind)
  BY <1>1, <1>3, LeavesStep DEF Places, Ceremonies
<1> QED
  BY <1>2, <1>3 DEF VerifyOwner

LoadedPage(p, failed) ==
  IF page[p].loaded # "no" THEN [page[p] EXCEPT !.at = "open"]
  ELSE [page[p] EXCEPT !.at = "open", !.loaded = IF failed THEN "failed" ELSE "yes",
                       !.cache = IF failed THEN {} ELSE Stored(CookieOf(p).sub)]

LEMMA LoadStep ==
  ASSUME TypeInv, NEW p \in Pages, LoadServers(p)
  PROVE  \E failed \in BOOLEAN :
           /\ failed \/ Authorized(p)
           /\ LoadedPage(p, failed) \in PageType /\ PageMoves(p, LoadedPage(p, failed))
<1>1. page[p] \in PageType /\ "open" \in Places
  BY DEF TypeInv, TypePages, Places
<1>2. \A u : Stored(u) \subseteq Items
  BY DEF Stored, TypeInv, TypeKv
<1>3. PICK fails \in {FALSE, MayFail} :
        page' = IF page[p].loaded # "no" THEN [page EXCEPT ![p].at = "open"]
                ELSE [page EXCEPT ![p].at = "open",
                        ![p].loaded = IF fails \/ ~Authorized(p) THEN "failed" ELSE "yes",
                        ![p].cache = IF fails \/ ~Authorized(p) THEN {}
                                     ELSE Stored(CookieOf(p).sub)]
  BY DEF LoadServers
<1> DEFINE failed == fails \/ ~Authorized(p)
<1>4. failed \in BOOLEAN /\ (failed \/ Authorized(p))
  BY OwnerAuthAssumption
<1>5. page' = IF page[p].loaded # "no" THEN [page EXCEPT ![p].at = "open"]
              ELSE [page EXCEPT ![p].at = "open", ![p].loaded = IF failed THEN "failed" ELSE "yes",
                                ![p].cache = IF failed THEN {} ELSE Stored(CookieOf(p).sub)]
  BY <1>3
<1> HIDE DEF failed
<1>6. CASE page[p].loaded # "no"
  <2>1. LoadedPage(p, failed) \in PageType
    BY <1>1, <1>6 DEF LoadedPage, PageType
  <2>2. page' = [page EXCEPT ![p] = LoadedPage(p, failed)]
    BY <1>1, <1>5, <1>6 DEF LoadedPage, TypeInv, TypePages
  <2> QED
    BY <1>4, <2>1, <2>2 DEF PageMoves
<1>7. CASE page[p].loaded = "no"
  <2> DEFINE loaded == IF failed THEN "failed" ELSE "yes"
             cache == IF failed THEN {} ELSE Stored(CookieOf(p).sub)
  <2>1. loaded \in {"no", "yes", "failed"} /\ cache \in SUBSET Items
    BY <1>2, <1>4
  <2>2. /\ LoadedPage(p, failed) = [page[p] EXCEPT !.at = "open", !.loaded = loaded, !.cache = cache]
        /\ page' = [page EXCEPT ![p].at = "open", ![p].loaded = loaded, ![p].cache = cache]
    BY <1>5, <1>7 DEF LoadedPage
  <2> HIDE DEF loaded, cache
  <2>3. LoadedPage(p, failed) \in PageType
    BY <1>1, <2>1, <2>2 DEF PageType
  <2>4. page' = [page EXCEPT ![p] = LoadedPage(p, failed)]
    BY <1>1, <2>2 DEF TypeInv, TypePages
  <2> QED
    BY <1>4, <2>3, <2>4 DEF PageMoves
<1> QED
  BY <1>6, <1>7

CachedPage(p, list) == [page[p] EXCEPT !.cache = list]

LEMMA CacheStep ==
  ASSUME TypeInv, NEW p \in Pages, NEW list \in SUBSET Items, page' = [page EXCEPT ![p].cache = list]
  PROVE  CachedPage(p, list) \in PageType /\ PageMoves(p, CachedPage(p, list))
<1>1. page[p] \in PageType
  BY DEF TypeInv, TypePages
<1>2. CachedPage(p, list) \in PageType
  BY <1>1 DEF CachedPage, PageType
<1>3. page' = [page EXCEPT ![p] = CachedPage(p, list)]
  BY <1>1 DEF CachedPage, TypeInv, TypePages
<1> QED
  BY <1>2, <1>3 DEF PageMoves

-----------------------------------------------------------------------------
(* Saves *)

LEMMA SenderType ==
  ASSUME TypeInv, NEW p \in Pages
  PROVE  /\ Sender(p) \in 0 .. MaxIds + 1
         /\ Sender(p) \in Subs =>
              Authorized(p) /\ Sender(p) = CookieOf(p).sub /\ Sender(p) \in 0 .. used
         /\ Authorized(p) => Sender(p) \in Subs
<1> USE ParameterTypes
<1>1. BrowserOf[p] \in Browsers
  BY BrowserType
<1>2. CookieOf(p).sub \in 0 .. MaxIds + 1 /\ (Authorized(p) => CookieOf(p).sub \in 0 .. used)
  BY <1>1 DEF TypeInv, TypeCookies, Authorized, CookieOf
<1>3. NoCookie.sub = MaxIds + 1 /\ MaxIds + 1 \notin Subs /\ used \in 0 .. MaxIds
        /\ \A u \in 0 .. used : u \in Subs
  BY DEF NoCookie, Subs, Ids, Owner, TypeInv, TypeFixed
<1>4. CASE Authorized(p)
  BY <1>2, <1>3, <1>4 DEF Sender
<1>5. CASE ~Authorized(p)
  BY <1>3, <1>5 DEF Sender
<1> QED
  BY <1>4, <1>5

(* The request m is one save more. *)
Sent(m) ==
  \E r \in Saves \ DOMAIN save :
     /\ m \in SaveType
     /\ DOMAIN save' = DOMAIN save \cup {r} /\ save'[r] = m
     /\ \A q \in DOMAIN save : save'[q] = save[q]

LEMMA SendStep ==
  ASSUME TypeInv, NEW p \in Pages, NEW list \in SUBSET Items, NEW item \in Items,
         NEW adds \in BOOLEAN, Send(p, list, item, adds)
  PROVE  Sent(Request(p, list, item, adds))
<1>1. Request(p, list, item, adds) \in SaveType
  BY SenderType DEF Request, SaveType
<1>2. PICK r \in Saves \ DOMAIN save : save' = With(save, r, Request(p, list, item, adds))
  BY DEF Send
<1> QED
  BY <1>1, <1>2 DEF With, Sent

AddedItem(p, s) == [server |-> s, by |-> Sender(p)]

LEMMA AddStep ==
  ASSUME TypeInv, NEW p \in Pages, NEW s \in Servers, AddServer(p, s)
  PROVE  LET item == AddedItem(p, s)
             list == page[p].cache \cup {item}
         IN  /\ item \in Items /\ item \notin page[p].cache /\ list \in SUBSET Items
             /\ Send(p, list, item, TRUE)
             /\ CachedPage(p, list) \in PageType /\ PageMoves(p, CachedPage(p, list))
             /\ page[p].at = "open" /\ page[p] \in PageType
             /\ UNCHANGED <<fixed, now, used, kv, cookie, holder, signs, overlapped, born>>
<1> DEFINE item == AddedItem(p, s)
           list == page[p].cache \cup {item}
<1>1. item \in Items
  BY SenderType DEF Items, AddedItem
<1>2. page[p] \in PageType /\ page[p].cache \subseteq Items
  BY DEF TypeInv, TypePages, PageType
<1>3. /\ item \notin page[p].cache /\ Send(p, list, item, TRUE)
      /\ page' = [page EXCEPT ![p].cache = @ \cup {item}]
      /\ page[p].at = "open"
      /\ UNCHANGED <<fixed, now, used, kv, cookie, holder, signs, overlapped, born>>
  BY DEF AddServer, AddedItem
<1>4. list \in SUBSET Items /\ page' = [page EXCEPT ![p].cache = list]
  BY <1>1, <1>2, <1>3
<1> HIDE DEF item, list
<1>5. CachedPage(p, list) \in PageType /\ PageMoves(p, CachedPage(p, list))
  BY <1>4, CacheStep
<1> QED
  BY <1>1, <1>2, <1>3, <1>4, <1>5 DEF item, list

LEMMA RemoveStep ==
  ASSUME TypeInv, NEW p \in Pages, NEW item \in page[p].cache, RemoveServer(p, item)
  PROVE  /\ item \in Items /\ page[p].cache \ {item} \in SUBSET Items
         /\ Send(p, page[p].cache \ {item}, item, FALSE)
         /\ page[p].at = "open" /\ page[p] \in PageType /\ page' = page
         /\ UNCHANGED <<fixed, now, used, kv, cookie, holder, signs, overlapped, born>>
BY DEF RemoveServer, TypeInv, TypePages, PageType

PutListOf(r) == [servers |-> save[r].list, exp |-> ListExpires(save[r].sub), put |-> now]

(* A save is put, or answered with an error. *)
LEMMA PutStep ==
  ASSUME TypeInv, NEW r \in Saves, PutServers(r)
  PROVE  /\ r \in DOMAIN save /\ save[r].at = "sent" /\ save[r] \in SaveType
         /\ UNCHANGED <<fixed, now, used, owner, challenges, cookie, page, holder, signs,
                        overlapped, born, sends>>
         /\ \A q \in DOMAIN save : q # r /\ q \in DOMAIN save' => save'[q] = save[q]
         /\ \/ /\ save[r].sub \in Subs /\ UNCHANGED spoiled
               /\ DOMAIN lists' = DOMAIN lists \cup {save[r].sub}
               /\ lists'[save[r].sub] = PutListOf(r)
               /\ \A u \in DOMAIN lists : u # save[r].sub => lists'[u] = lists[u]
               /\ DOMAIN save' = DOMAIN save /\ save'[r] = [save[r] EXCEPT !.at = "put"]
            \/ /\ DOMAIN save' = DOMAIN save \ {r} /\ UNCHANGED lists
               /\ save[r].sub \in Subs => MayFail
               /\ spoiled' = IF save[r].adds THEN spoiled \cup {save[r].sub} ELSE spoiled
<1>1. /\ r \in DOMAIN save /\ save[r].at = "sent" /\ save[r] \in SaveType
      /\ UNCHANGED <<fixed, now, used, owner, challenges, cookie, page, holder, signs,
                     overlapped, born, sends>>
  BY DEF PutServers, TypeInv, TypeSaves
<1>2. CASE /\ save[r].sub \in Subs /\ UNCHANGED spoiled
           /\ lists' = With(lists, save[r].sub, PutListOf(r))
           /\ save' = [save EXCEPT ![r].at = "put"]
  <2>1. /\ DOMAIN lists' = DOMAIN lists \cup {save[r].sub}
        /\ lists'[save[r].sub] = PutListOf(r)
        /\ \A u \in DOMAIN lists : u # save[r].sub => lists'[u] = lists[u]
    BY <1>2 DEF With
  <2>2. /\ DOMAIN save' = DOMAIN save /\ save'[r] = [save[r] EXCEPT !.at = "put"]
        /\ \A q \in DOMAIN save : q # r => save'[q] = save[q]
    BY <1>1, <1>2
  <2> QED
    BY <1>1, <1>2, <2>1, <2>2
<1>3. CASE /\ MayFail \/ save[r].sub \notin Subs
           /\ save' = Restrict(save, DOMAIN save \ {r})
           /\ spoiled' = IF save[r].adds THEN spoiled \cup {save[r].sub} ELSE spoiled
           /\ UNCHANGED lists
  <2>1. /\ DOMAIN save' = DOMAIN save \ {r}
        /\ \A q \in DOMAIN save' : save'[q] = save[q]
    BY <1>3 DEF Restrict
  <2> QED
    BY <1>1, <1>3, <2>1
<1> QED
  BY <1>2, <1>3 DEF PutServers, PutListOf

(* Whether the answer to r replaces the array its page has cached. *)
Replaces(r) == save[r].waiting /\ ~save[r].cached

(* A save is answered. *)
LEMMA SavedStep ==
  ASSUME TypeInv, NEW r \in Saves, ServersSaved(r)
  PROVE  /\ r \in DOMAIN save /\ save[r].at = "put" /\ save[r] \in SaveType
         /\ save[r].page \in Pages /\ save[r].list \in SUBSET Items
         /\ UNCHANGED <<fixed, now, used, kv, cookie, holder, signs, overlapped, born, sends,
                        spoiled>>
         /\ IF Replaces(r)
            THEN /\ CachedPage(save[r].page, save[r].list) \in PageType
                 /\ PageMoves(save[r].page, CachedPage(save[r].page, save[r].list))
            ELSE page' = page
         /\ DOMAIN save' = DOMAIN save \ {r}
         /\ \A q \in DOMAIN save' : save'[q] = IF Replaces(r) /\ save[q].page = save[r].page
                                               THEN [save[q] EXCEPT !.cached = FALSE] ELSE save[q]
<1>1. /\ r \in DOMAIN save /\ save[r].at = "put" /\ save[r] \in SaveType
      /\ UNCHANGED <<fixed, now, used, kv, cookie, holder, signs, overlapped, born, sends,
                     spoiled>>
      /\ page' = IF Replaces(r) THEN [page EXCEPT ![save[r].page].cache = save[r].list] ELSE page
      /\ save' = [q \in DOMAIN save \ {r} |->
                    IF Replaces(r) /\ save[q].page = save[r].page
                    THEN [save[q] EXCEPT !.cached = FALSE] ELSE save[q]]
  BY DEF ServersSaved, Replaces, TypeInv, TypeSaves
<1>2. save[r].page \in Pages /\ save[r].list \in SUBSET Items
  BY <1>1 DEF SaveType
<1>3. Replaces(r) => /\ CachedPage(save[r].page, save[r].list) \in PageType
                     /\ PageMoves(save[r].page, CachedPage(save[r].page, save[r].list))
  BY <1>1, <1>2, CacheStep
<1> QED
  BY <1>1, <1>2, <1>3

LEMMA AnewStep ==
  ASSUME TypeInv, NEW p \in Pages, LoadedAnew(p)
  PROVE  /\ PageMoves(p, FreshPage) /\ FreshPage \in PageType
         /\ spoiled' = spoiled \cup {save[r].sub : r \in {q \in DOMAIN save : save[q].page = p}}
         /\ DOMAIN save' = DOMAIN save
         /\ \A r \in DOMAIN save : save'[r] = IF save[r].page = p
                                              THEN [save[r] EXCEPT !.waiting = FALSE] ELSE save[r]
BY ConstantTypes DEF LoadedAnew, PageMoves

-----------------------------------------------------------------------------
(* Type correctness *)

LEMMA InitType == Init => TypeInv
<1> SUFFICES ASSUME Init PROVE TypeInv
  OBVIOUS
<1> USE ParameterTypes, ConstantTypes
<1>1. TypeFixed
  BY DEF Init, TypeFixed
<1>2. TypeKv
  BY DEF Init, TypeKv
<1>3. TypeCookies
  BY DEF Init, TypeCookies
<1>4. TypeGhosts
  BY DEF Init, TypeGhosts, Ids, Subs
<1>5. TypePages
  BY DEF Init, TypePages, FreshPage, Ceremonies
<1>6. TypeSaves
  BY DEF Init, TypeSaves
<1> QED
  BY <1>1, <1>2, <1>3, <1>4, <1>5, <1>6 DEF TypeInv

(* A page that moves within the types keeps the types of pages. *)
LEMMA PagesType ==
  ASSUME TypeInv, NEW p \in Pages, NEW pg \in PageType, PageMoves(p, pg), used' \in Nat, used <= used',
         pg.ch \in 0 .. used', pg.at \in Ceremonies => pg.ch # 0 /\ pg.kind # "none"
  PROVE  TypePages'
<1>1. /\ page' \in [Pages -> PageType] /\ page'[p] = pg
      /\ \A q \in Pages : q # p => page'[q] = page[q]
  BY PageStep
<1>2. used \in Nat /\ \A q \in Pages : page[q].ch \in 0 .. used'
  BY ParameterTypes DEF TypeInv, TypePages, TypeFixed
<1>3. \A q \in Pages : page'[q].ch \in 0 .. used'
  BY <1>1, <1>2
<1>4. \A q \in Pages : page'[q].at \in Ceremonies => page'[q].ch # 0 /\ page'[q].kind # "none"
  BY <1>1 DEF TypeInv, TypePages
<1> QED
  BY <1>1, <1>3, <1>4 DEF TypePages

LEMMA GoesType ==
  ASSUME TypeInv, NEW p \in Pages, NEW at \in Places, Goes(p, at), used' \in Nat, used <= used',
         at \in Ceremonies => page[p].at \in Ceremonies
  PROVE  TypePages'
<1> DEFINE pg == [page[p] EXCEPT !.at = at]
<1>1. pg \in PageType /\ PageMoves(p, pg)
  BY GoesStep
<1>2. page[p].ch \in 0 .. used' /\ (page[p].at \in Ceremonies => page[p].ch # 0 /\ page[p].kind # "none")
  BY ParameterTypes DEF TypeInv, TypePages, TypeFixed
<1>3. pg.at = at /\ pg.ch = page[p].ch /\ pg.kind = page[p].kind
  BY DEF TypeInv, TypePages, PageType
<1> HIDE DEF pg
<1> QED
  BY <1>1, <1>2, <1>3, PagesType

LEMMA LeavesType ==
  ASSUME TypeInv, NEW p \in Pages, NEW at \in Places \ Ceremonies, Leaves(p, at), used' = used
  PROVE  TypePages'
<1>1. used \in Nat
  BY ParameterTypes DEF TypeInv, TypeFixed
<1>2. LeftPage(p, at) \in PageType /\ PageMoves(p, LeftPage(p, at)) /\ LeftPage(p, at).at = at
        /\ LeftPage(p, at).ch = 0
  BY LeavesStep
<1> QED
  BY <1>1, <1>2, PagesType

LEMMA FreshType ==
  ASSUME TypeInv, NEW p \in Pages, PageMoves(p, FreshPage), used' = used PROVE TypePages'
<1>1. used \in Nat
  BY ParameterTypes DEF TypeInv, TypeFixed
<1>2. FreshPage.ch = 0 /\ FreshPage.at \notin Ceremonies
  BY DEF FreshPage, Ceremonies
<1> QED
  BY <1>1, <1>2, PagesType, ConstantTypes

LEMMA CookieType ==
  ASSUME TypeInv, NEW p \in Pages, NEW sub \in 0 .. used', NEW age \in Nat, used' \in 0 .. MaxIds,
         used <= used', SetCookie(p, sub, age)
  PROVE  TypeCookies'
<1>1. now + age \in Nat /\ sub \in 0 .. MaxIds + 1
  BY ParameterTypes DEF TypeInv, TypeFixed
<1>2. [sub |-> sub, exp |-> now + age] \in [sub : 0 .. MaxIds + 1, exp : Nat]
  BY <1>1
<1>3. cookie' \in [Browsers -> [sub : 0 .. MaxIds + 1, exp : Nat]]
  BY <1>2 DEF SetCookie, TypeInv, TypeCookies
<1>4. ASSUME NEW b \in Browsers PROVE cookie'[b] = NoCookie \/ cookie'[b].sub \in 0 .. used'
  <2>1. cookie'[b] = [sub |-> sub, exp |-> now + age] \/ cookie'[b] = cookie[b]
    BY DEF SetCookie, TypeInv, TypeCookies
  <2>2. cookie[b] = NoCookie \/ cookie[b].sub \in 0 .. used'
    BY ParameterTypes DEF TypeInv, TypeCookies, TypeFixed
  <2> QED
    BY <2>1, <2>2
<1> QED
  BY <1>3, <1>4 DEF TypeCookies

(* The kinds of ceremony are also the places a ceremony starts from. *)
LEMMA KindIsPlace ==
  ASSUME TypeInv, NEW p \in Pages, page[p].at \in Ceremonies
  PROVE  page[p].kind \in Places \ Ceremonies
BY DEF TypeInv, TypePages, PageType, Places, Ceremonies

LEMMA InitAppPlace ==
  ASSUME NEW p \in Pages, InitApp(p)
  PROVE  \E at \in Places \ Ceremonies : Goes(p, at) /\ at # "open"
BY DEF InitApp, Places, Ceremonies

LEMMA SendType ==
  ASSUME TypeInv, NEW p \in Pages, NEW list \in SUBSET Items, NEW item \in Items,
         NEW adds \in BOOLEAN, Send(p, list, item, adds)
  PROVE  TypeSaves'
<1>a. Sent(Request(p, list, item, adds))
  BY SendStep
<1>1. PICK r \in Saves \ DOMAIN save :
        /\ Request(p, list, item, adds) \in SaveType
        /\ DOMAIN save' = DOMAIN save \cup {r} /\ save'[r] = Request(p, list, item, adds)
        /\ \A q \in DOMAIN save : save'[q] = save[q]
  BY <1>a DEF Sent
<1> QED
  BY <1>1 DEF TypeInv, TypeSaves, SaveType

LEMMA PutType ==
  ASSUME TypeInv, NEW r \in Saves, PutServers(r)
  PROVE  TypeKv' /\ TypeSaves'
<1> USE PutStep
<1>1. save[r] \in SaveType /\ r \in DOMAIN save /\ UNCHANGED <<owner, challenges, used>>
  OBVIOUS
<1>2. CASE UNCHANGED lists /\ DOMAIN save' = DOMAIN save \ {r}
  <2>1. TypeKv'
    BY <1>1, <1>2 DEF TypeInv, TypeKv
  <2> QED
    BY <1>1, <1>2, <2>1 DEF TypeInv, TypeSaves
<1>3. CASE /\ save[r].sub \in Subs
           /\ DOMAIN lists' = DOMAIN lists \cup {save[r].sub}
           /\ lists'[save[r].sub] = PutListOf(r)
           /\ \A u \in DOMAIN lists : u # save[r].sub => lists'[u] = lists[u]
           /\ DOMAIN save' = DOMAIN save /\ save'[r] = [save[r] EXCEPT !.at = "put"]
  <2>1. PutListOf(r).servers \subseteq Items
    BY <1>1 DEF PutListOf, SaveType
  <2>2. TypeKv'
    BY <1>1, <1>3, <2>1 DEF TypeInv, TypeKv
  <2>3. [save[r] EXCEPT !.at = "put"] \in SaveType
    BY <1>1 DEF SaveType
  <2> QED
    BY <1>1, <1>3, <2>2, <2>3 DEF TypeInv, TypeSaves
<1> QED
  BY <1>2, <1>3

LEMMA SavedType ==
  ASSUME TypeInv, NEW r \in Saves, ServersSaved(r)
  PROVE  TypeSaves'
<1> USE SavedStep
<1>1. \A q \in DOMAIN save : save[q] \in SaveType /\ [save[q] EXCEPT !.cached = FALSE] \in SaveType
  BY DEF TypeInv, TypeSaves, SaveType
<1> QED
  BY <1>1 DEF TypeInv, TypeSaves

LEMMA AnewType ==
  ASSUME TypeInv, NEW p \in Pages, LoadedAnew(p)
  PROVE  TypeSaves'
<1>1. ASSUME NEW q \in DOMAIN save
      PROVE  save[q] \in SaveType /\ [save[q] EXCEPT !.waiting = FALSE] \in SaveType
  <2>1. save[q] \in SaveType
    BY DEF TypeInv, TypeSaves
  <2> QED
    BY <2>1 DEF SaveType
<1>2. /\ DOMAIN save' = DOMAIN save
      /\ \A q \in DOMAIN save : save'[q] = IF save[q].page = p
                                           THEN [save[q] EXCEPT !.waiting = FALSE] ELSE save[q]
  BY AnewStep
<1>3. \A q \in DOMAIN save' : save'[q] \in SaveType
  BY <1>1, <1>2
<1>4. SaveType' = SaveType
  BY DEF SaveType
<1> QED
  BY <1>2, <1>3, <1>4 DEF TypeInv, TypeSaves

LEMMA TypeStep == TypeInv /\ [Next]_vars => TypeInv'
<1> SUFFICES ASSUME TypeInv, [Next]_vars PROVE TypeInv'
  OBVIOUS
<1> USE ParameterTypes DEF fixed, kv, saving
<1>0. used \in Nat /\ now \in Nat
  BY DEF TypeInv, TypeFixed
<1>1. CASE Tick
  <2>1. TypeFixed'
    BY <1>1 DEF Tick, TypeInv, TypeFixed
  <2>2. TypeKv'
    BY <1>1 DEF Tick, TypeInv, TypeKv, Unexpired, Restrict
  <2> QED
    BY <1>1, <2>1, <2>2 DEF Tick, TypeInv, TypeCookies, TypeGhosts, TypeSaves, TypePages
<1>2. ASSUME NEW p \in Pages, InitApp(p) PROVE TypeInv'
  <2>1. TypePages'
    BY <1>0, <1>2, InitAppPlace, GoesType DEF InitApp
  <2> QED
    BY <1>2, <2>1 DEF InitApp, TypeInv, TypeFixed, TypeKv, TypeCookies, TypeGhosts, TypeSaves
<1>3. ASSUME NEW p \in Pages, RegisterOptions(p) \/ LoginOptions(p) PROVE TypeInv'
  <2>1. PICK kind \in {"registration", "authentication"} : NewChallenge(p, kind)
    BY <1>3 DEF RegisterOptions, LoginOptions
  <2>2. UNCHANGED <<fixed, now, owner, lists, cookie, holder, signs, overlapped, born, saving>>
    BY <1>3 DEF RegisterOptions, LoginOptions
  <2>3. /\ ChallengedPage(p, kind) \in PageType /\ PageMoves(p, ChallengedPage(p, kind))
        /\ used < MaxIds /\ used' = used + 1
        /\ DOMAIN challenges' = DOMAIN challenges \cup {used + 1}
    BY <2>1, ChallengeStep
  <2>4. ChallengedPage(p, kind).ch = used + 1 /\ ChallengedPage(p, kind).kind = kind
    BY DEF ChallengedPage, TypeInv, TypePages, PageType
  <2>5. TypePages'
    BY <1>0, <2>3, <2>4, PagesType
  <2>6. TypeFixed' /\ TypeKv'
    BY <1>0, <2>2, <2>3 DEF TypeInv, TypeFixed, TypeKv
  <2>7. TypeCookies' /\ TypeGhosts' /\ TypeSaves'
    BY <1>0, <2>2, <2>3 DEF TypeInv, TypeCookies, TypeGhosts, TypeSaves
  <2> QED
    BY <2>5, <2>6, <2>7 DEF TypeInv
<1>4. ASSUME NEW p \in Pages, CreateCredential(p) PROVE TypeInv'
  <2>1. /\ CreatedPage(p) \in PageType /\ PageMoves(p, CreatedPage(p))
        /\ page[p].ch \in 1 .. used
    BY <1>4, CreateStep
  <2>2. CreatedPage(p).ch = page[p].ch /\ CreatedPage(p).kind = page[p].kind
          /\ page[p].kind # "none"
    BY <1>4 DEF CreateCredential, CreatedPage, TypeInv, TypePages, PageType
  <2>3. used' = used
    BY <1>4 DEF CreateCredential
  <2>4. TypePages'
    BY <1>0, <2>1, <2>2, <2>3, PagesType
  <2>5. TypeGhosts'
    <3>0. holder' = With(holder, page[p].ch, BrowserOf[p]) /\ UNCHANGED <<used, signs, overlapped>>
      BY <1>4 DEF CreateCredential
    <3>1. /\ DOMAIN holder' = DOMAIN holder \cup {page[p].ch}
          /\ holder'[page[p].ch] = BrowserOf[p]
          /\ \A c \in DOMAIN holder : c # page[p].ch => holder'[c] = holder[c]
      BY <3>0 DEF With
    <3> QED
      BY <2>1, <3>0, <3>1, BrowserType DEF TypeInv, TypeGhosts, TypeSaves
  <2> QED
    BY <1>4, <2>4, <2>5 DEF CreateCredential, TypeInv, TypeFixed, TypeKv, TypeCookies, TypeSaves
<1>5. ASSUME NEW p \in Pages, SignChallenge(p) PROVE TypeInv'
  <2>1. /\ SignedPage(p) \in PageType /\ PageMoves(p, SignedPage(p))
        /\ signs' \in [Ids -> Nat]
    BY <1>5, SignStep
  <2>2. SignedPage(p).ch = page[p].ch /\ SignedPage(p).kind = page[p].kind
          /\ page[p].kind # "none" /\ page[p].ch # 0 /\ page[p].ch \in 0 .. used
    BY <1>5 DEF SignChallenge, SignedPage, TypeInv, TypePages, PageType, Ceremonies
  <2>3. used' = used
    BY <1>5 DEF SignChallenge
  <2>4. TypePages'
    BY <1>0, <2>1, <2>2, <2>3, PagesType
  <2>5. TypeGhosts'
    BY <1>5, <2>1 DEF SignChallenge, TypeInv, TypeGhosts, TypeSaves
  <2> QED
    BY <1>5, <2>4, <2>5 DEF SignChallenge, TypeInv, TypeFixed, TypeKv, TypeCookies, TypeSaves
<1>6. ASSUME NEW p \in Pages, CancelPrompt(p) PROVE TypeInv'
  <2>1. TypePages'
    BY <1>6, KindIsPlace, LeavesType DEF CancelPrompt, Ceremonies
  <2> QED
    BY <1>6, <2>1 DEF CancelPrompt, TypeInv, TypeFixed, TypeKv, TypeCookies, TypeGhosts, TypeSaves
<1>7. ASSUME NEW p \in Pages, VerifyOwner(p) PROVE TypeInv'
  <2>1. TypePages'
    <3>1. used' = used
      BY <1>7 DEF VerifyOwner
    <3>2. /\ page[p].ch \in 0 .. used /\ page[p].ch # 0 /\ page[p].kind # "none"
          /\ ReadPage(p).ch = page[p].ch /\ ReadPage(p).kind = page[p].kind
      BY <1>7 DEF VerifyOwner, ReadPage, TypeInv, TypePages, PageType, Ceremonies
    <3> QED
      BY <1>0, <1>7, <3>1, <3>2, VerifyStep, PagesType
  <2>2. overlapped' \subseteq 1 .. used
    <3>1. ASSUME NEW q \in Registering \cup {p} PROVE page[q].ch \in 1 .. used
      BY <1>0, <1>7 DEF Registering, VerifyOwner, TypeInv, TypePages, Ceremonies
    <3>2. overlapped \subseteq 1 .. used
      BY DEF TypeInv, TypeGhosts
    <3> QED
      BY <1>7, <3>1, <3>2 DEF VerifyOwner, Overlaps
  <2> QED
    BY <1>7, <2>1, <2>2 DEF VerifyOwner, TypeInv, TypeFixed, TypeKv, TypeCookies, TypeGhosts, TypeSaves
<1>8. ASSUME NEW p \in Pages, TakeChallenge(p) PROVE TypeInv'
  <2>1. Goes(p, "verified") \/ Leaves(p, page[p].kind)
    BY <1>8 DEF TakeChallenge
  <2>2. page[p].at \in Ceremonies /\ "verified" \in Places /\ used' = used
    BY <1>8 DEF TakeChallenge, Ceremonies, Places
  <2>3. TypePages'
    BY <1>0, <2>1, <2>2, KindIsPlace, GoesType, LeavesType
  <2>4. TypeKv'
    BY <1>8 DEF TakeChallenge, TypeInv, TypeKv, Restrict
  <2> QED
    BY <1>8, <2>3, <2>4 DEF TakeChallenge, TypeInv, TypeFixed, TypeCookies, TypeGhosts, TypeSaves
<1>9. ASSUME NEW p \in Pages, StoreOwner(p) PROVE TypeInv'
  <2>1. page[p].at \in Ceremonies /\ "stored" \in Places /\ used' = used
    BY <1>9 DEF StoreOwner, Ceremonies, Places
  <2>2. TypePages'
    BY <1>0, <1>9, <2>1, GoesType DEF StoreOwner
  <2>3. owner' \in Record
    BY <1>9 DEF StoreOwner, NewRecord, TypeInv, TypePages, PageType, Record
  <2> QED
    BY <1>9, <2>2, <2>3 DEF StoreOwner, TypeInv, TypeFixed, TypeKv, TypeCookies, TypeGhosts, TypeSaves
<1>10. ASSUME NEW p \in Pages, IssueCookie(p) PROVE TypeInv'
  <2>1. "dashboard" \in Places \ Ceremonies /\ used' = used /\ Owner \in 0 .. used'
    BY <1>0, <1>10 DEF IssueCookie, Ceremonies, Places, Owner
  <2>2. TypePages'
    BY <1>10, <2>1, LeavesType DEF IssueCookie
  <2>3. TypeCookies'
    BY <1>0, <1>10, <2>1, CookieType DEF IssueCookie, TypeInv, TypeFixed
  <2> QED
    BY <1>10, <2>2, <2>3 DEF IssueCookie, TypeInv, TypeFixed, TypeKv, TypeGhosts, TypeSaves
<1>11. ASSUME NEW p \in Pages, LoginDemo(p) PROVE TypeInv'
  <2>1. "dashboard" \in Places \ Ceremonies /\ used' = used + 1 /\ used' \in 0 .. used'
          /\ used' \in 0 .. MaxIds
    BY <1>0, <1>11 DEF LoginDemo, Ceremonies, Places
  <2>2. TypePages'
    BY <1>0, <1>11, <2>1, GoesType DEF LoginDemo
  <2>3. TypeCookies'
    BY <1>0, <1>11, <2>1, CookieType DEF LoginDemo
  <2> QED
    BY <1>0, <1>11, <2>1, <2>2, <2>3 DEF LoginDemo, TypeInv, TypeFixed, TypeKv, TypeGhosts, TypeSaves
<1>12. ASSUME NEW p \in Pages, Logout(p) \/ Reload(p) PROVE TypeInv'
  <2>1. LoadedAnew(p) /\ used' = used
    BY <1>12 DEF Logout, Reload
  <2>2. TypePages' /\ TypeSaves'
    BY <2>1, AnewStep, AnewType, FreshType
  <2>3. TypeCookies'
    BY <1>12, ConstantTypes, BrowserType DEF Logout, Reload, TypeInv, TypeCookies
  <2> QED
    BY <1>12, <2>2, <2>3 DEF Logout, Reload, TypeInv, TypeFixed, TypeKv, TypeGhosts
<1>13. ASSUME NEW p \in Pages, LoadServers(p) PROVE TypeInv'
  <2>1. used' = used
    BY <1>13 DEF LoadServers
  <2>2. PICK failed \in BOOLEAN :
          LoadedPage(p, failed) \in PageType /\ PageMoves(p, LoadedPage(p, failed))
    BY <1>13, LoadStep
  <2>3. /\ page[p].ch \in 0 .. used /\ LoadedPage(p, failed).ch = page[p].ch
        /\ LoadedPage(p, failed).at \notin Ceremonies
    BY DEF LoadedPage, TypeInv, TypePages, PageType, Ceremonies
  <2>4. TypePages'
    BY <1>0, <2>1, <2>2, <2>3, PagesType
  <2> QED
    BY <1>13, <2>4 DEF LoadServers, TypeInv, TypeFixed, TypeKv, TypeCookies, TypeGhosts, TypeSaves
<1>14. ASSUME NEW p \in Pages, NEW s \in Servers, AddServer(p, s) PROVE TypeInv'
  <2> DEFINE item == AddedItem(p, s)
             list == page[p].cache \cup {item}
  <2>1. /\ item \in Items /\ list \in SUBSET Items /\ Send(p, list, item, TRUE)
        /\ CachedPage(p, list) \in PageType /\ PageMoves(p, CachedPage(p, list))
        /\ page[p].at = "open" /\ page[p] \in PageType
        /\ UNCHANGED <<fixed, now, used, kv, cookie, holder, signs, overlapped, born>>
    BY <1>14, AddStep
  <2> HIDE DEF item, list
  <2>2. TypeSaves'
    BY <2>1, SendType
  <2>3. CachedPage(p, list).ch = page[p].ch /\ CachedPage(p, list).at = "open"
          /\ page[p].ch \in 0 .. used
    BY <2>1 DEF CachedPage, PageType, TypeInv, TypePages
  <2>4. TypePages'
    BY <1>0, <2>1, <2>3, PagesType DEF Ceremonies
  <2> QED
    BY <2>1, <2>2, <2>4 DEF TypeInv, TypeFixed, TypeKv, TypeCookies, TypeGhosts
<1>15. ASSUME NEW p \in Pages, NEW item \in page[p].cache, RemoveServer(p, item) PROVE TypeInv'
  <2>1. /\ item \in Items /\ page[p].cache \ {item} \in SUBSET Items
        /\ Send(p, page[p].cache \ {item}, item, FALSE) /\ page' = page
        /\ UNCHANGED <<fixed, now, used, kv, cookie, holder, signs, overlapped, born>>
    BY <1>15, RemoveStep
  <2>2. TypeSaves'
    BY <2>1, SendType
  <2> QED
    BY <2>1, <2>2 DEF TypeInv, TypeFixed, TypeKv, TypeCookies, TypeGhosts, TypePages
<1>16. ASSUME NEW r \in Saves, PutServers(r) PROVE TypeInv'
  <2>1. TypeKv' /\ TypeSaves'
    BY <1>16, PutType
  <2>2. UNCHANGED <<fixed, now, used, cookie, page, holder, signs, overlapped>>
    BY <1>16, PutStep
  <2> QED
    BY <2>1, <2>2 DEF TypeInv, TypeFixed, TypeCookies, TypeGhosts, TypePages
<1>17. ASSUME NEW r \in Saves, ServersSaved(r) PROVE TypeInv'
  <2> DEFINE p == save[r].page
             pg == CachedPage(p, save[r].list)
  <2>1. /\ UNCHANGED <<fixed, now, used, kv, cookie, holder, signs, overlapped>>
        /\ p \in Pages /\ (page' = page \/ (pg \in PageType /\ PageMoves(p, pg)))
    BY <1>17, SavedStep
  <2>2. TypePages'
    <3>1. CASE page' = page
      BY <2>1, <3>1 DEF TypeInv, TypePages
    <3>2. CASE pg \in PageType /\ PageMoves(p, pg)
      <4>1. pg.ch = page[p].ch /\ pg.at = page[p].at /\ pg.kind = page[p].kind
        BY <2>1 DEF CachedPage, PageType, TypeInv, TypePages
      <4>2. page[p].ch \in 0 .. used'
            /\ (page[p].at \in Ceremonies => page[p].ch # 0 /\ page[p].kind # "none")
        BY <2>1 DEF TypeInv, TypePages
      <4> HIDE DEF p, pg
      <4> QED
        BY <1>0, <2>1, <3>2, <4>1, <4>2, PagesType
    <3> QED
      BY <2>1, <3>1, <3>2
  <2> QED
    BY <1>17, <2>1, <2>2, SavedType DEF TypeInv, TypeFixed, TypeKv, TypeCookies, TypeGhosts
<1>18. CASE UNCHANGED vars
  BY <1>18 DEF vars, TypeInv, TypeFixed, TypeKv, TypeCookies, TypeGhosts, TypeSaves, TypePages
<1> QED
  BY <1>1, <1>2, <1>3, <1>4, <1>5, <1>6, <1>7, <1>8, <1>9, <1>10, <1>11, <1>12, <1>13, <1>14, <1>15,
     <1>16, <1>17, <1>18 DEF Next

-----------------------------------------------------------------------------
(* Ceremonies.  No two pages have the same challenge, a challenge names at   *)
(* most one credential, and an answer is that of the page's authenticator.   *)

Distinct ==
  \A p, q \in Pages : p # q /\ page[p].ch = page[q].ch => page[p].ch = 0
Unused ==
  \A p \in Pages :
    page[p].at = "prompt" /\ page[p].kind = "registration" => page[p].ch \notin DOMAIN holder
Answered ==
  \A p \in Pages : page[p].at \in {"verify", "read", "verified"} =>
    /\ page[p].answer.cred \in DOMAIN holder /\ holder[page[p].answer.cred] = BrowserOf[p]
    /\ page[p].answer.counter <= signs[page[p].answer.cred]
Matched ==
  \A p \in Pages : page[p].at = "verified" /\ page[p].kind # "registration" =>
    page[p].rec.cred = page[p].answer.cred
OwnerHeld == owner # NoOwner => owner.cred \in DOMAIN holder

CeremonyInv == Distinct /\ Unused /\ Answered /\ Matched /\ OwnerHeld /\ NotLockedOut

LEMMA InitCeremony == Init => CeremonyInv
BY DEF Init, FreshPage, CeremonyInv, Distinct, Unused, Answered, Matched, OwnerHeld, NotLockedOut

(* A page that is in no request, or has only its cookie to wait for. *)
LEMMA CeremonyFrame ==
  ASSUME TypeInv, CeremonyInv, NEW p \in Pages, NEW pg \in PageType, PageMoves(p, pg),
         pg.ch \in {0, page[p].ch}, pg.at \notin {"prompt", "verify", "read", "verified"},
         UNCHANGED <<BrowserOf, holder, signs>>
  PROVE  Distinct' /\ Unused' /\ Answered' /\ Matched'
<1>1. /\ page'[p] = pg
      /\ \A q \in Pages : q # p => page'[q] = page[q]
  BY PageStep
<1>2. Distinct'
  BY <1>1 DEF CeremonyInv, Distinct
<1>3. Unused'
  BY <1>1 DEF CeremonyInv, Unused
<1>4. Answered'
  BY <1>1 DEF CeremonyInv, Answered
<1>5. Matched'
  BY <1>1 DEF CeremonyInv, Matched
<1> QED
  BY <1>2, <1>3, <1>4, <1>5

LEMMA OwnerFrame ==
  ASSUME CeremonyInv, UNCHANGED <<owner, holder, signs>> PROVE OwnerHeld' /\ NotLockedOut'
BY DEF CeremonyInv, OwnerHeld, NotLockedOut

(* What of a page stays as it is when it moves. *)
LEMMA QuietPage ==
  ASSUME TypeInv, NEW p \in Pages
  PROVE  /\ \A failed : LoadedPage(p, failed).ch = page[p].ch /\ LoadedPage(p, failed).at = "open"
         /\ \A at : [page[p] EXCEPT !.at = at].ch = page[p].ch /\ [page[p] EXCEPT !.at = at].at = at
         /\ FreshPage.ch = 0 /\ FreshPage.at = "start"
BY DEF LoadedPage, FreshPage, TypeInv, TypePages, PageType

(* The actions with which a page starts, ends or is outside of a ceremony. *)
Outside(p) ==
  \/ InitApp(p) \/ CancelPrompt(p) \/ IssueCookie(p) \/ LoginDemo(p) \/ Logout(p) \/ Reload(p)
  \/ LoadServers(p)

(* The actions that leave every page where it is: they change its cache at most. *)
Quiet ==
  \/ Tick \/ UNCHANGED vars
  \/ \E p \in Pages : \/ \E s \in Servers : AddServer(p, s)
                      \/ \E item \in page[p].cache : RemoveServer(p, item)
  \/ \E r \in Saves : PutServers(r) \/ ServersSaved(r)

SameCeremonies ==
  \A p \in Pages :
    /\ page'[p].at = page[p].at /\ page'[p].kind = page[p].kind /\ page'[p].ch = page[p].ch
    /\ page'[p].answer = page[p].answer /\ page'[p].rec = page[p].rec

LEMMA CacheQuiet ==
  ASSUME TypeInv, NEW p \in Pages, NEW list, CachedPage(p, list) \in PageType,
         PageMoves(p, CachedPage(p, list))
  PROVE  SameCeremonies
<1>1. page'[p] = CachedPage(p, list) /\ \A q \in Pages : q # p => page'[q] = page[q]
  BY PageStep
<1>2. /\ CachedPage(p, list).at = page[p].at /\ CachedPage(p, list).kind = page[p].kind
      /\ CachedPage(p, list).ch = page[p].ch /\ CachedPage(p, list).answer = page[p].answer
      /\ CachedPage(p, list).rec = page[p].rec
  BY DEF CachedPage, TypeInv, TypePages, PageType
<1> QED
  BY <1>1, <1>2 DEF SameCeremonies

LEMMA QuietStep ==
  ASSUME TypeInv, Quiet
  PROVE  /\ SameCeremonies
         /\ UNCHANGED <<demo, BrowserOf, counting, used, owner, cookie, holder, signs, overlapped, born>>
<1> USE DEF fixed, kv
<1>1. CASE Tick \/ UNCHANGED vars
  BY <1>1 DEF Tick, vars, SameCeremonies
<1>2. ASSUME NEW p \in Pages, NEW s \in Servers, AddServer(p, s)
      PROVE  /\ SameCeremonies
             /\ UNCHANGED <<demo, BrowserOf, counting, used, owner, cookie, holder, signs, overlapped, born>>
  BY <1>2, AddStep, CacheQuiet
<1>3. ASSUME NEW p \in Pages, NEW item \in page[p].cache, RemoveServer(p, item)
      PROVE  /\ SameCeremonies
             /\ UNCHANGED <<demo, BrowserOf, counting, used, owner, cookie, holder, signs, overlapped, born>>
  BY <1>3 DEF RemoveServer, SameCeremonies
<1>4. ASSUME NEW r \in Saves, PutServers(r)
      PROVE  /\ SameCeremonies
             /\ UNCHANGED <<demo, BrowserOf, counting, used, owner, cookie, holder, signs, overlapped, born>>
  BY <1>4 DEF PutServers, SameCeremonies
<1>5. ASSUME NEW r \in Saves, ServersSaved(r)
      PROVE  /\ SameCeremonies
             /\ UNCHANGED <<demo, BrowserOf, counting, used, owner, cookie, holder, signs, overlapped, born>>
  <2>1. CASE page' = page
    BY <1>5, <2>1, SavedStep DEF SameCeremonies
  <2>2. CASE Replaces(r)
    BY <1>5, <2>2, SavedStep, CacheQuiet
  <2> QED
    BY <1>5, <2>1, <2>2, SavedStep
<1> QED
  BY <1>1, <1>2, <1>3, <1>4, <1>5 DEF Quiet

LEMMA OutsideStep ==
  ASSUME TypeInv, NEW p \in Pages, Outside(p)
  PROVE  /\ UNCHANGED <<demo, BrowserOf, counting, owner, holder, signs, overlapped>>
         /\ \E pg \in PageType : PageMoves(p, pg) /\ pg.ch \in {0, page[p].ch} /\ pg.at \notin Ceremonies
<1> USE DEF fixed, kv
<1>1. UNCHANGED <<demo, BrowserOf, counting, owner, holder, signs, overlapped>>
  BY DEF Outside, InitApp, CancelPrompt, IssueCookie, LoginDemo, Logout, Reload, LoadServers
<1>2. CASE \E at \in Places \ Ceremonies : Goes(p, at)
  BY <1>1, <1>2, GoesStep, QuietPage, ZenonT(60)
<1>3. CASE \E at \in Places \ Ceremonies : Leaves(p, at)
  BY <1>1, <1>3, LeavesStep
<1>4. CASE PageMoves(p, FreshPage)
  BY <1>1, <1>4, ConstantTypes, QuietPage DEF Ceremonies
<1>5. CASE LoadServers(p)
  BY <1>1, <1>5, LoadStep, QuietPage DEF Ceremonies
<1>7. CASE InitApp(p)
  BY <1>2, <1>7, InitAppPlace
<1>8. CASE CancelPrompt(p)
  BY <1>3, <1>8, KindIsPlace DEF CancelPrompt, Ceremonies
<1>9. CASE IssueCookie(p) \/ LoginDemo(p)
  BY <1>2, <1>3, <1>9 DEF IssueCookie, LoginDemo, Places, Ceremonies
<1>10. CASE Logout(p) \/ Reload(p)
  BY <1>4, <1>10, AnewStep DEF Logout, Reload
<1> QED
  BY <1>1, <1>5, <1>7, <1>8, <1>9, <1>10 DEF Outside

LEMMA CeremonyStep == TypeInv /\ CeremonyInv /\ [Next]_vars => CeremonyInv'
<1> SUFFICES ASSUME TypeInv, CeremonyInv, [Next]_vars PROVE CeremonyInv'
  OBVIOUS
<1> USE ParameterTypes DEF fixed, kv
<1>0. used \in Nat /\ signs \in [Ids -> Nat] /\ \A c \in DOMAIN holder : c \in Ids /\ c \in 1 .. used
  BY DEF TypeInv, TypeFixed, TypeGhosts, Ids
<1>1. CASE Quiet
  <2>1. UNCHANGED <<BrowserOf, owner, holder, signs>> /\ SameCeremonies
    BY <1>1, QuietStep
  <2>2. Distinct' /\ Unused' /\ Matched'
    BY <2>1 DEF SameCeremonies, CeremonyInv, Distinct, Unused, Matched
  <2>3. Answered'
    BY <2>1 DEF SameCeremonies, CeremonyInv, Answered
  <2> QED
    BY <2>1, <2>2, <2>3, OwnerFrame DEF CeremonyInv
<1>2. ASSUME NEW p \in Pages, Outside(p) PROVE CeremonyInv'
  <2>1. UNCHANGED <<demo, BrowserOf, counting, owner, holder, signs>>
    BY <1>2, OutsideStep
  <2>2. PICK pg \in PageType : PageMoves(p, pg) /\ pg.ch \in {0, page[p].ch} /\ pg.at \notin Ceremonies
    BY <1>2, OutsideStep
  <2>3. Distinct' /\ Unused' /\ Answered' /\ Matched'
    BY <2>1, <2>2, CeremonyFrame DEF Ceremonies
  <2> QED
    BY <2>1, <2>3, OwnerFrame DEF CeremonyInv
<1>3. ASSUME NEW p \in Pages, RegisterOptions(p) \/ LoginOptions(p) PROVE CeremonyInv'
  <2>1. PICK kind \in {"registration", "authentication"} : NewChallenge(p, kind)
    BY <1>3 DEF RegisterOptions, LoginOptions
  <2>2. UNCHANGED <<BrowserOf, owner, holder, signs>>
    BY <1>3 DEF RegisterOptions, LoginOptions
  <2> DEFINE pg == ChallengedPage(p, kind)
  <2>3. pg \in PageType /\ PageMoves(p, pg)
    BY <2>1, ChallengeStep
  <2>4. pg.ch = used + 1 /\ pg.at = "prompt"
    BY DEF ChallengedPage, TypeInv, TypePages, PageType
  <2> HIDE DEF pg
  <2>5. page'[p] = pg /\ \A q \in Pages : q # p => page'[q] = page[q]
    BY <2>3, PageStep
  <2>6. \A q \in Pages : page[q].ch \in 0 .. used
    BY DEF TypeInv, TypePages
  <2>7. Distinct'
    BY <1>0, <2>4, <2>5, <2>6 DEF CeremonyInv, Distinct
  <2>8. Unused'
    BY <1>0, <2>2, <2>4, <2>5 DEF CeremonyInv, Unused
  <2>9. Answered' /\ Matched'
    BY <2>2, <2>4, <2>5 DEF CeremonyInv, Answered, Matched
  <2> QED
    BY <2>2, <2>7, <2>8, <2>9, OwnerFrame DEF CeremonyInv
<1>4. ASSUME NEW p \in Pages, CreateCredential(p) PROVE CeremonyInv'
  <2> DEFINE c == page[p].ch
             pg == CreatedPage(p)
  <2>1. /\ page[p].at = "prompt" /\ page[p].kind = "registration"
        /\ holder' = With(holder, c, BrowserOf[p]) /\ UNCHANGED <<BrowserOf, owner, signs>>
    BY <1>4 DEF CreateCredential
  <2>2. pg \in PageType /\ PageMoves(p, pg) /\ c \in 1 .. used
    BY <1>4, CreateStep
  <2>3. /\ pg.ch = c /\ pg.at = "verify" /\ pg.kind = "registration"
        /\ pg.answer.cred = c /\ pg.answer.counter = 0
    BY <2>1 DEF CreatedPage, TypeInv, TypePages, PageType
  <2>4. c \notin DOMAIN holder /\ c \in Ids
    BY <2>1, <2>2 DEF CeremonyInv, Unused, Ids, TypeInv, TypeFixed
  <2>5. \A q \in Pages : q # p /\ page[q].ch = c => c = 0
    BY DEF CeremonyInv, Distinct
  <2> HIDE DEF c, pg
  <2>6. page'[p] = pg /\ \A q \in Pages : q # p => page'[q] = page[q]
    BY <2>2, PageStep
  <2>7. /\ DOMAIN holder' = DOMAIN holder \cup {c} /\ holder'[c] = BrowserOf[p]
        /\ \A d \in DOMAIN holder : holder'[d] = holder[d]
    BY <2>1, <2>4 DEF With
  <2>8. Distinct'
    <3>1. \A q \in Pages : page'[q].ch = page[q].ch
      BY <2>3, <2>6 DEF c
    <3> QED
      BY <3>1 DEF CeremonyInv, Distinct
  <2>9. Unused'
    BY <2>2, <2>3, <2>5, <2>6, <2>7 DEF CeremonyInv, Unused
  <2>10. Answered'
    BY <1>0, <2>1, <2>3, <2>4, <2>6, <2>7 DEF CeremonyInv, Answered
  <2>11. Matched'
    BY <2>3, <2>6 DEF CeremonyInv, Matched
  <2>12. OwnerHeld' /\ NotLockedOut'
    BY <2>1, <2>7 DEF CeremonyInv, OwnerHeld, NotLockedOut
  <2> QED
    BY <2>8, <2>9, <2>10, <2>11, <2>12 DEF CeremonyInv
<1>5. ASSUME NEW p \in Pages, SignChallenge(p) PROVE CeremonyInv'
  <2> DEFINE c == page[p].allowed
             pg == SignedPage(p)
  <2>1. /\ c \in DOMAIN holder /\ holder[c] = BrowserOf[p] /\ UNCHANGED <<BrowserOf, owner, holder>>
    BY <1>5 DEF SignChallenge
  <2>2. /\ pg \in PageType /\ PageMoves(p, pg) /\ signs' \in [Ids -> Nat]
        /\ \A d \in Ids : signs[d] <= signs'[d]
    BY <1>5, SignStep
  <2>3. /\ pg.ch = page[p].ch /\ pg.at = "verify" /\ pg.answer.cred = c /\ pg.answer.counter = signs'[c]
    BY DEF SignedPage, TypeInv, TypePages, PageType
  <2> HIDE DEF c, pg
  <2>4. page'[p] = pg /\ \A q \in Pages : q # p => page'[q] = page[q]
    BY <2>2, PageStep
  <2>5. Distinct'
    BY <2>3, <2>4 DEF CeremonyInv, Distinct
  <2>6. Unused' /\ Matched' /\ OwnerHeld'
    BY <2>1, <2>3, <2>4 DEF CeremonyInv, Unused, Matched, OwnerHeld
  <2>7. Answered'
    <3> SUFFICES ASSUME NEW q \in Pages, page'[q].at \in {"verify", "read", "verified"}
                 PROVE  /\ page'[q].answer.cred \in DOMAIN holder
                        /\ holder[page'[q].answer.cred] = BrowserOf[q]
                        /\ page'[q].answer.counter <= signs'[page'[q].answer.cred]
      BY <2>1 DEF Answered
    <3>1. CASE q = p
      BY <1>0, <2>1, <2>2, <2>3, <2>4, <3>1
    <3>2. CASE q # p
      <4> DEFINE d == page[q].answer.cred
                 n == page[q].answer.counter
      <4>1. d \in DOMAIN holder /\ holder[d] = BrowserOf[q] /\ n <= signs[d] /\ n \in Nat
        BY <2>4, <3>2 DEF CeremonyInv, Answered, TypeInv, TypePages, PageType, Record
      <4>2. d \in Ids /\ signs[d] <= signs'[d] /\ signs[d] \in Nat /\ signs'[d] \in Nat
        BY <1>0, <2>2, <4>1
      <4>3. n <= signs'[d]
        BY <4>1, <4>2
      <4> QED
        BY <2>4, <3>2, <4>1, <4>3
    <3> QED
      BY <3>1, <3>2
  <2>8. NotLockedOut'
    <3> SUFFICES ASSUME owner # NoOwner PROVE owner.counter <= signs'[owner.cred]
      BY <2>1 DEF NotLockedOut
    <3>1. owner.cred \in Ids /\ owner.counter \in Nat /\ owner.counter <= signs[owner.cred]
      BY <1>0 DEF CeremonyInv, OwnerHeld, NotLockedOut, TypeInv, TypeKv, Record
    <3> QED
      BY <1>0, <2>2, <3>1
  <2> QED
    BY <2>5, <2>6, <2>7, <2>8 DEF CeremonyInv
<1>6. ASSUME NEW p \in Pages, VerifyOwner(p) PROVE CeremonyInv'
  <2>1. UNCHANGED <<BrowserOf, owner, holder, signs>> /\ page[p].at = "verify"
    BY <1>6 DEF VerifyOwner
  <2>2. CASE ReadPage(p) \in PageType /\ PageMoves(p, ReadPage(p))
    <3> DEFINE pg == ReadPage(p)
    <3>1. pg.ch = page[p].ch /\ pg.at = "read" /\ pg.answer = page[p].answer
      BY DEF ReadPage, TypeInv, TypePages, PageType
    <3> HIDE DEF pg
    <3>2. page'[p] = pg /\ \A q \in Pages : q # p => page'[q] = page[q]
      BY <2>2, PageStep DEF pg
    <3>3. Distinct' /\ Unused' /\ Matched'
      BY <2>1, <3>1, <3>2 DEF CeremonyInv, Distinct, Unused, Matched
    <3>4. Answered'
      BY <2>1, <3>1, <3>2 DEF CeremonyInv, Answered
    <3> QED
      BY <2>1, <3>3, <3>4, OwnerFrame DEF CeremonyInv
  <2>3. CASE /\ LeftPage(p, page[p].kind) \in PageType /\ PageMoves(p, LeftPage(p, page[p].kind))
             /\ LeftPage(p, page[p].kind).at \notin Ceremonies /\ LeftPage(p, page[p].kind).ch = 0
    BY <2>1, <2>3, CeremonyFrame, OwnerFrame DEF CeremonyInv, Ceremonies
  <2> QED
    BY <1>6, <2>2, <2>3, VerifyStep
<1>7. ASSUME NEW p \in Pages, TakeChallenge(p) PROVE CeremonyInv'
  <2>1. UNCHANGED <<BrowserOf, owner, holder, signs>> /\ page[p].at = "read"
    BY <1>7 DEF TakeChallenge
  <2>2. CASE Goes(p, "verified") /\ Verified(page[p])
    <3> DEFINE pg == [page[p] EXCEPT !.at = "verified"]
    <3>1. pg \in PageType /\ PageMoves(p, pg)
      BY <2>2, GoesStep DEF Places, Ceremonies
    <3>2. /\ pg.ch = page[p].ch /\ pg.at = "verified" /\ pg.answer = page[p].answer
          /\ pg.kind = page[p].kind /\ pg.rec = page[p].rec
      BY DEF TypeInv, TypePages, PageType
    <3> HIDE DEF pg
    <3>3. page'[p] = pg /\ \A q \in Pages : q # p => page'[q] = page[q]
      BY <3>1, PageStep
    <3>4. Distinct' /\ Unused'
      BY <2>1, <3>2, <3>3 DEF CeremonyInv, Distinct, Unused
    <3>5. Answered'
      BY <2>1, <3>2, <3>3 DEF CeremonyInv, Answered
    <3>6. Matched'
      BY <2>2, <3>2, <3>3 DEF CeremonyInv, Matched, Verified
    <3> QED
      BY <2>1, <3>4, <3>5, <3>6, OwnerFrame DEF CeremonyInv
  <2>3. CASE Leaves(p, page[p].kind)
    <3>1. page[p].kind \in Places \ Ceremonies
      BY <2>1, KindIsPlace DEF Ceremonies
    <3>2. /\ LeftPage(p, page[p].kind) \in PageType /\ PageMoves(p, LeftPage(p, page[p].kind))
          /\ LeftPage(p, page[p].kind).at = page[p].kind /\ LeftPage(p, page[p].kind).ch = 0
      BY <2>3, <3>1, LeavesStep
    <3> QED
      BY <2>1, <3>1, <3>2, CeremonyFrame, OwnerFrame DEF CeremonyInv, Ceremonies
  <2> QED
    BY <1>7, <2>2, <2>3 DEF TakeChallenge
<1>8. ASSUME NEW p \in Pages, StoreOwner(p) PROVE CeremonyInv'
  <2>1. /\ UNCHANGED <<BrowserOf, holder, signs>> /\ page[p].at = "verified"
        /\ owner' = NewRecord(page[p]) /\ Goes(p, "stored")
    BY <1>8 DEF StoreOwner
  <2> DEFINE pg == [page[p] EXCEPT !.at = "stored"]
  <2>2. pg \in PageType /\ PageMoves(p, pg) /\ pg.ch = page[p].ch /\ pg.at = "stored"
    BY <2>1, GoesStep, QuietPage, ZenonT(60) DEF Places, Ceremonies
  <2> HIDE DEF pg
  <2>3. Distinct' /\ Unused' /\ Answered' /\ Matched'
    BY <2>1, <2>2, CeremonyFrame
  <2>4. owner'.cred = page[p].answer.cred /\ owner'.counter = page[p].answer.counter
    <3>1. page[p].kind # "registration" => page[p].rec.cred = page[p].answer.cred
      BY <2>1 DEF CeremonyInv, Matched
    <3>2. owner' = [cred |-> IF page[p].kind = "registration" THEN page[p].answer.cred
                             ELSE page[p].rec.cred, counter |-> page[p].answer.counter]
      BY <2>1 DEF NewRecord
    <3> QED
      BY <3>1, <3>2
  <2>5. OwnerHeld' /\ NotLockedOut'
    BY <2>1, <2>4 DEF CeremonyInv, Answered, OwnerHeld, NotLockedOut
  <2> QED
    BY <2>3, <2>5 DEF CeremonyInv
<1> QED
  BY <1>1, <1>2, <1>3, <1>4, <1>5, <1>6, <1>7, <1>8 DEF Next, Quiet, Outside

LEMMA CeremonyAlways == Spec => [](TypeInv /\ CeremonyInv)
<1>1. Init => TypeInv /\ CeremonyInv
  BY InitType, InitCeremony
<1>2. (TypeInv /\ CeremonyInv) /\ [Next]_vars => (TypeInv /\ CeremonyInv)'
  BY TypeStep, CeremonyStep
<1> QED
  BY <1>1, <1>2, PTL DEF Spec

(* POST /login/verify writes the counter of the answer it verified back with *)
(* the record it read.  However many logins and registrations overlap, the   *)
(* stored counter is never ahead of the credential's authenticator, which    *)
(* would refuse the owner's later signatures.                                *)
THEOREM NobodyLockedOut == Spec => []NotLockedOut
<1>1. CeremonyInv => NotLockedOut
  BY DEF CeremonyInv
<1> QED
  BY <1>1, CeremonyAlways, PTL

-----------------------------------------------------------------------------
(* The sole owner.  A register/verify request that overlaps with no other    *)
(* finds no owner when it writes, because whatever else writes the record    *)
(* had read one; and a login writes back the credential it read.  So the     *)
(* stored credential is replaced only among requests that overlapped.        *)

(* One of two credentials may take the place of the other. *)
Contested(c, d) == c = d \/ (c \in overlapped /\ d \in overlapped)

(* The browser had registered, or proved, a credential of the owner. *)
Entitled(b) ==
  owner # NoOwner /\ \E c \in DOMAIN holder : holder[c] = b /\ Contested(c, owner.cred)

OwnAnswer ==
  \A p \in Pages : page[p].at \in {"verify", "read", "verified"} /\ page[p].kind = "registration" =>
    page[p].answer.cred = page[p].ch
RegistersTogether == \A p, q \in Registering : p # q => page[p].ch \in overlapped
RegistersFirst ==
  \A p \in Registering : owner # NoOwner => owner.cred \in overlapped /\ page[p].ch \in overlapped
ReadIsOwner ==
  \A p \in Pages : page[p].at \in {"read", "verified"} /\ page[p].kind # "registration" =>
    owner # NoOwner /\ Contested(page[p].rec.cred, owner.cred)
StoredIsOwner == \A p \in Pages : page[p].at = "stored" => Entitled(BrowserOf[p])
CookieIsOwner == \A b \in Browsers : cookie[b].sub = Owner => Entitled(b)

SoleInv ==
  /\ OwnAnswer /\ RegistersTogether /\ RegistersFirst /\ ReadIsOwner /\ StoredIsOwner
  /\ CookieIsOwner

LEMMA SoleInvImplies == SoleInv => SoleOwner
<1> SUFFICES ASSUME SoleInv, NEW b \in Browsers, cookie[b].sub = Owner
             PROVE  /\ owner # NoOwner
                    /\ holder[owner.cred] # b =>
                         /\ owner.cred \in overlapped
                         /\ \E c \in overlapped : c \in DOMAIN holder /\ holder[c] = b
  BY DEF SoleOwner
<1>1. PICK c \in DOMAIN holder : owner # NoOwner /\ holder[c] = b /\ Contested(c, owner.cred)
  BY DEF SoleInv, CookieIsOwner, Entitled
<1> QED
  BY <1>1 DEF Contested

LEMMA InitSole == Init => SoleInv
<1> SUFFICES ASSUME Init PROVE SoleInv
  OBVIOUS
<1>1. \A p \in Pages : page[p].at = "start"
  BY DEF Init, FreshPage
<1>2. Registering = {}
  BY <1>1 DEF Registering
<1>3. \A b \in Browsers : cookie[b].sub # Owner
  BY ParameterTypes DEF Init, NoCookie, Owner
<1> QED
  BY <1>1, <1>2, <1>3 DEF SoleInv, OwnAnswer, RegistersTogether, RegistersFirst, ReadIsOwner,
                          StoredIsOwner, CookieIsOwner

(* Credentials are created, never taken over. *)
HolderGrows == \A c \in DOMAIN holder : c \in DOMAIN holder' /\ holder'[c] = holder[c]

(* While the owner changes among contested credentials, browsers stay entitled. *)
LEMMA EntitledStep ==
  ASSUME HolderGrows, overlapped \subseteq overlapped', owner' # NoOwner,
         owner # NoOwner => Contested(owner.cred, owner'.cred), NEW b, Entitled(b)
  PROVE  Entitled(b)'
BY DEF Entitled, Contested, HolderGrows

LEMMA ContestedGrows ==
  ASSUME overlapped \subseteq overlapped', NEW c, NEW d, Contested(c, d) PROVE Contested(c, d)'
BY DEF Contested

LEMMA SoleFrame ==
  ASSUME TypeInv, SoleInv, NEW p \in Pages, NEW pg \in PageType, PageMoves(p, pg),
         pg.at \notin {"read", "verified", "stored"},
         pg.at = "verify" /\ pg.kind = "registration" => pg.answer.cred = pg.ch,
         UNCHANGED <<BrowserOf, owner, overlapped>>, HolderGrows,
         \A b \in Browsers : cookie'[b] = cookie[b] \/ cookie'[b].sub # Owner
  PROVE  SoleInv'
<1>1. page'[p] = pg /\ \A q \in Pages : q # p => page'[q] = page[q]
  BY PageStep
<1>2. \A b : Entitled(b) => Entitled(b)'
  BY DEF Entitled, Contested, HolderGrows
<1>3. \A q \in Registering' : q \in Registering /\ page'[q] = page[q]
  BY <1>1 DEF Registering
<1>4. OwnAnswer'
  BY <1>1 DEF SoleInv, OwnAnswer
<1>5. RegistersTogether' /\ RegistersFirst'
  BY <1>3 DEF SoleInv, RegistersTogether, RegistersFirst
<1>6. ReadIsOwner'
  BY <1>1 DEF SoleInv, ReadIsOwner, Contested
<1>7. StoredIsOwner'
  BY <1>1, <1>2 DEF SoleInv, StoredIsOwner
<1>8. CookieIsOwner'
  BY <1>2 DEF SoleInv, CookieIsOwner
<1> QED
  BY <1>4, <1>5, <1>6, <1>7, <1>8 DEF SoleInv

LEMMA OutsideCookies ==
  ASSUME TypeInv, NEW p \in Pages, Outside(p), ~IssueCookie(p)
  PROVE  \A b \in Browsers : cookie'[b] = cookie[b] \/ cookie'[b].sub # Owner
<1> USE ParameterTypes DEF fixed, kv
<1>1. CASE LoginDemo(p)
  <2>1. used + 1 # Owner /\ cookie \in [Browsers -> [sub : 0 .. MaxIds + 1, exp : Nat]]
    BY DEF TypeInv, TypeFixed, TypeCookies, Owner
  <2> QED
    BY <1>1, <2>1 DEF LoginDemo, SetCookie
<1>2. CASE Logout(p)
  <2>1. NoCookie.sub # Owner
    BY DEF NoCookie, Owner
  <2> QED
    BY <1>2, <2>1 DEF Logout, TypeInv, TypeCookies
<1> QED
  BY <1>1, <1>2 DEF Outside, InitApp, CancelPrompt, Reload, LoadServers

LEMMA SoleQuiet == ASSUME TypeInv, SoleInv, Quiet PROVE SoleInv'
<1>1. SameCeremonies /\ UNCHANGED <<BrowserOf, owner, cookie, holder, overlapped>>
  BY QuietStep
<1>2. \A b : Entitled(b)' <=> Entitled(b)
  BY <1>1 DEF Entitled, Contested
<1>3. \A p \in Pages : p \in Registering' <=> p \in Registering
  BY <1>1 DEF SameCeremonies, Registering
<1>4. Registering \subseteq Pages /\ Registering' \subseteq Pages
  BY DEF Registering
<1>5. OwnAnswer' /\ ReadIsOwner'
  BY <1>1 DEF SameCeremonies, SoleInv, OwnAnswer, ReadIsOwner, Contested
<1>6. RegistersTogether' /\ RegistersFirst'
  BY <1>1, <1>3, <1>4 DEF SameCeremonies, SoleInv, RegistersTogether, RegistersFirst
<1>7. StoredIsOwner' /\ CookieIsOwner'
  BY <1>1, <1>2 DEF SameCeremonies, SoleInv, StoredIsOwner, CookieIsOwner
<1> QED
  BY <1>5, <1>6, <1>7 DEF SoleInv

(* What a request writes takes the place of the owner's credential only if   *)
(* they are contested.                                                       *)
LEMMA StoresContested ==
  ASSUME TypeInv, CeremonyInv, SoleInv, NEW p \in Pages, StoreOwner(p)
  PROVE  /\ owner' # NoOwner /\ owner'.cred \in DOMAIN holder
         /\ holder[owner'.cred] = BrowserOf[p]
         /\ owner # NoOwner => Contested(owner.cred, owner'.cred)
         /\ page[p].kind = "registration" => owner'.cred = page[p].ch
<1>1. page[p].at = "verified" /\ owner' = NewRecord(page[p])
  BY DEF StoreOwner
<1>2. /\ owner'.cred = page[p].answer.cred
      /\ page[p].kind # "registration" => owner'.cred = page[p].rec.cred
      /\ page[p].kind = "registration" => owner'.cred = page[p].ch
  BY <1>1 DEF NewRecord, CeremonyInv, Matched, SoleInv, OwnAnswer
<1>3. owner'.cred \in DOMAIN holder /\ holder[owner'.cred] = BrowserOf[p]
  BY <1>1, <1>2 DEF CeremonyInv, Answered
<1>4. owner' # NoOwner
  BY <1>3 DEF TypeInv, TypeGhosts, NoOwner
<1>5. owner # NoOwner => Contested(owner.cred, owner'.cred)
  <2>1. CASE page[p].kind = "registration"
    BY <1>1, <1>2, <2>1 DEF SoleInv, RegistersFirst, Registering, Contested
  <2>2. CASE page[p].kind # "registration"
    BY <1>1, <1>2, <2>2 DEF SoleInv, ReadIsOwner, Contested
  <2> QED
    BY <2>1, <2>2
<1> QED
  BY <1>2, <1>3, <1>4, <1>5

LEMMA SoleStep ==
  ASSUME TypeInv, CeremonyInv, SoleInv, [Next]_vars PROVE SoleInv'
<1> USE ParameterTypes DEF fixed, kv
<1>0. Registering \subseteq Pages /\ Registering' \subseteq Pages
  BY DEF Registering
<1>1. CASE Quiet
  BY <1>1, SoleQuiet
<1>2. ASSUME NEW p \in Pages, Outside(p), ~IssueCookie(p) PROVE SoleInv'
  <2>1. UNCHANGED <<BrowserOf, owner, holder, overlapped>>
    BY <1>2, OutsideStep
  <2>2. PICK pg \in PageType : PageMoves(p, pg) /\ pg.at \notin Ceremonies
    BY <1>2, OutsideStep
  <2>3. \A b \in Browsers : cookie'[b] = cookie[b] \/ cookie'[b].sub # Owner
    BY <1>2, OutsideCookies
  <2>4. HolderGrows
    BY <2>1 DEF HolderGrows
  <2> QED
    BY <2>1, <2>2, <2>3, <2>4, SoleFrame DEF Ceremonies
<1>3. ASSUME NEW p \in Pages, IssueCookie(p) PROVE SoleInv'
  <2>1. /\ page[p].at = "stored" /\ UNCHANGED <<BrowserOf, owner, holder, overlapped>>
        /\ Leaves(p, "dashboard") /\ SetCookie(p, Owner, PasskeyTtl)
    BY <1>3 DEF IssueCookie
  <2>2. LeftPage(p, "dashboard") \in PageType /\ PageMoves(p, LeftPage(p, "dashboard"))
          /\ LeftPage(p, "dashboard").at = "dashboard"
    BY <2>1, LeavesStep DEF Places, Ceremonies
  <2>3. page'[p].at = "dashboard" /\ \A q \in Pages : q # p => page'[q] = page[q]
    BY <2>2, PageStep
  <2>4. \A q \in Registering' : q \in Registering /\ page'[q] = page[q]
    BY <2>3 DEF Registering
  <2>5. \A b : Entitled(b)' <=> Entitled(b)
    BY <2>1 DEF Entitled, Contested
  <2>6. OwnAnswer' /\ RegistersTogether' /\ RegistersFirst'
    BY <2>1, <2>3, <2>4 DEF SoleInv, OwnAnswer, RegistersTogether, RegistersFirst
  <2>7. ReadIsOwner' /\ StoredIsOwner'
    BY <2>1, <2>3, <2>5 DEF SoleInv, ReadIsOwner, StoredIsOwner, Contested
  <2>8. CookieIsOwner'
    BY <2>1, <2>5 DEF SetCookie, SoleInv, StoredIsOwner, CookieIsOwner, TypeInv, TypeCookies
  <2> QED
    BY <2>6, <2>7, <2>8 DEF SoleInv
<1>4. ASSUME NEW p \in Pages, RegisterOptions(p) \/ LoginOptions(p) PROVE SoleInv'
  <2>1. PICK kind \in {"registration", "authentication"} : NewChallenge(p, kind)
    BY <1>4 DEF RegisterOptions, LoginOptions
  <2>2. UNCHANGED <<BrowserOf, owner, holder, overlapped, cookie>>
    BY <1>4 DEF RegisterOptions, LoginOptions
  <2>3. ChallengedPage(p, kind) \in PageType /\ PageMoves(p, ChallengedPage(p, kind))
    BY <2>1, ChallengeStep
  <2>4. ChallengedPage(p, kind).at = "prompt"
    BY DEF ChallengedPage, TypeInv, TypePages, PageType
  <2>5. HolderGrows
    BY <2>2 DEF HolderGrows
  <2> QED
    BY <2>2, <2>3, <2>4, <2>5, SoleFrame
<1>5. ASSUME NEW p \in Pages, CreateCredential(p) PROVE SoleInv'
  <2>1. /\ page[p].ch \notin DOMAIN holder /\ UNCHANGED <<BrowserOf, owner, overlapped, cookie>>
        /\ holder' = With(holder, page[p].ch, BrowserOf[p])
    BY <1>5 DEF CreateCredential, CeremonyInv, Unused
  <2>2. CreatedPage(p) \in PageType /\ PageMoves(p, CreatedPage(p))
    BY <1>5, CreateStep
  <2>3. CreatedPage(p).at = "verify" /\ CreatedPage(p).answer.cred = CreatedPage(p).ch
    BY DEF CreatedPage, TypeInv, TypePages, PageType
  <2>4. HolderGrows
    BY <2>1 DEF HolderGrows, With
  <2> QED
    BY <2>1, <2>2, <2>3, <2>4, SoleFrame
<1>6. ASSUME NEW p \in Pages, SignChallenge(p) PROVE SoleInv'
  <2>1. /\ UNCHANGED <<BrowserOf, owner, holder, overlapped, cookie>>
        /\ page[p].kind = "authentication"
    BY <1>6 DEF SignChallenge
  <2>2. SignedPage(p) \in PageType /\ PageMoves(p, SignedPage(p))
    BY <1>6, SignStep
  <2>3. SignedPage(p).at = "verify" /\ SignedPage(p).kind = page[p].kind
    BY DEF SignedPage, TypeInv, TypePages, PageType
  <2>4. HolderGrows
    BY <2>1 DEF HolderGrows
  <2> QED
    BY <2>1, <2>2, <2>3, <2>4, SoleFrame
<1>7. ASSUME NEW p \in Pages, VerifyOwner(p) PROVE SoleInv'
  <2>1. /\ UNCHANGED <<BrowserOf, owner, holder, cookie>> /\ page[p].at = "verify"
        /\ Overlaps(p) /\ HolderGrows
    BY <1>7 DEF VerifyOwner, HolderGrows
  <2>2. CASE /\ (page[p].kind = "registration") = (owner = NoOwner)
             /\ ReadPage(p) \in PageType /\ PageMoves(p, ReadPage(p))
    <3> DEFINE pg == ReadPage(p)
    <3>1. /\ pg.at = "read" /\ pg.rec = owner /\ pg.kind = page[p].kind /\ pg.ch = page[p].ch
          /\ pg.answer = page[p].answer
      BY DEF ReadPage, TypeInv, TypePages, PageType
    <3> HIDE DEF pg
    <3>2. page'[p] = pg /\ \A q \in Pages : q # p => page'[q] = page[q]
      BY <2>2, PageStep DEF pg
    <3>3. page[p].kind = "registration" <=> owner = NoOwner
      BY <2>2
    <3>4. /\ overlapped \subseteq overlapped'
          /\ page[p].kind = "registration" /\ Registering # {} =>
               \A q \in Registering \cup {p} : page[q].ch \in overlapped'
      BY <2>1, <3>1, <3>2 DEF Overlaps
    <3>5. \A b : Entitled(b) => Entitled(b)'
      BY <2>1, <3>4 DEF Entitled, Contested
    <3>6. OwnAnswer'
      BY <2>1, <3>1, <3>2 DEF SoleInv, OwnAnswer
    <3>7. \A q \in Pages : page'[q].ch = page[q].ch
      BY <3>1, <3>2
    <3>8. RegistersTogether' /\ RegistersFirst'
      <4>1. CASE page[p].kind = "registration"
        <5>1. \A q \in Registering' : q \in Registering \cup {p}
          BY <3>2 DEF Registering
        <5>2. RegistersFirst'
          BY <2>1, <3>3, <4>1 DEF RegistersFirst
        <5>3. RegistersTogether'
          BY <1>0, <3>4, <3>7, <4>1, <5>1 DEF RegistersTogether
        <5> QED
          BY <5>2, <5>3
      <4>2. CASE page[p].kind # "registration"
        <5>1. \A q \in Registering' : q \in Registering
          BY <3>1, <3>2, <4>2 DEF Registering
        <5> QED
          BY <1>0, <2>1, <3>4, <3>7, <5>1 DEF SoleInv, RegistersTogether, RegistersFirst
      <4> QED
        BY <4>1, <4>2
    <3>9. ReadIsOwner'
      BY <2>1, <3>1, <3>2, <3>3, <3>4 DEF SoleInv, ReadIsOwner, Contested
    <3>10. StoredIsOwner' /\ CookieIsOwner'
      BY <2>1, <3>1, <3>2, <3>5 DEF SoleInv, StoredIsOwner, CookieIsOwner
    <3> QED
      BY <3>6, <3>8, <3>9, <3>10 DEF SoleInv
  <2>3. CASE /\ LeftPage(p, page[p].kind) \in PageType /\ PageMoves(p, LeftPage(p, page[p].kind))
             /\ LeftPage(p, page[p].kind).at \notin Ceremonies
    <3>1. page'[p] = LeftPage(p, page[p].kind)
      BY <2>3, PageStep
    <3>2. overlapped' = overlapped
      BY <2>1, <2>3, <3>1 DEF Overlaps, Ceremonies
    <3> QED
      BY <2>1, <2>3, <3>2, SoleFrame DEF Ceremonies
  <2> QED
    BY <1>7, <2>2, <2>3, VerifyStep
<1>8. ASSUME NEW p \in Pages, TakeChallenge(p) PROVE SoleInv'
  <2>1. /\ UNCHANGED <<BrowserOf, owner, holder, overlapped, cookie>> /\ page[p].at = "read"
        /\ HolderGrows
    BY <1>8 DEF TakeChallenge, HolderGrows
  <2>2. CASE Goes(p, "verified")
    <3> DEFINE pg == [page[p] EXCEPT !.at = "verified"]
    <3>1. pg \in PageType /\ PageMoves(p, pg)
      BY <2>2, GoesStep DEF Places, Ceremonies
    <3>2. /\ pg.at = "verified" /\ pg.kind = page[p].kind /\ pg.rec = page[p].rec
          /\ pg.ch = page[p].ch /\ pg.answer = page[p].answer
      BY DEF TypeInv, TypePages, PageType
    <3> HIDE DEF pg
    <3>3. page'[p] = pg /\ \A q \in Pages : q # p => page'[q] = page[q]
      BY <3>1, PageStep
    <3>4. \A q \in Pages : page'[q].ch = page[q].ch /\ (q \in Registering' => q \in Registering)
      BY <2>1, <3>2, <3>3 DEF Registering
    <3>5. RegistersTogether' /\ RegistersFirst'
      BY <1>0, <2>1, <3>4 DEF SoleInv, RegistersTogether, RegistersFirst
    <3>6. OwnAnswer' /\ ReadIsOwner'
      BY <2>1, <3>2, <3>3 DEF SoleInv, OwnAnswer, ReadIsOwner, Contested
    <3>7. StoredIsOwner' /\ CookieIsOwner'
      BY <2>1, <3>2, <3>3 DEF SoleInv, StoredIsOwner, CookieIsOwner, Entitled, Contested
    <3> QED
      BY <3>5, <3>6, <3>7 DEF SoleInv
  <2>3. CASE Leaves(p, page[p].kind)
    <3>1. page[p].kind \in Places \ Ceremonies
      BY <2>1, KindIsPlace DEF Ceremonies
    <3>2. /\ LeftPage(p, page[p].kind) \in PageType /\ PageMoves(p, LeftPage(p, page[p].kind))
          /\ LeftPage(p, page[p].kind).at = page[p].kind
      BY <2>3, <3>1, LeavesStep
    <3> QED
      BY <2>1, <3>1, <3>2, SoleFrame DEF Ceremonies
  <2> QED
    BY <1>8, <2>2, <2>3 DEF TakeChallenge
<1>9. ASSUME NEW p \in Pages, StoreOwner(p) PROVE SoleInv'
  <2>1. /\ UNCHANGED <<BrowserOf, holder, overlapped, cookie>> /\ page[p].at = "verified"
        /\ Goes(p, "stored") /\ HolderGrows
    BY <1>9 DEF StoreOwner, HolderGrows
  <2> DEFINE pg == [page[p] EXCEPT !.at = "stored"]
  <2>2. pg \in PageType /\ PageMoves(p, pg) /\ pg.at = "stored" /\ pg.ch = page[p].ch
    BY <2>1, GoesStep, QuietPage DEF Places, Ceremonies
  <2> HIDE DEF pg
  <2>3. /\ page'[p].at = "stored" /\ page'[p].ch = page[p].ch
        /\ \A q \in Pages : q # p => page'[q] = page[q]
    BY <2>2, PageStep
  <2>4. /\ owner' # NoOwner /\ owner'.cred \in DOMAIN holder
        /\ holder[owner'.cred] = BrowserOf[p]
        /\ owner # NoOwner => Contested(owner.cred, owner'.cred)
        /\ page[p].kind = "registration" => owner'.cred = page[p].ch
    BY <1>9, StoresContested
  <2>5. \A b : Entitled(b) => Entitled(b)'
    BY <2>1, <2>4, EntitledStep
  <2>6. \A q \in Registering' : q \in Registering /\ q # p /\ page'[q] = page[q]
    BY <2>3 DEF Registering
  <2>7. OwnAnswer'
    BY <2>3 DEF SoleInv, OwnAnswer
  <2>8. RegistersTogether'
    BY <2>1, <2>6 DEF SoleInv, RegistersTogether
  <2>9. RegistersFirst'
    <3> SUFFICES ASSUME NEW q \in Registering'
                 PROVE  owner'.cred \in overlapped /\ page[q].ch \in overlapped
      BY <2>1, <2>6 DEF RegistersFirst
    <3>1. q \in Registering /\ q # p
      BY <2>6
    <3>2. CASE page[p].kind = "registration"
      <4>1. p \in Registering
        BY <2>1, <3>2 DEF Registering
      <4> QED
        BY <2>4, <3>1, <3>2, <4>1 DEF SoleInv, RegistersTogether
    <3>3. CASE page[p].kind # "registration"
      <4>1. owner # NoOwner
        BY <2>1, <3>3 DEF SoleInv, ReadIsOwner
      <4>2. owner.cred \in overlapped /\ page[q].ch \in overlapped
        BY <3>1, <4>1 DEF SoleInv, RegistersFirst
      <4> QED
        BY <2>4, <4>1, <4>2 DEF Contested
    <3> QED
      BY <3>2, <3>3
  <2>10. ReadIsOwner'
    BY <2>1, <2>3, <2>4 DEF SoleInv, ReadIsOwner, Contested
  <2>11. StoredIsOwner'
    <3>1. Entitled(BrowserOf[p])'
      BY <2>1, <2>4 DEF Entitled, Contested
    <3> QED
      BY <2>1, <2>3, <2>5, <3>1 DEF SoleInv, StoredIsOwner
  <2>12. CookieIsOwner'
    BY <2>1, <2>5 DEF SoleInv, CookieIsOwner
  <2> QED
    BY <2>7, <2>8, <2>9, <2>10, <2>11, <2>12 DEF SoleInv
<1> QED
  BY <1>1, <1>2, <1>3, <1>4, <1>5, <1>6, <1>7, <1>8, <1>9 DEF Next, Quiet, Outside

LEMMA SoleAlways == Spec => [](TypeInv /\ CeremonyInv /\ SoleInv)
<1>1. Init => TypeInv /\ CeremonyInv /\ SoleInv
  BY InitType, InitCeremony, InitSole
<1>2. (TypeInv /\ CeremonyInv /\ SoleInv) /\ [Next]_vars => (TypeInv /\ CeremonyInv /\ SoleInv)'
  BY TypeStep, CeremonyStep, SoleStep
<1> QED
  BY <1>1, <1>2, PTL DEF Spec

(* Whatever register/verify and login/verify requests overlap, a browser     *)
(* that was let in as the owner holds the passkey that is stored, except     *)
(* that of registrations which overlapped the last to write wins: of all the *)
(* pages that were given registration options, the first to be verified is   *)
(* the owner for good, and no login that overlaps with others replaces it.   *)
THEOREM OneOwner == Spec => []SoleOwner
BY SoleAlways, SoleInvImplies, PTL

-----------------------------------------------------------------------------
(* Demo users.  A cookie of a demo user ends a lifetime after the login, and *)
(* a list a lifetime after it was put; no two browsers are the same user.    *)

Born == DOMAIN born \subseteq 1 .. used /\ \A u \in DOMAIN born : born[u] \in Nat
CookiesEnd ==
  \A b \in Browsers : cookie[b].sub \in Ids =>
    cookie[b].sub \in DOMAIN born /\ cookie[b].exp = born[cookie[b].sub] + DemoTtl
CookiesDiffer ==
  \A b, c \in Browsers : cookie[b].sub \in Ids /\ cookie[b].sub = cookie[c].sub => b = c
ListsEnd ==
  \A u \in DOMAIN lists :
    /\ lists[u].exp \in Nat /\ lists[u].exp > now
    /\ IF u = Owner THEN lists[u].exp = Never
       ELSE /\ u \in DOMAIN born /\ lists[u].put \in Nat
            /\ lists[u].exp = lists[u].put + DemoTtl /\ lists[u].put <= born[u] + DemoTtl
SavesInTime ==
  \A r \in DOMAIN save : save[r].sub \in Ids =>
    save[r].sub \in DOMAIN born /\ now <= born[save[r].sub] + DemoTtl

DemoInv == Born /\ CookiesEnd /\ CookiesDiffer /\ ListsEnd /\ SavesInTime

(* No save is of a user of whom there was none before. *)
SavesOfSame == \A r \in DOMAIN save' : r \in DOMAIN save /\ save'[r].sub = save[r].sub

LEMMA AnewOfSame ==
  ASSUME TypeInv, NEW p \in Pages, LoadedAnew(p) PROVE SavesOfSame
<1> SUFFICES ASSUME NEW q \in DOMAIN save'
             PROVE  q \in DOMAIN save /\ save'[q].sub = save[q].sub
  BY DEF SavesOfSame
<1>1. /\ q \in DOMAIN save
      /\ save'[q] = IF save[q].page = p THEN [save[q] EXCEPT !.waiting = FALSE] ELSE save[q]
  BY AnewStep
<1>2. save[q] \in SaveType
  BY <1>1 DEF TypeInv, TypeSaves
<1>3. [save[q] EXCEPT !.waiting = FALSE].sub = save[q].sub
  BY <1>2 DEF SaveType
<1> QED
  BY <1>1, <1>3

LEMMA NeverIsLate == Never \in Nat /\ Never > MaxTime
BY ParameterTypes DEF Never

LEMMA InitDemo == Init => DemoInv
BY ParameterTypes
   DEF Init, DemoInv, Born, CookiesEnd, CookiesDiffer, ListsEnd, SavesInTime, NoCookie, Ids

LEMMA DemoFrame ==
  ASSUME DemoInv, UNCHANGED <<now, born, lists, cookie>>, SavesOfSame, used \in Nat, used' \in Nat,
         used <= used'
  PROVE  DemoInv'
<1>1. Born' /\ CookiesEnd' /\ CookiesDiffer' /\ ListsEnd'
  BY DEF DemoInv, Born, CookiesEnd, CookiesDiffer, ListsEnd
<1>2. SavesInTime'
  BY DEF DemoInv, SavesInTime, SavesOfSame
<1> QED
  BY <1>1, <1>2 DEF DemoInv

LEMMA DemoStep == TypeInv /\ DemoInv /\ [Next]_vars => DemoInv'
<1> SUFFICES ASSUME TypeInv, DemoInv, [Next]_vars PROVE DemoInv'
  OBVIOUS
<1> USE ParameterTypes DEF fixed, kv, saving
<1>0. used \in Nat /\ now \in Nat /\ cookie \in [Browsers -> [sub : 0 .. MaxIds + 1, exp : Nat]]
  BY DEF TypeInv, TypeFixed, TypeCookies
<1>1. CASE Tick
  <2>1. /\ UNCHANGED <<used, born, cookie, save>> /\ save = <<>>
        /\ lists' = Unexpired(lists, now') /\ now' = now + 1
    BY <1>1 DEF Tick
  <2>2. \A u \in DOMAIN lists' : u \in DOMAIN lists /\ lists'[u] = lists[u] /\ lists[u].exp > now'
    BY <2>1 DEF Unexpired, Restrict
  <2>3. ListsEnd'
    BY <1>0, <2>1, <2>2 DEF DemoInv, ListsEnd
  <2> QED
    BY <2>1, <2>3 DEF DemoInv, Born, CookiesEnd, CookiesDiffer, SavesInTime
<1>2. ASSUME NEW p \in Pages, LoginDemo(p) PROVE DemoInv'
  <2> DEFINE b == BrowserOf[p]
             u == used + 1
  <2>1. /\ used' = u /\ u \in Ids /\ cookie' = [cookie EXCEPT ![b] = [sub |-> u, exp |-> now + DemoTtl]]
        /\ born' = With(born, u, now) /\ UNCHANGED <<now, lists, save>>
    BY <1>0, <1>2 DEF LoginDemo, SetCookie, Ids
  <2>2. b \in Browsers
    BY BrowserType
  <2> HIDE DEF b
  <2>3. DOMAIN born \subseteq 1 .. used /\ u \notin DOMAIN born
    BY <1>0 DEF DemoInv, Born
  <2>4. /\ DOMAIN born' = DOMAIN born \cup {u} /\ born'[u] = now
        /\ \A v \in DOMAIN born : born'[v] = born[v]
    BY <2>1, <2>3 DEF With
  <2>5. /\ cookie'[b].sub = u /\ cookie'[b].exp = now + DemoTtl
        /\ \A c \in Browsers : c # b => cookie'[c] = cookie[c]
    BY <1>0, <2>1, <2>2
  <2>6. Born'
    BY <1>0, <2>1, <2>3, <2>4 DEF DemoInv, Born
  <2>7. CookiesEnd'
    BY <1>0, <2>4, <2>5 DEF DemoInv, CookiesEnd
  <2>8. CookiesDiffer'
    <3>1. \A c \in Browsers : cookie[c].sub \in Ids => cookie[c].sub # u
      BY <2>3 DEF DemoInv, CookiesEnd
    <3> QED
      BY <2>1, <2>5, <3>1 DEF DemoInv, CookiesDiffer
  <2>9. ListsEnd'
    BY <2>1, <2>4 DEF DemoInv, ListsEnd
  <2>10. SavesInTime'
    BY <2>1, <2>4 DEF DemoInv, SavesInTime
  <2> QED
    BY <2>6, <2>7, <2>8, <2>9, <2>10 DEF DemoInv
<1>3. ASSUME NEW p \in Pages, NEW k, k.sub \notin Ids, cookie' = [cookie EXCEPT ![BrowserOf[p]] = k],
             UNCHANGED <<now, born, lists, used>>, SavesOfSame
      PROVE  DemoInv'
  <2>1. \A c \in Browsers : cookie'[c] = cookie[c] \/ cookie'[c] = k
    BY <1>0, <1>3
  <2>2. Born' /\ CookiesEnd' /\ CookiesDiffer' /\ ListsEnd'
    BY <1>3, <2>1 DEF DemoInv, Born, CookiesEnd, CookiesDiffer, ListsEnd
  <2>3. SavesInTime'
    BY <1>3 DEF DemoInv, SavesInTime, SavesOfSame
  <2> QED
    BY <2>2, <2>3 DEF DemoInv
<1>4. ASSUME NEW p \in Pages, IssueCookie(p) PROVE DemoInv'
  <2> DEFINE k == [sub |-> Owner, exp |-> now + PasskeyTtl]
  <2>1. k.sub \notin Ids
    BY DEF Owner, Ids
  <2> QED
    BY <1>3, <1>4, <2>1 DEF IssueCookie, SetCookie, SavesOfSame
<1>5. ASSUME NEW p \in Pages, Logout(p) PROVE DemoInv'
  <2>1. NoCookie.sub \notin Ids
    BY DEF NoCookie, Ids
  <2>2. SavesOfSame
    BY <1>5, AnewOfSame DEF Logout
  <2> QED
    BY <1>3, <1>5, <2>1, <2>2 DEF Logout
<1>6. ASSUME NEW p \in Pages, NEW list \in SUBSET Items, NEW item \in Items, NEW adds \in BOOLEAN,
             Send(p, list, item, adds), UNCHANGED <<now, used, born, lists, cookie>>
      PROVE  DemoInv'
  <2>1. PICK r \in Saves \ DOMAIN save :
          /\ DOMAIN save' = DOMAIN save \cup {r} /\ save'[r] = Request(p, list, item, adds)
          /\ \A q \in DOMAIN save : save'[q] = save[q]
    <3>1. Sent(Request(p, list, item, adds))
      BY <1>6, SendStep
    <3> QED
      BY <3>1 DEF Sent
  <2>2. BrowserOf[p] \in Browsers
    BY BrowserType
  <2>3. save'[r].sub = Sender(p)
    BY <2>1 DEF Request
  <2>4. Sender(p) \in Ids => Sender(p) \in DOMAIN born /\ now <= born[Sender(p)] + DemoTtl
    <3> SUFFICES ASSUME Sender(p) \in Ids
                 PROVE  Sender(p) \in DOMAIN born /\ now <= born[Sender(p)] + DemoTtl
      OBVIOUS
    <3>1. Authorized(p) /\ Sender(p) = CookieOf(p).sub
      BY SenderType DEF Subs
    <3> QED
      BY <2>2, <3>1 DEF Authorized, CookieOf, DemoInv, CookiesEnd
  <2>5. SavesInTime'
    BY <1>6, <2>1, <2>3, <2>4 DEF DemoInv, SavesInTime
  <2>6. Born' /\ CookiesEnd' /\ CookiesDiffer' /\ ListsEnd'
    BY <1>6 DEF DemoInv, Born, CookiesEnd, CookiesDiffer, ListsEnd
  <2> QED
    BY <2>5, <2>6 DEF DemoInv
<1>7. ASSUME NEW p \in Pages, NEW s \in Servers, AddServer(p, s) PROVE DemoInv'
  <2> DEFINE item == AddedItem(p, s)
             list == page[p].cache \cup {item}
  <2>1. /\ item \in Items /\ list \in SUBSET Items /\ Send(p, list, item, TRUE)
        /\ UNCHANGED <<now, used, born, lists, cookie>>
    BY <1>7, AddStep
  <2> HIDE DEF item, list
  <2> QED
    BY <1>6, <2>1
<1>8. ASSUME NEW p \in Pages, NEW item \in page[p].cache, RemoveServer(p, item) PROVE DemoInv'
  <2>1. /\ item \in Items /\ page[p].cache \ {item} \in SUBSET Items
        /\ Send(p, page[p].cache \ {item}, item, FALSE)
        /\ UNCHANGED <<now, used, born, lists, cookie>>
    BY <1>8, RemoveStep
  <2> QED
    BY <1>6, <2>1
<1>9. ASSUME NEW r \in Saves, PutServers(r) PROVE DemoInv'
  <2> DEFINE u == save[r].sub
  <2>1. /\ r \in DOMAIN save /\ UNCHANGED <<now, used, born, cookie>>
        /\ DOMAIN save' \subseteq DOMAIN save
        /\ \A q \in DOMAIN save : q # r /\ q \in DOMAIN save' => save'[q] = save[q]
    BY <1>9, PutStep
  <2>2. CASE DOMAIN save' = DOMAIN save \ {r} /\ UNCHANGED lists
    <3>1. SavesOfSame
      BY <2>1, <2>2 DEF SavesOfSame
    <3> QED
      BY <1>0, <2>1, <2>2, <3>1, DemoFrame
  <2>3. CASE /\ u \in Subs
             /\ DOMAIN lists' = DOMAIN lists \cup {u} /\ lists'[u] = PutListOf(r)
             /\ \A v \in DOMAIN lists : v # u => lists'[v] = lists[v]
             /\ save'[r] = [save[r] EXCEPT !.at = "put"]
    <3>1. save'[r].sub = save[r].sub
      BY <2>1, <2>3 DEF TypeInv, TypeSaves, SaveType
    <3>2. SavesOfSame
      BY <2>1, <3>1 DEF SavesOfSame
    <3>3. u # Owner => u \in DOMAIN born /\ now <= born[u] + DemoTtl
      BY <2>1, <2>3 DEF Subs, DemoInv, SavesInTime
    <3>4. /\ lists'[u].exp = IF u = Owner THEN Never ELSE now + DemoTtl
          /\ lists'[u].put = now
      BY <2>3 DEF PutListOf, ListExpires
    <3> HIDE DEF u
    <3>5. /\ lists'[u].exp \in Nat /\ lists'[u].exp > now
      BY <1>0, <3>4, NeverIsLate DEF TypeInv, TypeFixed
    <3>6. ListsEnd'
      BY <1>0, <2>1, <2>3, <3>3, <3>4, <3>5 DEF DemoInv, ListsEnd
    <3>7. Born' /\ CookiesEnd' /\ CookiesDiffer' /\ SavesInTime'
      BY <2>1, <3>2 DEF DemoInv, Born, CookiesEnd, CookiesDiffer, SavesInTime, SavesOfSame
    <3> QED
      BY <3>6, <3>7 DEF DemoInv
  <2> QED
    BY <1>9, <2>2, <2>3, PutStep
<1>10. ASSUME NEW r \in Saves, ServersSaved(r) PROVE DemoInv'
  <2>1. UNCHANGED <<now, used, born, lists, cookie>>
    BY <1>10, SavedStep
  <2>2. SavesOfSame
    <3> SUFFICES ASSUME NEW q \in DOMAIN save'
                 PROVE  q \in DOMAIN save /\ save'[q].sub = save[q].sub
      BY DEF SavesOfSame
    <3>1. /\ q \in DOMAIN save
          /\ save'[q] = IF Replaces(r) /\ save[q].page = save[r].page
                        THEN [save[q] EXCEPT !.cached = FALSE] ELSE save[q]
      BY <1>10, SavedStep
    <3>2. save[q] \in SaveType
      BY <3>1 DEF TypeInv, TypeSaves
    <3>3. [save[q] EXCEPT !.cached = FALSE].sub = save[q].sub
      BY <3>2 DEF SaveType
    <3> QED
      BY <3>1, <3>3
  <2> QED
    BY <1>0, <2>1, <2>2, DemoFrame
<1>11. ASSUME NEW p \in Pages, Reload(p) PROVE DemoInv'
  <2>1. UNCHANGED <<now, used, born, lists, cookie>>
    BY <1>11 DEF Reload
  <2>2. SavesOfSame
    BY <1>11, AnewOfSame DEF Reload
  <2> QED
    BY <1>0, <2>1, <2>2, DemoFrame
<1>12. ASSUME NEW p \in Pages,
             \/ InitApp(p) \/ CancelPrompt(p) \/ LoadServers(p) \/ CreateCredential(p)
             \/ SignChallenge(p) \/ VerifyOwner(p) \/ TakeChallenge(p) \/ StoreOwner(p)
      PROVE  DemoInv'
  <2>1. UNCHANGED <<now, born, lists, cookie, used, save>>
    BY <1>12 DEF InitApp, CancelPrompt, LoadServers, CreateCredential, SignChallenge,
                 VerifyOwner, TakeChallenge, StoreOwner
  <2> QED
    BY <1>0, <2>1, DemoFrame DEF SavesOfSame
<1>13. ASSUME NEW p \in Pages, RegisterOptions(p) \/ LoginOptions(p) PROVE DemoInv'
  <2>1. UNCHANGED <<now, born, lists, cookie, save>> /\ used' = used + 1
    BY <1>13 DEF RegisterOptions, LoginOptions, NewChallenge
  <2> QED
    BY <1>0, <2>1, DemoFrame DEF SavesOfSame
<1>14. CASE UNCHANGED vars
  BY <1>0, <1>14, DemoFrame DEF vars, SavesOfSame
<1> QED
  BY <1>1, <1>2, <1>4, <1>5, <1>7, <1>8, <1>9, <1>10, <1>11, <1>12, <1>13, <1>14 DEF Next

-----------------------------------------------------------------------------
(* The lists.  Only an open page has loaded one.  With one page in each      *)
(* browser everything belongs to the user whose cookie it was saved with,    *)
(* and for a user whose saves are orderly, the page and the list that is     *)
(* stored differ by the one save that is under way.                          *)

Located == \A p \in Pages : (page[p].at = "open") <=> (page[p].loaded # "no")
WaitsOpen == \A r \in DOMAIN save : save[r].waiting => page[save[r].page].at = "open"

SentBy == \A r \in DOMAIN save : save[r].waiting => save[r].sub = Sender(save[r].page)
OwnStored == \A u \in DOMAIN lists : \A item \in Stored(u) : item.by = u
OwnSaved ==
  \A r \in DOMAIN save : save[r].sub \in Subs =>
    \A item \in save[r].list \cup {save[r].item} : item.by = save[r].sub
OwnCached ==
  \A p \in Pages : page[p].at = "open" /\ Authorized(p) =>
    \A item \in page[p].cache : item.by = CookieOf(p).sub

OneSave ==
  \A r \in DOMAIN save : Orderly(save[r].sub) =>
    save[r].waiting /\ \A q \in DOMAIN save : save[q].sub = save[r].sub => q = r

Listed(u) == u \in DOMAIN lists \cup {Owner}
InStep(r) ==
  Orderly(save[r].sub) /\ save[r].sub \in Subs =>
    /\ save[r].cached = save[r].adds
    /\ save[r].adds => page[save[r].page].cache = save[r].list
    /\ save[r].at = "sent" /\ Listed(save[r].sub) =>
         ChangesOne(r) /\ (~save[r].adds => page[save[r].page].cache = Stored(save[r].sub))
    /\ save[r].at = "put" => Stored(save[r].sub) = save[r].list
Settled(p) ==
  /\ page[p].at = "open" /\ page[p].loaded = "yes" /\ Authorized(p)
  /\ Orderly(CookieOf(p).sub) /\ Listed(CookieOf(p).sub)
  /\ \A r \in DOMAIN save : save[r].sub # CookieOf(p).sub
  => page[p].cache = Stored(CookieOf(p).sub)

UserInv ==
  /\ SentBy /\ OwnStored /\ OwnSaved /\ OwnCached /\ OneSave
  /\ \A r \in DOMAIN save : InStep(r)
  /\ \A p \in Pages : Settled(p)

ListInv == Located /\ WaitsOpen /\ (OnePageEach => UserInv)

LEMMA InitList == Init => ListInv
<1> SUFFICES ASSUME Init PROVE ListInv
  OBVIOUS
<1>1. \A p \in Pages : page[p].at = "start" /\ page[p].loaded = "no"
  BY DEF Init, FreshPage
<1>2. save = <<>> /\ lists = <<>>
  BY DEF Init
<1> QED
  BY <1>1, <1>2 DEF ListInv, Located, WaitsOpen, UserInv, SentBy, OwnStored, OwnSaved, OwnCached,
                    OneSave, Settled

(* What was said of a user's saves is not taken back. *)
LEMMA OrderlyStep ==
  ASSUME spoiled \subseteq spoiled', overlapped \subseteq overlapped', NEW u, Orderly(u)'
  PROVE  Orderly(u)
BY DEF Orderly

LEMMA AuthorizedUser ==
  ASSUME TypeInv, NEW p \in Pages, Authorized(p) PROVE CookieOf(p).sub \in Subs
BY SenderType

(* Two pages in different browsers are not let in as the same user. *)
LEMMA DifferentUsers ==
  ASSUME TypeInv, SoleInv, DemoInv, OnePageEach, NEW p \in Pages, NEW q \in Pages,
         Authorized(p), Authorized(q), CookieOf(p).sub = CookieOf(q).sub, Orderly(CookieOf(p).sub)
  PROVE  p = q
<1> DEFINE b == BrowserOf[p]
           c == BrowserOf[q]
<1>1. b \in Browsers /\ c \in Browsers
  BY BrowserType
<1>2. cookie[b].sub \in Subs /\ cookie[b].sub = cookie[c].sub
  BY AuthorizedUser DEF CookieOf
<1>3. cookie[b].sub = Owner => overlapped = {}
  BY DEF Orderly, CookieOf
<1> HIDE DEF b, c
<1>4. b = c
  <2>1. CASE cookie[b].sub = Owner
    <3>1. SoleOwner /\ overlapped = {}
      BY <1>3, <2>1, SoleInvImplies
    <3> QED
      BY <1>1, <1>2, <2>1, <3>1 DEF SoleOwner
  <2>2. CASE cookie[b].sub \in Ids
    BY <1>1, <1>2, <2>2 DEF DemoInv, CookiesDiffer
  <2> QED
    BY <1>2, <2>1, <2>2 DEF Subs
<1> QED
  BY <1>4 DEF b, c, OnePageEach

(* The save of an orderly user is that of the page where the user is let in. *)
LEMMA OneSender ==
  ASSUME TypeInv, SoleInv, DemoInv, OnePageEach, UserInv, NEW r \in DOMAIN save, NEW p \in Pages,
         Authorized(p), CookieOf(p).sub = save[r].sub, Orderly(save[r].sub)
  PROVE  p = save[r].page /\ save[r].waiting
<1>1. save[r].waiting /\ save[r].sub = Sender(save[r].page) /\ save[r].page \in Pages
  BY DEF UserInv, OneSave, SentBy, TypeInv, TypeSaves, SaveType
<1>2. save[r].sub \in Subs
  BY AuthorizedUser
<1>3. Authorized(save[r].page) /\ CookieOf(save[r].page).sub = save[r].sub
  BY <1>1, <1>2, SenderType
<1> QED
  BY <1>1, <1>3, DifferentUsers

LEMMA CookieFrame ==
  ASSUME NEW p, UNCHANGED <<BrowserOf, now>>, cookie'[BrowserOf[p]] = cookie[BrowserOf[p]]
  PROVE  CookieOf(p)' = CookieOf(p) /\ (Authorized(p)' <=> Authorized(p)) /\ Sender(p)' = Sender(p)
<1>1. CookieOf(p)' = CookieOf(p)
  BY DEF CookieOf
<1>2. Authorized(p)' <=> Authorized(p)
  BY <1>1 DEF Authorized
<1> QED
  BY <1>1, <1>2 DEF Sender

(* The saves of a page that is loaded anew wait no more, and were not orderly. *)
AwaySaves(p) ==
  /\ spoiled \subseteq spoiled' /\ DOMAIN save' = DOMAIN save
  /\ \A r \in DOMAIN save :
       \/ save'[r] = save[r] /\ (save[r].page = p => page[p].at # "open")
       \/ /\ save[r].page = p /\ save[r].sub \in spoiled'
          /\ save'[r] = [save[r] EXCEPT !.waiting = FALSE]

(* A page that moves but is not open, while the lists stay as they are.      *)
(* The cookies of the other browsers stay too.                               *)
LEMMA ListFrame ==
  ASSUME TypeInv, ListInv, NEW p \in Pages, NEW pg \in PageType, PageMoves(p, pg),
         pg.at # "open", pg.loaded = "no", UNCHANGED <<BrowserOf, now, lists>>,
         overlapped \subseteq overlapped', AwaySaves(p),
         \A b \in Browsers : b # BrowserOf[p] => cookie'[b] = cookie[b]
  PROVE  ListInv'
<1>1. page'[p] = pg /\ \A q \in Pages : q # p => page'[q] = page[q]
  BY PageStep
<1>2. Located'
  BY <1>1 DEF ListInv, Located
<1>3. /\ DOMAIN save' = DOMAIN save
      /\ \A r \in DOMAIN save :
           /\ save'[r].page = save[r].page /\ save'[r].sub = save[r].sub /\ save'[r].at = save[r].at
           /\ save'[r].list = save[r].list /\ save'[r].item = save[r].item
           /\ save'[r].adds = save[r].adds /\ save'[r].cached = save[r].cached
           /\ save[r].page \in Pages
  BY DEF AwaySaves, TypeInv, TypeSaves, SaveType
<1>4. ASSUME NEW r \in DOMAIN save, save'[r].waiting PROVE save[r].waiting /\ save[r].page # p
  BY <1>4 DEF AwaySaves, ListInv, WaitsOpen, TypeInv, TypeSaves, SaveType
<1>5. WaitsOpen'
  BY <1>1, <1>3, <1>4 DEF ListInv, WaitsOpen
<1>6. ASSUME OnePageEach PROVE UserInv'
  <2>1. UserInv
    BY <1>6 DEF ListInv
  <2>2. \A u : Orderly(u)' => Orderly(u)
    BY OrderlyStep DEF AwaySaves
  <2>3. ASSUME NEW q \in Pages, q # p
        PROVE  /\ CookieOf(q)' = CookieOf(q) /\ (Authorized(q)' <=> Authorized(q))
               /\ Sender(q)' = Sender(q)
    <3>1. BrowserOf[q] \in Browsers /\ BrowserOf[q] # BrowserOf[p]
      BY <1>6, <2>3, BrowserType DEF OnePageEach
    <3> QED
      BY <3>1, CookieFrame
  <2>4. \A u : Stored(u)' = Stored(u) /\ (Listed(u)' <=> Listed(u))
    BY DEF Stored, Listed
  <2>5. SentBy'
    BY <1>3, <1>4, <2>1, <2>3 DEF UserInv, SentBy
  <2>6. OwnStored'
    BY <2>1, <2>4 DEF UserInv, OwnStored
  <2>7. OwnSaved'
    BY <1>3, <2>1 DEF UserInv, OwnSaved
  <2>8. OwnCached'
    BY <1>1, <2>1, <2>3 DEF UserInv, OwnCached
  <2>9. ASSUME NEW r \in DOMAIN save, NEW v, v = save[r].sub, Orderly(v)' PROVE save'[r].waiting
    <3>1. save[r].waiting
      BY <2>1, <2>2, <2>9 DEF UserInv, OneSave
    <3>2. v \notin spoiled'
      BY <2>9 DEF Orderly
    <3> QED
      BY <2>9, <3>1, <3>2 DEF AwaySaves, ListInv, WaitsOpen
  <2>10. OneSave'
    <3> SUFFICES ASSUME NEW r \in DOMAIN save', NEW v, v = save'[r].sub, Orderly(v)'
                 PROVE  /\ save'[r].waiting
                        /\ \A q \in DOMAIN save' : save'[q].sub = v => q = r
      BY DEF OneSave
    <3>1. r \in DOMAIN save /\ v = save[r].sub /\ Orderly(v)
      BY <1>3, <2>2
    <3> QED
      BY <1>3, <2>1, <2>9, <3>1 DEF UserInv, OneSave
  <2>11. ASSUME NEW r \in DOMAIN save PROVE InStep(r)'
    <3> SUFFICES ASSUME NEW v, v = save[r].sub, Orderly(v)', v \in Subs
                 PROVE  InStep(r)'
      BY <1>3 DEF InStep
    <3>1. save[r].page # p
      BY <1>4, <2>9
    <3>2. page'[save[r].page] = page[save[r].page]
      BY <1>1, <1>3, <3>1
    <3>3. InStep(r) /\ Orderly(save[r].sub)
      BY <2>1, <2>2 DEF UserInv
    <3>4. ChangesOne(r)' <=> ChangesOne(r)
      BY <1>3, <2>4 DEF ChangesOne
    <3> QED
      BY <1>3, <2>4, <3>2, <3>3, <3>4 DEF InStep
  <2>12. ASSUME NEW q \in Pages PROVE Settled(q)'
    <3>1. CASE q = p
      BY <1>1, <3>1 DEF Settled
    <3>2. CASE q # p
      <4>1. Settled(q) /\ page'[q] = page[q] /\ CookieOf(q)' = CookieOf(q)
              /\ (Authorized(q)' <=> Authorized(q))
        BY <1>1, <2>1, <2>3, <3>2 DEF UserInv
      <4>2. Orderly(CookieOf(q).sub)' => Orderly(CookieOf(q).sub)
        BY <4>1, OrderlyStep DEF AwaySaves, Orderly
      <4> QED
        BY <1>3, <2>4, <4>1, <4>2 DEF Settled, Orderly
    <3> QED
      BY <3>1, <3>2
  <2> QED
    BY <1>3, <2>5, <2>6, <2>7, <2>8, <2>10, <2>11, <2>12 DEF UserInv
<1> QED
  BY <1>2, <1>5, <1>6 DEF ListInv, OnePageEach

(* The actions that leave a page outside of the list. *)
Away(p) ==
  \/ InitApp(p) \/ RegisterOptions(p) \/ LoginOptions(p) \/ CreateCredential(p) \/ SignChallenge(p)
  \/ CancelPrompt(p) \/ VerifyOwner(p) \/ TakeChallenge(p) \/ StoreOwner(p) \/ IssueCookie(p)
  \/ LoginDemo(p) \/ Logout(p) \/ Reload(p)

LEMMA AwayStep ==
  ASSUME TypeInv, Located, NEW p \in Pages, Away(p)
  PROVE  /\ UNCHANGED <<BrowserOf, now, lists>> /\ overlapped \subseteq overlapped'
         /\ \A b \in Browsers : b # BrowserOf[p] => cookie'[b] = cookie[b]
         /\ AwaySaves(p)
         /\ \E pg \in PageType : PageMoves(p, pg) /\ pg.at # "open" /\ pg.loaded = "no"
<1> USE DEF fixed, kv, saving
<1> DEFINE Moved == \E pg \in PageType : PageMoves(p, pg) /\ pg.at # "open" /\ pg.loaded = "no"
<1>1. UNCHANGED <<BrowserOf, now, lists>> /\ overlapped \subseteq overlapped'
  BY DEF Away, InitApp, RegisterOptions, LoginOptions, CreateCredential, SignChallenge, CancelPrompt,
         VerifyOwner, Overlaps, TakeChallenge, StoreOwner, IssueCookie, LoginDemo, Logout, Reload
<1>2. \A b \in Browsers : b # BrowserOf[p] => cookie'[b] = cookie[b]
  <2>1. cookie' = cookie \/ \E k : cookie' = [cookie EXCEPT ![BrowserOf[p]] = k]
    BY DEF Away, InitApp, RegisterOptions, LoginOptions, CreateCredential, SignChallenge, CancelPrompt,
           VerifyOwner, TakeChallenge, StoreOwner, IssueCookie, LoginDemo, Logout, Reload, SetCookie
  <2> QED
    BY <2>1 DEF TypeInv, TypeCookies
<1>15. AwaySaves(p)
  <2>1. CASE LoadedAnew(p)
    BY <2>1, AnewStep DEF AwaySaves
  <2>2. CASE UNCHANGED <<save, spoiled>> /\ page[p].at # "open"
    BY <2>2 DEF AwaySaves
  <2>3. page[p].kind # "open" /\ (page[p].at \in Ceremonies => page[p].at # "open")
    BY DEF TypeInv, TypePages, PageType, Ceremonies
  <2> QED
    BY <2>1, <2>2, <2>3
       DEF Away, InitApp, RegisterOptions, LoginOptions, CreateCredential, SignChallenge, CancelPrompt,
           VerifyOwner, TakeChallenge, StoreOwner, IssueCookie, LoginDemo, Logout, Reload
<1> SUFFICES Moved
  BY <1>1, <1>2, <1>15
<1>3. ASSUME page[p].at # "open", NEW at \in Places, at # "open", Goes(p, at) PROVE Moved
  <2> DEFINE pg == [page[p] EXCEPT !.at = at]
  <2>1. pg \in PageType /\ PageMoves(p, pg)
    BY <1>3, GoesStep
  <2>2. pg.at = at /\ pg.loaded = "no"
    BY <1>3 DEF Located, TypeInv, TypePages, PageType
  <2> QED
    BY <1>3, <2>1, <2>2
<1>4. ASSUME page[p].at # "open", NEW at \in Places, at # "open", Leaves(p, at) PROVE Moved
  <2>1. LeftPage(p, at) \in PageType /\ PageMoves(p, LeftPage(p, at)) /\ LeftPage(p, at).at = at
    BY <1>4, LeavesStep
  <2>2. LeftPage(p, at).loaded = "no"
    BY <1>4 DEF LeftPage, FreshPage, Located
  <2> QED
    BY <1>4, <2>1, <2>2
<1>5. CASE InitApp(p)
  <2>1. page[p].at # "open"
    BY <1>5 DEF InitApp
  <2> QED
    BY <1>3, <1>5, <2>1, InitAppPlace
<1>6. CASE RegisterOptions(p) \/ LoginOptions(p)
  <2>1. PICK kind \in {"registration", "authentication"} : NewChallenge(p, kind) /\ page[p].at = kind
    BY <1>6 DEF RegisterOptions, LoginOptions
  <2>2. ChallengedPage(p, kind) \in PageType /\ PageMoves(p, ChallengedPage(p, kind))
    BY <2>1, ChallengeStep
  <2>3. ChallengedPage(p, kind).at = "prompt" /\ ChallengedPage(p, kind).loaded = "no"
    BY <2>1 DEF ChallengedPage, Located, TypeInv, TypePages, PageType
  <2> QED
    BY <2>2, <2>3
<1>7. CASE CreateCredential(p)
  <2>1. CreatedPage(p) \in PageType /\ PageMoves(p, CreatedPage(p)) /\ page[p].at = "prompt"
    BY <1>7, CreateStep DEF CreateCredential
  <2>2. CreatedPage(p).at = "verify" /\ CreatedPage(p).loaded = "no"
    BY <2>1 DEF CreatedPage, Located, TypeInv, TypePages, PageType
  <2> QED
    BY <2>1, <2>2
<1>8. CASE SignChallenge(p)
  <2>1. SignedPage(p) \in PageType /\ PageMoves(p, SignedPage(p)) /\ page[p].at = "prompt"
    BY <1>8, SignStep DEF SignChallenge
  <2>2. SignedPage(p).at = "verify" /\ SignedPage(p).loaded = "no"
    BY <2>1 DEF SignedPage, Located, TypeInv, TypePages, PageType
  <2> QED
    BY <2>1, <2>2
<1>9. CASE CancelPrompt(p)
  <2>1. page[p].at = "prompt" /\ page[p].kind \in Places \ Ceremonies /\ page[p].kind # "open"
    BY <1>9, KindIsPlace DEF CancelPrompt, Ceremonies, TypeInv, TypePages, PageType
  <2> QED
    BY <1>4, <1>9, <2>1 DEF CancelPrompt
<1>10. CASE VerifyOwner(p)
  <2>1. page[p].at = "verify" /\ page[p].kind \in Places \ Ceremonies /\ page[p].kind # "open"
    BY <1>10, KindIsPlace DEF VerifyOwner, Ceremonies, TypeInv, TypePages, PageType
  <2>2. ReadPage(p).at = "read" /\ ReadPage(p).loaded = "no"
    BY <2>1 DEF ReadPage, Located, TypeInv, TypePages, PageType
  <2>3. CASE ReadPage(p) \in PageType /\ PageMoves(p, ReadPage(p))
    BY <2>2, <2>3
  <2>4. CASE Leaves(p, page[p].kind)
    BY <1>4, <2>1, <2>4
  <2>5. Leaves(p, page[p].kind) \/ page' = [page EXCEPT ![p].at = "read", ![p].rec = owner]
    BY <1>10 DEF VerifyOwner
  <2>6. CASE page' = [page EXCEPT ![p].at = "read", ![p].rec = owner]
    <3>1. owner \in Record /\ "read" \in Places /\ page[p] \in PageType
      BY DEF TypeInv, TypeKv, TypePages, Places, Ceremonies
    <3>2. ReadPage(p) \in PageType
      BY <3>1 DEF ReadPage, PageType
    <3>3. PageMoves(p, ReadPage(p))
      BY <2>6, <3>1 DEF ReadPage, PageMoves, TypeInv, TypePages
    <3> QED
      BY <2>3, <3>2, <3>3
  <2> QED
    BY <2>4, <2>5, <2>6
<1>11. CASE TakeChallenge(p)
  <2>1. page[p].at = "read" /\ page[p].kind \in Places \ Ceremonies /\ page[p].kind # "open"
    BY <1>11, KindIsPlace DEF TakeChallenge, Ceremonies, TypeInv, TypePages, PageType
  <2>2. Goes(p, "verified") \/ Leaves(p, page[p].kind)
    BY <1>11 DEF TakeChallenge
  <2> QED
    BY <1>3, <1>4, <2>1, <2>2 DEF Places, Ceremonies
<1>12. CASE StoreOwner(p)
  BY <1>3, <1>12 DEF StoreOwner, Places, Ceremonies
<1>13. CASE IssueCookie(p) \/ LoginDemo(p)
  BY <1>3, <1>4, <1>13 DEF IssueCookie, LoginDemo, Places, Ceremonies
<1>14. CASE Logout(p) \/ Reload(p)
  <2>1. PageMoves(p, FreshPage) /\ FreshPage.at # "open" /\ FreshPage.loaded = "no"
    BY <1>14, AnewStep DEF Logout, Reload, FreshPage
  <2> QED
    BY <2>1, ConstantTypes
<1> QED
  BY <1>5, <1>6, <1>7, <1>8, <1>9, <1>10, <1>11, <1>12, <1>13, <1>14 DEF Away

LEMMA TickList ==
  ASSUME TypeInv, DemoInv, ListInv, Tick PROVE ListInv'
<1> USE ParameterTypes DEF fixed, kv, saving
<1>1. /\ UNCHANGED <<BrowserOf, cookie, page, save, spoiled, overlapped>>
      /\ now' = now + 1 /\ now < MaxTime /\ now \in Nat
      /\ save = <<>> /\ lists' = Unexpired(lists, now')
  BY DEF Tick, TypeInv, TypeFixed
<1>2. \A u \in DOMAIN lists' : u \in DOMAIN lists /\ lists'[u] = lists[u]
  BY <1>1 DEF Unexpired, Restrict
<1>3. Owner \in DOMAIN lists => Owner \in DOMAIN lists'
  BY <1>1, NeverIsLate DEF DemoInv, ListsEnd, Unexpired, Restrict
<1>4. /\ \A u \in DOMAIN lists' : Stored(u)' = Stored(u)
      /\ \A u : Listed(u)' => Listed(u) /\ Stored(u)' = Stored(u)
  BY <1>2, <1>3 DEF Stored, Listed
<1>5. ASSUME NEW p \in Pages, Authorized(p)' PROVE Authorized(p)
  <2>1. BrowserOf[p] \in Browsers
    BY BrowserType
  <2>2. cookie[BrowserOf[p]].exp \in Nat
    BY <2>1 DEF TypeInv, TypeCookies
  <2> QED
    BY <1>1, <1>5, <2>2 DEF Authorized, CookieOf
<1>6. \A p \in Pages : CookieOf(p)' = CookieOf(p)
  BY <1>1 DEF CookieOf
<1>7. Located' /\ WaitsOpen'
  BY <1>1 DEF ListInv, Located, WaitsOpen
<1>8. ASSUME OnePageEach PROVE UserInv'
  <2>1. UserInv
    BY <1>8 DEF ListInv
  <2>2. SentBy' /\ OwnSaved' /\ OneSave' /\ \A r \in DOMAIN save' : InStep(r)'
    BY <1>1 DEF SentBy, OwnSaved, OneSave
  <2>3. OwnStored'
    BY <1>2, <1>4, <2>1 DEF UserInv, OwnStored
  <2>4. OwnCached'
    BY <1>1, <1>5, <1>6, <2>1 DEF UserInv, OwnCached
  <2>5. ASSUME NEW p \in Pages PROVE Settled(p)'
    <3>1. Settled(p)
      BY <2>1 DEF UserInv
    <3>2. \A u : Orderly(u)' => Orderly(u)
      BY <1>1 DEF Orderly
    <3> QED
      BY <1>1, <1>4, <1>5, <1>6, <3>1, <3>2 DEF Settled
  <2> QED
    BY <2>2, <2>3, <2>4, <2>5 DEF UserInv
<1> QED
  BY <1>1, <1>7, <1>8 DEF ListInv, OnePageEach

LEMMA LoadList ==
  ASSUME TypeInv, ListInv, NEW p \in Pages, LoadServers(p) PROVE ListInv'
<1> USE DEF fixed, kv, saving
<1>1. UNCHANGED <<BrowserOf, cookie, now, lists, save, spoiled, overlapped>> /\ page[p].at = "dashboard"
  BY DEF LoadServers
<1>2. PICK failed \in BOOLEAN :
        /\ failed \/ Authorized(p)
        /\ LoadedPage(p, failed) \in PageType /\ PageMoves(p, LoadedPage(p, failed))
  BY LoadStep
<1>3. page[p].loaded = "no"
  BY <1>1 DEF ListInv, Located
<1> DEFINE pg == LoadedPage(p, failed)
<1>4. /\ pg.at = "open" /\ pg.loaded = (IF failed THEN "failed" ELSE "yes")
      /\ pg.cache = IF failed THEN {} ELSE Stored(CookieOf(p).sub)
  BY <1>3 DEF LoadedPage, TypeInv, TypePages, PageType
<1> HIDE DEF pg
<1>5. page'[p] = pg /\ \A q \in Pages : q # p => page'[q] = page[q]
  BY <1>2, PageStep DEF pg
<1>6. \A r \in DOMAIN save : save[r].page \in Pages
  BY DEF TypeInv, TypeSaves, SaveType
<1>7. Located' /\ WaitsOpen'
  BY <1>1, <1>4, <1>5, <1>6 DEF ListInv, Located, WaitsOpen
<1>8. \A q \in Pages :
        CookieOf(q)' = CookieOf(q) /\ (Authorized(q)' <=> Authorized(q)) /\ Sender(q)' = Sender(q)
  BY <1>1, CookieFrame
<1>9. \A u : Stored(u)' = Stored(u) /\ (Listed(u)' <=> Listed(u)) /\ (Orderly(u)' <=> Orderly(u))
  BY <1>1 DEF Stored, Listed, Orderly
<1>10. ASSUME OnePageEach PROVE UserInv'
  <2>1. UserInv
    BY <1>10 DEF ListInv
  <2>2. SentBy' /\ OwnSaved' /\ OneSave'
    BY <1>1, <1>6, <1>8, <1>9, <2>1 DEF UserInv, SentBy, OwnSaved, OneSave
  <2>3. OwnStored'
    BY <1>1, <1>9, <2>1 DEF UserInv, OwnStored
  <2>4. OwnCached'
    <3>1. Authorized(p) => \A item \in pg.cache : item.by = CookieOf(p).sub
      BY <1>4, <2>1 DEF UserInv, OwnStored, Stored
    <3> QED
      BY <1>5, <1>8, <2>1, <3>1 DEF UserInv, OwnCached
  <2>5. ASSUME NEW r \in DOMAIN save PROVE InStep(r)'
    <3> SUFFICES ASSUME Orderly(save[r].sub), save[r].sub \in Subs PROVE InStep(r)'
      BY <1>1, <1>9 DEF InStep
    <3>1. save[r].waiting /\ save[r].page # p
      BY <1>1, <2>1 DEF UserInv, OneSave, ListInv, WaitsOpen
    <3>2. page'[save[r].page] = page[save[r].page] /\ InStep(r)
      BY <1>5, <1>6, <2>1, <3>1 DEF UserInv
    <3>3. ChangesOne(r)' <=> ChangesOne(r)
      BY <1>1, <1>9 DEF ChangesOne
    <3> QED
      BY <1>1, <1>9, <3>2, <3>3 DEF InStep
  <2>6. ASSUME NEW q \in Pages PROVE Settled(q)'
    <3>1. CASE q = p
      <4> SUFFICES ASSUME page'[p].loaded = "yes"
                   PROVE  page'[p].cache = Stored(CookieOf(p).sub)
        BY <1>8, <1>9, <3>1 DEF Settled
      <4> QED
        BY <1>4, <1>5
    <3>2. CASE q # p
      <4>1. Settled(q) /\ page'[q] = page[q]
        BY <1>5, <2>1, <3>2 DEF UserInv
      <4> QED
        BY <1>1, <1>8, <1>9, <4>1 DEF Settled
    <3> QED
      BY <3>1, <3>2
  <2> QED
    BY <1>1, <2>2, <2>3, <2>4, <2>5, <2>6 DEF UserInv
<1> QED
  BY <1>1, <1>7, <1>10 DEF ListInv, OnePageEach

(* An open page saves its cache with something added or removed. *)
LEMMA ChangeList ==
  ASSUME TypeInv, SoleInv, DemoInv, ListInv, NEW p \in Pages, page[p].at = "open",
         NEW list \in SUBSET Items, NEW item \in Items, NEW adds \in BOOLEAN,
         Send(p, list, item, adds), UNCHANGED <<BrowserOf, cookie, now, lists, overlapped>>,
         \A x \in list \cup {item} : x \in page[p].cache \/ x.by = Sender(p),
         IF adds THEN /\ list = page[p].cache \cup {item}
                      /\ CachedPage(p, list) \in PageType /\ PageMoves(p, CachedPage(p, list))
                 ELSE list = page[p].cache \ {item} /\ page' = page
  PROVE  ListInv'
<1>0. PICK u : u = Sender(p)
  OBVIOUS
<1>a. Sent(Request(p, list, item, adds))
  BY SendStep
<1>1. PICK r \in Saves \ DOMAIN save :
        /\ Request(p, list, item, adds) \in SaveType
        /\ DOMAIN save' = DOMAIN save \cup {r} /\ save'[r] = Request(p, list, item, adds)
        /\ \A q \in DOMAIN save : save'[q] = save[q]
  BY <1>a DEF Sent
<1>2. /\ save'[r].sub = u /\ save'[r].waiting /\ save'[r].page = p /\ save'[r].list = list
      /\ save'[r].item = item /\ save'[r].adds = adds /\ save'[r].cached = adds
      /\ save'[r].at = "sent"
  BY <1>0, <1>1 DEF Request
<1>3. /\ spoiled \subseteq spoiled'
      /\ page[p].loaded = "failed" \/ (\E q \in DOMAIN save : save[q].sub = u) => u \in spoiled'
  BY <1>0 DEF Send
<1>4. /\ page'[p].at = "open" /\ page'[p].loaded = page[p].loaded
      /\ page'[p].cache = IF adds THEN list ELSE page[p].cache
      /\ \A q \in Pages : q # p => page'[q] = page[q]
  <2>1. CASE adds
    <3>1. page'[p] = CachedPage(p, list) /\ \A q \in Pages : q # p => page'[q] = page[q]
      BY <2>1, PageStep
    <3> QED
      BY <2>1, <3>1 DEF CachedPage, TypeInv, TypePages, PageType
  <2>2. CASE ~adds
    BY <2>2
  <2> QED
    BY <2>1, <2>2
<1>5. \A q \in DOMAIN save : save[q].page \in Pages
  BY DEF TypeInv, TypeSaves, SaveType
<1>6. Located'
  BY <1>4 DEF ListInv, Located
<1>7. WaitsOpen'
  BY <1>1, <1>2, <1>4, <1>5 DEF ListInv, WaitsOpen
<1>8. \A q \in Pages :
        CookieOf(q)' = CookieOf(q) /\ (Authorized(q)' <=> Authorized(q)) /\ Sender(q)' = Sender(q)
  BY CookieFrame
<1>9. \A v : Stored(v)' = Stored(v) /\ (Listed(v)' <=> Listed(v)) /\ (Orderly(v)' => Orderly(v))
  BY <1>3 DEF Stored, Listed, Orderly
<1>10. ASSUME OnePageEach PROVE UserInv'
  <2>1. UserInv
    BY <1>10 DEF ListInv
  <2>2. Authorized(p) => u = CookieOf(p).sub
    BY <1>0 DEF Sender
  <2>3. u \in Subs => Authorized(p)
    BY <1>0, SenderType
  <2>4. Authorized(p) => \A x \in list \cup {item} : x.by = u
    BY <1>0, <2>1, <2>2 DEF UserInv, OwnCached
  <2>5. SentBy'
    BY <1>0, <1>1, <1>2, <1>5, <1>8, <2>1 DEF UserInv, SentBy
  <2>6. OwnStored'
    BY <1>9, <2>1 DEF UserInv, OwnStored
  <2>7. OwnSaved'
    BY <1>1, <1>2, <2>1, <2>3, <2>4 DEF UserInv, OwnSaved
  <2>8. OwnCached'
    BY <1>4, <1>8, <2>1, <2>2, <2>4 DEF UserInv, OwnCached
  <2>9. ASSUME NEW q \in DOMAIN save, NEW v, v = save[q].sub, Orderly(v)'
        PROVE  v # u /\ save[q].waiting /\ save[q].page # p /\ Orderly(v)
    <3>1. Orderly(v) /\ save[q].waiting /\ v = Sender(save[q].page)
      BY <1>9, <2>1, <2>9 DEF UserInv, OneSave, SentBy
    <3>2. v # u
      BY <1>3, <2>9 DEF Orderly
    <3> QED
      BY <1>0, <3>1, <3>2
  <2>10. OneSave'
    <3> SUFFICES ASSUME NEW q \in DOMAIN save', NEW v, v = save'[q].sub, Orderly(v)'
                 PROVE  /\ save'[q].waiting
                        /\ \A x \in DOMAIN save' : save'[x].sub = v => x = q
      BY DEF OneSave
    <3>1. CASE q = r
      <4>1. \A x \in DOMAIN save : save[x].sub # u
        BY <1>2, <1>3, <3>1 DEF Orderly
      <4> QED
        BY <1>1, <1>2, <3>1, <4>1
    <3>2. CASE q # r
      <4>1. q \in DOMAIN save /\ save'[q] = save[q]
        BY <1>1, <3>2
      <4>2. v # u /\ save[q].waiting /\ Orderly(v) /\ v = save[q].sub
        BY <2>9, <4>1
      <4>3. \A x \in DOMAIN save : save[x].sub = v => x = q
        BY <2>1, <4>1, <4>2 DEF UserInv, OneSave
      <4> QED
        BY <1>1, <1>2, <4>1, <4>2, <4>3
    <3> QED
      BY <3>1, <3>2
  <2>11. InStep(r)'
    <3> SUFFICES ASSUME Orderly(u)', u \in Subs PROVE InStep(r)'
      BY <1>2 DEF InStep
    <3>1. page[p].loaded = "yes" /\ \A q \in DOMAIN save : save[q].sub # u
      BY <1>3 DEF Orderly, ListInv, Located, TypeInv, TypePages, PageType
    <3>2. Listed(u) => page[p].cache = Stored(u)
      BY <1>9, <2>1, <2>2, <2>3, <3>1 DEF UserInv, Settled
    <3>3. Listed(u) => ChangesOne(r)'
      BY <1>2, <1>9, <3>2 DEF ChangesOne
    <3>4. Listed(u)' <=> Listed(u)
      BY <1>9
    <3>5. Stored(u)' = Stored(u)
      BY <1>9
    <3> QED
      BY <1>2, <1>4, <3>2, <3>3, <3>4, <3>5 DEF InStep
  <2>12. ASSUME NEW q \in DOMAIN save PROVE InStep(q)'
    <3>0. save'[q] = save[q]
      BY <1>1
    <3> SUFFICES ASSUME NEW v, v = save[q].sub, Orderly(v)', v \in Subs PROVE InStep(q)'
      BY <3>0 DEF InStep
    <3>1. page'[save[q].page] = page[save[q].page] /\ InStep(q) /\ Orderly(v)
      BY <1>4, <1>5, <2>1, <2>9 DEF UserInv
    <3>2. ChangesOne(q)' <=> ChangesOne(q)
      BY <1>9, <3>0 DEF ChangesOne
    <3> QED
      BY <1>9, <3>0, <3>1, <3>2 DEF InStep
  <2>13. ASSUME NEW q \in Pages PROVE Settled(q)'
    <3>0. PICK v : v = CookieOf(q).sub
      OBVIOUS
    <3> SUFFICES ASSUME page'[q].at = "open", page'[q].loaded = "yes", Authorized(q),
                        Orderly(v), Listed(v), \A x \in DOMAIN save' : save'[x].sub # v
                 PROVE  page'[q].cache = Stored(v)
      BY <1>8, <1>9, <3>0 DEF Settled
    <3>1. v # u /\ \A x \in DOMAIN save : save[x].sub # v
      BY <1>1, <1>2
    <3>2. q # p
      BY <2>2, <3>0, <3>1
    <3> QED
      BY <1>4, <2>1, <3>0, <3>1, <3>2 DEF UserInv, Settled
  <2> QED
    BY <1>1, <2>5, <2>6, <2>7, <2>8, <2>10, <2>11, <2>12, <2>13 DEF UserInv
<1> QED
  BY <1>6, <1>7, <1>10 DEF ListInv, OnePageEach

(* A save is put, or answered with an error. *)
LEMMA PutList ==
  ASSUME TypeInv, SoleInv, DemoInv, ListInv, NEW r \in Saves, PutServers(r) PROVE ListInv'
<1> USE DEF fixed, kv
<1> DEFINE u == save[r].sub
<1>1. /\ r \in DOMAIN save /\ save[r].at = "sent" /\ save[r] \in SaveType
      /\ UNCHANGED <<BrowserOf, now, cookie, page, overlapped>>
      /\ \A q \in DOMAIN save : q # r /\ q \in DOMAIN save' => save'[q] = save[q]
  BY PutStep
<1>2. Located'
  BY <1>1 DEF ListInv, Located
<1>3. \A q \in Pages :
        CookieOf(q)' = CookieOf(q) /\ (Authorized(q)' <=> Authorized(q)) /\ Sender(q)' = Sender(q)
  BY <1>1, CookieFrame
<1>4. CASE /\ u \in Subs /\ UNCHANGED spoiled
           /\ DOMAIN lists' = DOMAIN lists \cup {u} /\ lists'[u] = PutListOf(r)
           /\ \A v \in DOMAIN lists : v # u => lists'[v] = lists[v]
           /\ DOMAIN save' = DOMAIN save /\ save'[r] = [save[r] EXCEPT !.at = "put"]
  <2>1. /\ save'[r].at = "put" /\ save'[r].sub = u /\ save'[r].page = save[r].page
        /\ save'[r].waiting = save[r].waiting /\ save'[r].cached = save[r].cached
        /\ save'[r].list = save[r].list /\ save'[r].item = save[r].item
        /\ save'[r].adds = save[r].adds
    BY <1>1, <1>4 DEF SaveType
  <2>2. /\ \A v : Stored(v)' = IF v = u THEN save[r].list ELSE Stored(v)
        /\ \A v : v # u => (Listed(v)' <=> Listed(v))
    BY <1>4 DEF Stored, Listed, PutListOf
  <2> HIDE DEF u
  <2>3. \A q \in DOMAIN save : /\ save'[q].sub = save[q].sub /\ save'[q].page = save[q].page
                               /\ save'[q].waiting = save[q].waiting /\ save'[q].list = save[q].list
                               /\ save'[q].item = save[q].item
    BY <1>1, <1>4, <2>1 DEF u
  <2>4. WaitsOpen'
    BY <1>1, <1>4, <2>3 DEF ListInv, WaitsOpen
  <2>5. \A v : Orderly(v)' <=> Orderly(v)
    BY <1>1, <1>4 DEF Orderly
  <2>6. ASSUME OnePageEach PROVE UserInv'
    <3>1. UserInv
      BY <2>6 DEF ListInv
    <3>2. SentBy'
      <4>1. \A q \in DOMAIN save : save[q].page \in Pages
        BY DEF TypeInv, TypeSaves, SaveType
      <4> QED
        BY <1>3, <1>4, <2>3, <3>1, <4>1 DEF UserInv, SentBy
    <3>3. OwnSaved' /\ OneSave'
      BY <1>4, <2>3, <2>5, <3>1 DEF UserInv, OwnSaved, OneSave
    <3>4. OwnStored'
      <4>1. \A item \in save[r].list : item.by = u
        BY <1>1, <1>4, <3>1 DEF UserInv, OwnSaved, u
      <4> SUFFICES ASSUME NEW v \in DOMAIN lists' PROVE \A item \in Stored(v)' : item.by = v
        BY DEF OwnStored
      <4>2. CASE v = u
        BY <2>2, <4>1, <4>2
      <4>3. CASE v # u
        BY <1>4, <2>2, <3>1, <4>3 DEF UserInv, OwnStored
      <4> QED
        BY <4>2, <4>3
    <3>5. OwnCached'
      BY <1>1, <1>3, <3>1 DEF UserInv, OwnCached
    <3>6. InStep(r)'
      <4> SUFFICES ASSUME Orderly(u) PROVE InStep(r)'
        BY <2>1, <2>5 DEF InStep
      <4>1. InStep(r)
        BY <1>1, <3>1 DEF UserInv
      <4> QED
        BY <1>1, <1>4, <2>1, <2>2, <4>1 DEF InStep, u
    <3>7. ASSUME NEW q \in DOMAIN save, q # r PROVE InStep(q)'
      <4>0. save'[q] = save[q]
        BY <1>1, <1>4, <3>7
      <4> SUFFICES ASSUME Orderly(save[q].sub), save[q].sub \in Subs PROVE InStep(q)'
        BY <2>5, <4>0 DEF InStep
      <4>1. save[q].sub # u /\ InStep(q)
        BY <1>1, <3>1, <3>7 DEF UserInv, OneSave, u
      <4>2. PICK v : v = save[q].sub
        OBVIOUS
      <4>3. Stored(v)' = Stored(v) /\ (Listed(v)' <=> Listed(v))
        BY <2>2, <4>1, <4>2
      <4>4. ChangesOne(q)' <=> ChangesOne(q)
        BY <4>0, <4>2, <4>3 DEF ChangesOne
      <4> QED
        BY <1>1, <4>0, <4>1, <4>2, <4>3, <4>4 DEF InStep
    <3>8. ASSUME NEW q \in Pages PROVE Settled(q)'
      <4> PICK v : v = CookieOf(q).sub
        OBVIOUS
      <4>1. CookieOf(q)' = CookieOf(q)
        BY <1>1 DEF CookieOf
      <4> SUFFICES ASSUME \A x \in DOMAIN save : save[x].sub # v PROVE Settled(q)'
        BY <1>4, <2>3, <4>1 DEF Settled
      <4>2. v # u /\ Settled(q)
        BY <1>1, <3>1 DEF UserInv, u
      <4>3. Stored(v)' = Stored(v) /\ (Listed(v)' <=> Listed(v))
        BY <2>2, <4>2
      <4>4. page'[q] = page[q] /\ now' = now /\ (Orderly(v)' <=> Orderly(v))
        BY <1>1, <1>3, <2>5
      <4> QED
        BY <2>3, <4>1, <4>2, <4>3, <4>4 DEF Settled, Authorized
    <3> QED
      BY <1>4, <3>2, <3>3, <3>4, <3>5, <3>6, <3>7, <3>8 DEF UserInv
  <2> QED
    BY <1>1, <1>2, <2>4, <2>6 DEF ListInv, OnePageEach
<1>5. CASE /\ DOMAIN save' = DOMAIN save \ {r} /\ UNCHANGED lists
           /\ spoiled' = IF save[r].adds THEN spoiled \cup {u} ELSE spoiled
  <2> HIDE DEF u
  <2>1. \A q \in DOMAIN save' : q \in DOMAIN save /\ q # r /\ save'[q] = save[q]
    BY <1>1, <1>5
  <2>2. WaitsOpen'
    BY <1>1, <2>1 DEF ListInv, WaitsOpen
  <2>3. \A v : Orderly(v)' => Orderly(v)
    BY <1>1, <1>5 DEF Orderly
  <2>4. \A v : Stored(v)' = Stored(v) /\ (Listed(v)' <=> Listed(v))
    BY <1>5 DEF Stored, Listed
  <2>5. ASSUME OnePageEach PROVE UserInv'
    <3>1. UserInv
      BY <2>5 DEF ListInv
    <3>2. SentBy'
      <4>1. \A q \in DOMAIN save : save[q].page \in Pages
        BY DEF TypeInv, TypeSaves, SaveType
      <4> QED
        BY <1>3, <2>1, <3>1, <4>1 DEF UserInv, SentBy
    <3>3. OwnSaved' /\ OneSave'
      BY <2>1, <2>3, <3>1 DEF UserInv, OwnSaved, OneSave, Orderly
    <3>4. OwnStored' /\ OwnCached'
      BY <1>1, <1>3, <1>5, <2>4, <3>1 DEF UserInv, OwnStored, OwnCached
    <3>5. ASSUME NEW q \in DOMAIN save' PROVE InStep(q)'
      <4>1. q \in DOMAIN save /\ save'[q] = save[q] /\ InStep(q)
        BY <2>1, <3>1 DEF UserInv
      <4>2. Orderly(save[q].sub)' => Orderly(save[q].sub)
        BY <1>1, <1>5, <4>1 DEF Orderly
      <4>3. ChangesOne(q)' <=> ChangesOne(q)
        BY <2>4, <4>1 DEF ChangesOne
      <4> QED
        BY <1>1, <2>3, <2>4, <4>1, <4>3 DEF InStep
    <3>6. ASSUME NEW q \in Pages PROVE Settled(q)'
      <4> DEFINE v == CookieOf(q).sub
      <4> SUFFICES ASSUME page[q].at = "open", page[q].loaded = "yes", Authorized(q), Orderly(v),
                          v \notin spoiled', Listed(v), \A x \in DOMAIN save' : save'[x].sub # v
                   PROVE  page[q].cache = Stored(v)
        BY <1>1, <1>3, <2>3, <2>4 DEF Settled, Orderly
      <4>1. CASE u = v
        <5>1. q = save[r].page /\ v \in Subs
          BY <1>1, <2>5, <3>1, <4>1, OneSender, AuthorizedUser DEF u
        <5>2. ~save[r].adds /\ InStep(r)
          BY <1>1, <1>5, <3>1, <4>1 DEF UserInv
        <5> QED
          BY <1>1, <4>1, <5>1, <5>2 DEF InStep, u
      <4>2. CASE u # v
        <5>1. \A x \in DOMAIN save : save[x].sub # v
          BY <1>5, <2>1, <4>2 DEF u
        <5> QED
          BY <3>1, <5>1 DEF UserInv, Settled
      <4> QED
        BY <4>1, <4>2
    <3> QED
      BY <3>2, <3>3, <3>4, <3>5, <3>6 DEF UserInv
  <2> QED
    BY <1>1, <1>2, <2>2, <2>5 DEF ListInv, OnePageEach
<1> QED
  BY <1>4, <1>5, PutStep

(* A save is answered. *)
LEMMA SavedList ==
  ASSUME TypeInv, SoleInv, DemoInv, ListInv, NEW r \in Saves, ServersSaved(r) PROVE ListInv'
<1> USE DEF fixed, kv
<1> DEFINE p == save[r].page
           u == save[r].sub
<1>1. /\ r \in DOMAIN save /\ save[r].at = "put" /\ p \in Pages
      /\ UNCHANGED <<BrowserOf, now, lists, cookie, overlapped, spoiled>>
      /\ DOMAIN save' = DOMAIN save \ {r}
  BY SavedStep
<1>2. ASSUME NEW q \in DOMAIN save'
      PROVE  /\ q \in DOMAIN save /\ q # r /\ save[q].page \in Pages
             /\ save'[q].sub = save[q].sub /\ save'[q].page = save[q].page
             /\ save'[q].waiting = save[q].waiting /\ save'[q].list = save[q].list
             /\ save'[q].item = save[q].item /\ save'[q].at = save[q].at
             /\ save'[q].adds = save[q].adds
             /\ ~(Replaces(r) /\ save[q].page = p) => save'[q] = save[q]
  <2>1. /\ q \in DOMAIN save /\ q # r
        /\ save'[q] = IF Replaces(r) /\ save[q].page = p
                      THEN [save[q] EXCEPT !.cached = FALSE] ELSE save[q]
    BY <1>2, SavedStep
  <2>2. save[q] \in SaveType
    BY <2>1 DEF TypeInv, TypeSaves
  <2> HIDE DEF p
  <2>3. CASE Replaces(r) /\ save[q].page = p
    BY <2>1, <2>2, <2>3 DEF SaveType
  <2>4. CASE ~(Replaces(r) /\ save[q].page = p)
    BY <2>1, <2>2, <2>4 DEF SaveType
  <2> QED
    BY <2>3, <2>4
<1>3. ASSUME NEW q \in Pages
      PROVE  /\ page'[q].at = page[q].at /\ page'[q].loaded = page[q].loaded
             /\ page'[q].cache = IF Replaces(r) /\ q = p THEN save[r].list ELSE page[q].cache
  <2>1. CASE Replaces(r)
    <3>1. PageMoves(p, CachedPage(p, save[r].list)) /\ CachedPage(p, save[r].list) \in PageType
      BY <2>1, SavedStep
    <3>2. /\ page'[p] = CachedPage(p, save[r].list)
          /\ \A x \in Pages : x # p => page'[x] = page[x]
      BY <1>1, <3>1, PageStep
    <3>3. /\ CachedPage(p, save[r].list).at = page[p].at
          /\ CachedPage(p, save[r].list).loaded = page[p].loaded
          /\ CachedPage(p, save[r].list).cache = save[r].list
      BY <1>1 DEF CachedPage, TypeInv, TypePages, PageType
    <3> QED
      BY <1>3, <2>1, <3>2, <3>3
  <2>2. CASE ~Replaces(r)
    BY <2>2, SavedStep
  <2> QED
    BY <2>1, <2>2
<1> HIDE DEF p, u
<1>4. Located' /\ WaitsOpen'
  BY <1>2, <1>3 DEF ListInv, Located, WaitsOpen
<1>5. \A q \in Pages :
        CookieOf(q)' = CookieOf(q) /\ (Authorized(q)' <=> Authorized(q)) /\ Sender(q)' = Sender(q)
  BY <1>1, CookieFrame
<1>6. \A v : Stored(v)' = Stored(v) /\ (Listed(v)' <=> Listed(v)) /\ (Orderly(v)' <=> Orderly(v))
  BY <1>1 DEF Stored, Listed, Orderly
<1>7. ASSUME OnePageEach PROVE UserInv'
  <2>1. UserInv
    BY <1>7 DEF ListInv
  <2>2. SentBy'
    BY <1>2, <1>5, <2>1 DEF UserInv, SentBy
  <2>3. OwnSaved' /\ OneSave'
    BY <1>2, <1>6, <2>1 DEF UserInv, OwnSaved, OneSave
  <2>4. OwnStored'
    BY <1>1, <1>6, <2>1 DEF UserInv, OwnStored
  <2>5. Replaces(r) => u = Sender(p)
    BY <1>1, <2>1 DEF UserInv, SentBy, Replaces, p, u
  <2>6. OwnCached'
    <3>1. Replaces(r) /\ Authorized(p) => \A item \in save[r].list : item.by = CookieOf(p).sub
      <4> SUFFICES ASSUME Replaces(r), Authorized(p)
                   PROVE  \A item \in save[r].list : item.by = CookieOf(p).sub
        OBVIOUS
      <4>1. u = CookieOf(p).sub /\ u \in Subs
        BY <1>1, <2>5, SenderType
      <4> QED
        BY <1>1, <2>1, <4>1 DEF UserInv, OwnSaved, u
    <3> QED
      BY <1>3, <1>5, <2>1, <3>1 DEF UserInv, OwnCached
  <2>7. ASSUME NEW q \in DOMAIN save' PROVE InStep(q)'
    <3>0. q \in DOMAIN save /\ q # r /\ save[q].page \in Pages /\ save'[q].sub = save[q].sub
      BY <1>2
    <3> SUFFICES ASSUME Orderly(save[q].sub), save[q].sub \in Subs PROVE InStep(q)'
      BY <1>6, <3>0 DEF InStep
    <3>1. save[q].waiting /\ save[q].sub = Sender(save[q].page) /\ u # save[q].sub
      BY <1>1, <2>1, <3>0 DEF UserInv, OneSave, SentBy, u
    <3>2. ~(Replaces(r) /\ save[q].page = p)
      BY <2>5, <3>1
    <3>3. save'[q] = save[q] /\ page'[save[q].page].cache = page[save[q].page].cache /\ InStep(q)
      BY <1>2, <1>3, <2>1, <3>0, <3>2 DEF UserInv
    <3>4. ChangesOne(q)' <=> ChangesOne(q)
      BY <1>6, <3>3 DEF ChangesOne
    <3> QED
      BY <1>6, <3>3, <3>4 DEF InStep
  <2>8. ASSUME NEW q \in Pages PROVE Settled(q)'
    <3> DEFINE v == CookieOf(q).sub
    <3> SUFFICES ASSUME page[q].at = "open", page[q].loaded = "yes", Authorized(q), Orderly(v),
                        Listed(v), \A x \in DOMAIN save' : save'[x].sub # v
                 PROVE  page'[q].cache = Stored(v)
      BY <1>3, <1>5, <1>6 DEF Settled
    <3>1. CASE u = v
      <4>1. q = p /\ save[r].waiting /\ v \in Subs
        BY <1>1, <1>7, <2>1, <3>1, OneSender, AuthorizedUser DEF u, p
      <4>2. InStep(r)
        BY <1>1, <2>1 DEF UserInv
      <4>3. /\ save[r].cached = save[r].adds /\ (save[r].adds => page[p].cache = save[r].list)
            /\ Stored(v) = save[r].list
        BY <1>1, <3>1, <4>1, <4>2 DEF InStep, u, p
      <4> QED
        BY <1>3, <4>1, <4>3 DEF Replaces
    <3>2. CASE u # v
      <4>1. \A x \in DOMAIN save : save[x].sub # v
        BY <1>1, <1>2, <3>2 DEF u
      <4>2. ~(Replaces(r) /\ q = p)
        BY <2>5, <3>2 DEF Sender
      <4> QED
        BY <1>3, <2>1, <4>1, <4>2 DEF UserInv, Settled
    <3> QED
      BY <3>1, <3>2
  <2> QED
    BY <2>2, <2>3, <2>4, <2>6, <2>7, <2>8 DEF UserInv
<1> QED
  BY <1>1, <1>4, <1>7 DEF ListInv, OnePageEach

LEMMA ListStep ==
  ASSUME TypeInv, SoleInv, DemoInv, ListInv, [Next]_vars PROVE ListInv'
<1> USE DEF fixed, kv, saving
<1>1. CASE Tick
  BY <1>1, TickList
<1>2. ASSUME NEW p \in Pages, Away(p) PROVE ListInv'
  BY <1>2, AwayStep, ListFrame DEF ListInv
<1>3. ASSUME NEW p \in Pages, LoadServers(p) PROVE ListInv'
  BY <1>3, LoadList
<1>4. ASSUME NEW p \in Pages, NEW s \in Servers, AddServer(p, s) PROVE ListInv'
  <2> DEFINE item == AddedItem(p, s)
             list == page[p].cache \cup {item}
  <2>1. /\ item \in Items /\ list \in SUBSET Items /\ Send(p, list, item, TRUE)
        /\ CachedPage(p, list) \in PageType /\ PageMoves(p, CachedPage(p, list))
        /\ page[p].at = "open" /\ UNCHANGED <<BrowserOf, cookie, now, lists, overlapped>>
    BY <1>4, AddStep
  <2>2. \A x \in list \cup {item} : x \in page[p].cache \/ x.by = Sender(p)
    BY DEF AddedItem
  <2>3. list = page[p].cache \cup {item}
    OBVIOUS
  <2> HIDE DEF item, list
  <2> QED
    BY <2>1, <2>2, <2>3, ChangeList
<1>5. ASSUME NEW p \in Pages, NEW item \in page[p].cache, RemoveServer(p, item) PROVE ListInv'
  <2> DEFINE list == page[p].cache \ {item}
  <2>1. /\ item \in Items /\ list \in SUBSET Items /\ Send(p, list, item, FALSE)
        /\ page[p].at = "open" /\ page' = page
        /\ UNCHANGED <<BrowserOf, cookie, now, lists, overlapped>>
    BY <1>5, RemoveStep
  <2>2. list = page[p].cache \ {item} /\ \A x \in list \cup {item} : x \in page[p].cache
    OBVIOUS
  <2> HIDE DEF list
  <2> QED
    BY <2>1, <2>2, ChangeList
<1>6. ASSUME NEW r \in Saves, PutServers(r) PROVE ListInv'
  BY <1>6, PutList
<1>7. ASSUME NEW r \in Saves, ServersSaved(r) PROVE ListInv'
  BY <1>7, SavedList
<1>8. CASE UNCHANGED vars
  <2>1. UNCHANGED <<BrowserOf, now, cookie, page, lists, save, spoiled, overlapped>>
    BY <1>8 DEF vars
  <2>2. Located' /\ WaitsOpen'
    BY <2>1 DEF ListInv, Located, WaitsOpen
  <2>3. \A q : CookieOf(q)' = CookieOf(q) /\ (Authorized(q)' <=> Authorized(q)) /\ Sender(q)' = Sender(q)
    BY <2>1, CookieFrame
  <2>4. \A v : Stored(v)' = Stored(v) /\ (Listed(v)' <=> Listed(v)) /\ (Orderly(v)' <=> Orderly(v))
    BY <2>1 DEF Stored, Listed, Orderly
  <2>5. \A r : InStep(r) => InStep(r)'
    BY <2>1, <2>4 DEF InStep, ChangesOne
  <2>6. \A p : Settled(p) => Settled(p)'
    BY <2>1, <2>3, <2>4 DEF Settled
  <2>7. ASSUME UserInv PROVE UserInv'
    <3>1. SentBy' /\ OwnStored' /\ OwnSaved' /\ OwnCached'
      BY <2>1, <2>3, <2>4, <2>7 DEF UserInv, SentBy, OwnStored, OwnSaved, OwnCached
    <3>2. OneSave'
      BY <2>1, <2>4, <2>7 DEF UserInv, OneSave
    <3> QED
      BY <2>1, <2>5, <2>6, <2>7, <3>1, <3>2 DEF UserInv
  <2> QED
    BY <2>1, <2>2, <2>7 DEF ListInv, OnePageEach
<1> QED
  BY <1>1, <1>2, <1>3, <1>4, <1>5, <1>6, <1>7, <1>8 DEF Next, Away

ListsInv == TypeInv /\ CeremonyInv /\ SoleInv /\ DemoInv /\ ListInv

LEMMA ListsInvImplies == ListsInv => ListsAreTrue
<1> SUFFICES ASSUME ListsInv PROVE ListsAreTrue
  OBVIOUS
<1>1. DemoDataGone
  <2> SUFFICES ASSUME NEW u \in DOMAIN lists \ {Owner}
               PROVE  now < lists[u].put + DemoTtl /\ lists[u].put <= born[u] + DemoTtl
    BY DEF DemoDataGone
  <2> QED
    BY DEF ListsInv, DemoInv, ListsEnd
<1>2. ServersAsSaved
  <2> SUFFICES ASSUME OnePageEach
               PROVE  /\ \A u \in DOMAIN lists : \A item \in Stored(u) : item.by = u
                      /\ \A r \in DOMAIN save :
                           /\ save[r].at = "sent" /\ Orderly(save[r].sub)
                           /\ save[r].sub \in DOMAIN lists \cup {Owner}
                           => ChangesOne(r)
    BY DEF ServersAsSaved
  <2>1. UserInv
    BY DEF ListsInv, ListInv
  <2>2. DOMAIN lists \cup {Owner} \subseteq Subs
    BY DEF ListsInv, TypeInv, TypeKv, Subs
  <2> QED
    BY <2>1, <2>2 DEF UserInv, OwnStored, InStep, Listed
<1> QED
  BY <1>1, <1>2, TypeInvImplies DEF ListsInv, ListsAreTrue

(* Whatever requests overlap or fail, a user with one page finds nothing of  *)
(* another user's in the list, through logins, logouts, reloads and cookies  *)
(* that expire while a page is open; every save of a user whose saves came   *)
(* one at a time, from a list that was loaded, changes the stored list by    *)
(* its one server; and a demo user's list is gone a lifetime after the last  *)
(* save, which is at most a lifetime after the login.                        *)
THEOREM TrueLists == Spec => []ListsAreTrue
<1>1. Init => ListsInv
  BY InitType, InitCeremony, InitSole, InitDemo, InitList DEF ListsInv
<1>2. ListsInv /\ [Next]_vars => ListsInv'
  BY TypeStep, CeremonyStep, SoleStep, DemoStep, ListStep DEF ListsInv
<1> QED
  BY <1>1, <1>2, ListsInvImplies, PTL DEF Spec

-----------------------------------------------------------------------------
(***************************************************************************)
(* HostKeys, with any number of attempts in an isolate at a time: every    *)
(* statement about a thread-local names the attempt it belongs to or one   *)
(* that attempt met.                                                       *)
(***************************************************************************)

(* The attempts whose handshakes run in an isolate at the same time have met; *)
(* an attempt meets itself, and nobody who has not begun.                     *)
Acquainted ==
  /\ \A a \in Attempts : a \in met[a]
  /\ \A a, b \in Attempts :
       InHandshake(a) /\ InHandshake(b) /\ isolateOf[a] = isolateOf[b] => b \in met[a]
  /\ \A a \in Attempts, b \in Attempts :
       b \in met[a] /\ b # a => stage[b] \notin {"idle", "connect"}

(* Before its check an attempt has been presented nothing. *)
Unchecked(a) == stage[a] \in {"idle", "connect", "handshake", "timedOut"}

(* The thread-locals are those of an attempt met: the expectation until the  *)
(* check, the accepted key from the check on, unless it was taken.           *)
OneAcceptedBy(a, key) ==
  IF key = NoKey THEN met[a] # {a} ELSE \E b \in met[a] : key = presented[b]

AttemptInv(a) ==
  /\ Unchecked(a) => presented[a] = NoKey
  /\ stage[a] \in {"handshake", "timedOut"} =>
       \E b \in met[a] : expected[isolateOf[a]] = expectedHostKey(b)
  /\ stage[a] = "checked" => OneAcceptedBy(a, accepted[isolateOf[a]])
  /\ Connected(a) => \E b \in met[a] : expectedHostKey(b) \in {NoKey, presented[a]}
  /\ stage[a] = "mismatch" => \E b \in met[a] : expectedHostKey(b) \notin {NoKey, presented[a]}
  /\ HasAnswer(a) => OneAcceptedBy(a, reply[a])

VerdictInv == HostKeysTypeOK /\ Acquainted /\ \A a \in Attempts : AttemptInv(a)

-----------------------------------------------------------------------------
(* Type correctness *)

LEMMA InitTypeOK == HostKeysInit => HostKeysTypeOK
<1> SUFFICES ASSUME HostKeysInit PROVE HostKeysTypeOK
  OBVIOUS
<1>1. /\ isolateOf \in Placements /\ hostKey \in [Hosts -> Keys] /\ changes \in Nat
      /\ known \in [Hosts -> MaybeKey]
      /\ expected \in [Isolates -> MaybeKey] /\ accepted \in [Isolates -> MaybeKey]
  BY DEF HostKeysInit, MaybeKey
<1>2. stage \in [Attempts -> Stages] /\ accept \in [Attempts -> BOOLEAN]
  BY DEF HostKeysInit, Stages, Final
<1>3. snap \in [Attempts -> [Hosts -> MaybeKey]] /\ copy \in [Attempts -> [Hosts -> MaybeKey]]
  BY <1>1 DEF HostKeysInit
<1>4. /\ reply \in [Attempts -> MaybeKey] /\ presented \in [Attempts -> MaybeKey]
      /\ met \in [Attempts -> SUBSET Attempts]
  BY DEF HostKeysInit, MaybeKey
<1>5. approved \subseteq Hosts \X Keys
  BY DEF HostKeysInit
<1> QED
  BY <1>1, <1>2, <1>3, <1>4, <1>5 DEF HostKeysTypeOK

LEMMA MoveType ==
  ASSUME HostKeysTypeOK, NEW a \in Attempts, NEW s \in Stages, Moves(a, s)
  PROVE  stage' \in [Attempts -> Stages]
BY DEF HostKeysTypeOK, Moves

LEMMA StepTypeOK == HostKeysTypeOK /\ [HostKeysNext]_hostKeysVars => HostKeysTypeOK'
<1> SUFFICES ASSUME HostKeysTypeOK, [HostKeysNext]_hostKeysVars PROVE HostKeysTypeOK'
  OBVIOUS
<1> USE HostKeysAssumption
<1>1. ASSUME NEW h \in Hosts, ServerKeyChanges(h) PROVE HostKeysTypeOK'
  BY <1>1 DEF ServerKeyChanges, HostKeysTypeOK
<1>2. ASSUME NEW a \in Attempts, CreateSession(a) PROVE HostKeysTypeOK'
  <2>1. stage' \in [Attempts -> Stages]
    BY <1>2, MoveType DEF CreateSession, Stages
  <2>2. accept' \in [Attempts -> BOOLEAN] /\ snap' \in [Attempts -> [Hosts -> MaybeKey]]
    BY <1>2 DEF CreateSession, HostKeysTypeOK
  <2> QED
    BY <1>2, <2>1, <2>2 DEF CreateSession, HostKeysTypeOK
<1>3. ASSUME NEW a \in Attempts, set_expected_host_key(a) PROVE HostKeysTypeOK'
  <2>1. stage' \in [Attempts -> Stages]
    BY <1>3, MoveType DEF set_expected_host_key, Stages
  <2>2. expectedHostKey(a) \in MaybeKey
    BY DEF HostKeysTypeOK, expectedHostKey, MaybeKey
  <2>3. expected' \in [Isolates -> MaybeKey]
    BY <1>3, <2>2 DEF set_expected_host_key, HostKeysTypeOK
  <2>4. met' \in [Attempts -> SUBSET Attempts]
    BY <1>3 DEF set_expected_host_key, Overlap, Meets, HostKeysTypeOK
  <2> QED
    BY <1>3, <2>1, <2>3, <2>4 DEF set_expected_host_key, HostKeysTypeOK
<1>4. ASSUME NEW a \in Attempts, check_server_key(a) PROVE HostKeysTypeOK'
  <2> DEFINE key == hostKey[HostOf[a]]
  <2>1. stage' \in [Attempts -> Stages]
    BY <1>4, MoveType DEF check_server_key, Awaited, Stages, Final
  <2>2. key \in Keys /\ key \in MaybeKey /\ HostOf[a] \in Hosts
    BY DEF HostKeysTypeOK, MaybeKey
  <2>3. presented' \in [Attempts -> MaybeKey] /\ accepted' \in [Isolates -> MaybeKey]
    BY <1>4, <2>2 DEF check_server_key, HostKeysTypeOK
  <2>4. approved' \subseteq Hosts \X Keys
    BY <1>4, <2>2 DEF check_server_key, HostKeysTypeOK
  <2> QED
    BY <1>4, <2>1, <2>3, <2>4 DEF check_server_key, HostKeysTypeOK
<1>5. ASSUME NEW a \in Attempts, ConnectFails(a) PROVE HostKeysTypeOK'
  BY <1>5, MoveType DEF ConnectFails, HostKeysTypeOK, Stages, Final
<1>6. ASSUME NEW a \in Attempts, take_accepted_host_key(a) PROVE HostKeysTypeOK'
  <2>1. stage' \in [Attempts -> Stages]
    BY <1>6, MoveType DEF take_accepted_host_key, Stages
  <2>2. reply' \in [Attempts -> MaybeKey] /\ accepted' \in [Isolates -> MaybeKey]
    BY <1>6 DEF take_accepted_host_key, HostKeysTypeOK, MaybeKey
  <2> QED
    BY <1>6, <2>1, <2>2 DEF take_accepted_host_key, HostKeysTypeOK
<1>7. ASSUME NEW a \in Attempts, PersistHostKey(a) PROVE HostKeysTypeOK'
  <2>1. stage' \in [Attempts -> Stages]
    BY <1>7, MoveType DEF PersistHostKey, Stages, Final
  <2>2. known' \in [Hosts -> MaybeKey]
    BY <1>7 DEF PersistHostKey, HostKeysTypeOK
  <2> QED
    BY <1>7, <2>1, <2>2 DEF PersistHostKey, HostKeysTypeOK
<1>8. ASSUME NEW a \in Attempts, handleHostKeyConfirm(a) PROVE HostKeysTypeOK'
  <2>1. stage' \in [Attempts -> Stages]
    BY <1>8, MoveType DEF handleHostKeyConfirm, Stages, Final
  <2>2. HostOf[a] \in Hosts /\ (reply[a] # NoKey => reply[a] \in Keys)
    BY DEF HostKeysTypeOK, MaybeKey
  <2>3. approved' \subseteq Hosts \X Keys
    BY <1>8, <2>2 DEF handleHostKeyConfirm, HostKeysTypeOK
  <2> QED
    BY <1>8, <2>1, <2>3 DEF handleHostKeyConfirm, HostKeysTypeOK
<1>9. ASSUME NEW a \in Attempts, AcceptGet(a) PROVE HostKeysTypeOK'
  BY <1>9, MoveType DEF AcceptGet, HostKeysTypeOK, Stages
<1>10. ASSUME NEW a \in Attempts, AcceptPut(a) PROVE HostKeysTypeOK'
  BY <1>10, MoveType DEF AcceptPut, HostKeysTypeOK, Stages, Final
<1>11. ASSUME UNCHANGED hostKeysVars PROVE HostKeysTypeOK'
  BY <1>11 DEF hostKeysVars, HostKeysTypeOK
<1> QED
  BY <1>1, <1>2, <1>3, <1>4, <1>5, <1>6, <1>7, <1>8, <1>9, <1>10, <1>11 DEF HostKeysNext, Step

-----------------------------------------------------------------------------
(* The verdict *)

LEMMA InitVerdict == HostKeysInit => VerdictInv
<1> SUFFICES ASSUME HostKeysInit PROVE VerdictInv
  OBVIOUS
<1>1. \A a \in Attempts : stage[a] = "idle" /\ met[a] = {a} /\ presented[a] = NoKey
  BY DEF HostKeysInit
<1>2. Acquainted
  BY <1>1 DEF Acquainted, InHandshake
<1>3. \A a \in Attempts : AttemptInv(a)
  BY <1>1 DEF AttemptInv, Unchecked, Connected, HasAnswer
<1> QED
  BY <1>2, <1>3, InitTypeOK DEF VerdictInv

(* A step of a that leaves the thread-locals and who met whom alone, and     *)
(* changes only its own records, keeps what is known of the others.          *)
Others(a) ==
  \A b \in Attempts \ {a} :
    /\ stage'[b] = stage[b] /\ accept'[b] = accept[b] /\ snap'[b] = snap[b]
    /\ reply'[b] = reply[b] /\ presented'[b] = presented[b]

LEMMA LocalsKept ==
  ASSUME VerdictInv, NEW a \in Attempts, Others(a),
         UNCHANGED <<isolateOf, expected, accepted, met, presented>>,
         stage[a] \in {"idle", "connect"} \/ UNCHANGED <<accept, snap>>
  PROVE  \A b \in Attempts \ {a} : AttemptInv(b)'
<1> SUFFICES ASSUME NEW b \in Attempts \ {a} PROVE AttemptInv(b)'
  OBVIOUS
<1>1. AttemptInv(b) /\ met[b] \subseteq Attempts
  BY DEF VerdictInv, HostKeysTypeOK
<1>2. \A c \in met[b] : expectedHostKey(c)' = expectedHostKey(c)
  <2>1. ASSUME NEW c \in met[b], c # a PROVE expectedHostKey(c)' = expectedHostKey(c)
    BY <1>1, <2>1 DEF Others, expectedHostKey
  <2>2. CASE a \in met[b]
    <3>1. stage[a] \notin {"idle", "connect"}
      BY <2>2 DEF VerdictInv, Acquainted
    <3>2. UNCHANGED <<accept, snap>>
      BY <3>1
    <3> QED
      BY <3>2 DEF expectedHostKey
  <2> QED
    BY <2>1, <2>2
<1>3. /\ stage'[b] = stage[b] /\ reply'[b] = reply[b]
      /\ UNCHANGED <<isolateOf, expected, accepted, met, presented>>
  BY DEF Others
<1> QED
  BY <1>1, <1>2, <1>3 DEF AttemptInv, Unchecked, Connected, HasAnswer, OneAcceptedBy

(* Attempts that leave their handshake, or stay in it, are still acquainted. *)
LEMMA StillAcquainted ==
  ASSUME HostKeysTypeOK, Acquainted, NEW a \in Attempts, NEW s,
         Moves(a, s), UNCHANGED <<isolateOf, met>>,
         s \in {"handshake", "timedOut", "checked"} => InHandshake(a),
         s \in {"idle", "connect"} => stage[a] \in {"idle", "connect"}
  PROVE  Acquainted'
<1>1. /\ stage'[a] = s /\ \A b \in Attempts \ {a} : stage'[b] = stage[b]
  BY DEF Moves, HostKeysTypeOK
<1>2. \A b \in Attempts : InHandshake(b)' => InHandshake(b)
  BY <1>1 DEF InHandshake
<1>3. \A b \in Attempts :
        stage'[b] \in {"idle", "connect"} => stage[b] \in {"idle", "connect"}
  BY <1>1
<1> QED
  BY <1>2, <1>3 DEF Acquainted

(* set_expected_host_key(a): whoever is in its handshake in the isolate has  *)
(* now met a, whose expectation they may be held to.                         *)
LEMMA StepSet ==
  ASSUME VerdictInv, HostKeysTypeOK', NEW a \in Attempts, set_expected_host_key(a)
  PROVE  VerdictInv'
<1>1. HostKeysTypeOK /\ Acquainted /\ \A b \in Attempts : AttemptInv(b)
  BY DEF VerdictInv
<1>2. /\ stage[a] = "connect" /\ stage'[a] = "handshake"
      /\ \A b \in Attempts \ {a} : stage'[b] = stage[b]
      /\ UNCHANGED <<isolateOf, accepted, accept, snap, reply, presented>>
  BY <1>1 DEF set_expected_host_key, Moves, HostKeysTypeOK
<1>3. isolateOf[a] \in Isolates /\ \A b \in Attempts : isolateOf[b] \in Isolates
  BY <1>1, HostKeysAssumption DEF HostKeysTypeOK
<1>4. /\ expected'[isolateOf[a]] = expectedHostKey(a)
      /\ \A b \in Attempts : isolateOf[b] # isolateOf[a] =>
           expected'[isolateOf[b]] = expected[isolateOf[b]]
  BY <1>1, <1>3 DEF set_expected_host_key, HostKeysTypeOK
<1>5. /\ met'[a] = met[a] \cup Meets(a)
      /\ \A b \in Attempts \ {a} :
           met'[b] = IF b \in Meets(a) THEN met[b] \cup {a} ELSE met[b]
  BY DEF set_expected_host_key, Overlap
<1>6. \A b \in Attempts : met[b] \subseteq met'[b] /\ met'[b] \subseteq Attempts /\ b \in met[b]
  BY <1>1, <1>5 DEF Acquainted, HostKeysTypeOK, Meets
<1>7. Acquainted'
  <2>1. \A b \in Attempts : b \in met'[b]
    BY <1>6
  <2>2. ASSUME NEW b \in Attempts, NEW c \in Attempts, InHandshake(b)', InHandshake(c)',
               isolateOf'[b] = isolateOf'[c]
        PROVE  c \in met'[b]
    <3>1. CASE b = c
      BY <2>1, <3>1
    <3>2. CASE b = a /\ c # a
      BY <1>2, <1>5, <2>2, <3>2 DEF Meets, InHandshake
    <3>3. CASE b # a /\ c = a
      BY <1>2, <1>5, <2>2, <3>3 DEF Meets, InHandshake
    <3>4. CASE b # a /\ c # a
      BY <1>1, <1>2, <1>6, <2>2, <3>4 DEF Acquainted, InHandshake
    <3> QED
      BY <3>1, <3>2, <3>3, <3>4
  <2>3. ASSUME NEW b \in Attempts, NEW c \in Attempts, c \in met'[b], c # b
        PROVE  stage'[c] \notin {"idle", "connect"}
    <3>1. CASE c = a
      BY <1>2, <3>1
    <3>2. CASE c # a /\ c \in met[b]
      BY <1>1, <1>2, <2>3, <3>2 DEF Acquainted
    <3>3. CASE c # a /\ c \notin met[b]
      <4>1. b = a /\ c \in Meets(a)
        BY <1>5, <2>3, <3>3
      <4>2. InHandshake(c)
        BY <4>1 DEF Meets
      <4>3. stage'[c] = stage[c]
        BY <1>2, <3>3
      <4> QED
        BY <4>2, <4>3 DEF InHandshake
    <3> QED
      BY <3>1, <3>2, <3>3
  <2> QED
    BY <2>1, <2>2, <2>3 DEF Acquainted
<1>8. \A b \in Attempts : expectedHostKey(b)' = expectedHostKey(b)
  BY <1>2 DEF expectedHostKey
<1>9. ASSUME NEW b \in Attempts, NEW key, OneAcceptedBy(b, key)
      PROVE  IF key = NoKey THEN met'[b] # {b} ELSE \E c \in met'[b] : key = presented'[c]
  BY <1>2, <1>6, <1>9 DEF OneAcceptedBy
<1>10. ASSUME NEW b \in Attempts PROVE AttemptInv(b)'
  <2>1. AttemptInv(b)
    BY <1>1
  <2>2. Unchecked(b)' => presented'[b] = NoKey
    BY <1>2, <2>1 DEF AttemptInv, Unchecked
  <2>3. stage'[b] \in {"handshake", "timedOut"} =>
          \E c \in met'[b] : expected'[isolateOf'[b]] = expectedHostKey(c)'
    <3>1. CASE isolateOf[b] = isolateOf[a]
      <4>1. stage'[b] \in {"handshake", "timedOut"} => a \in met'[b]
        BY <1>2, <1>5, <1>6, <3>1 DEF Meets, InHandshake
      <4> QED
        BY <1>2, <1>4, <1>8, <3>1, <4>1
    <3>2. CASE isolateOf[b] # isolateOf[a]
      <4>1. b # a
        BY <3>2
      <4> QED
        BY <1>2, <1>4, <1>6, <1>8, <2>1, <3>2, <4>1 DEF AttemptInv
    <3> QED
      BY <3>1, <3>2
  <2>4. stage'[b] = "checked" =>
          IF accepted'[isolateOf'[b]] = NoKey THEN met'[b] # {b}
          ELSE \E c \in met'[b] : accepted'[isolateOf'[b]] = presented'[c]
    BY <1>2, <1>9, <2>1 DEF AttemptInv
  <2>5. Connected(b)' =>
          \E c \in met'[b] : expectedHostKey(c)' \in {NoKey, presented'[b]}
    BY <1>2, <1>6, <1>8, <2>1 DEF AttemptInv, Connected
  <2>6. stage'[b] = "mismatch" =>
          \E c \in met'[b] : expectedHostKey(c)' \notin {NoKey, presented'[b]}
    BY <1>2, <1>6, <1>8, <2>1 DEF AttemptInv
  <2>7. HasAnswer(b)' =>
          IF reply'[b] = NoKey THEN met'[b] # {b}
          ELSE \E c \in met'[b] : reply'[b] = presented'[c]
    BY <1>2, <1>9, <2>1 DEF AttemptInv, HasAnswer
  <2> QED
    BY <2>2, <2>3, <2>4, <2>5, <2>6, <2>7 DEF AttemptInv, OneAcceptedBy
<1> QED
  BY <1>7, <1>10 DEF VerdictInv

(* check_server_key(a): the key it accepts is one that everybody who is to   *)
(* take it has met.                                                          *)
LEMMA StepCheck ==
  ASSUME VerdictInv, HostKeysTypeOK', NEW a \in Attempts, check_server_key(a)
  PROVE  VerdictInv'
<1> DEFINE i == isolateOf[a]
           key == hostKey[HostOf[a]]
<1>1. HostKeysTypeOK /\ Acquainted /\ \A b \in Attempts : AttemptInv(b)
  BY DEF VerdictInv
<1>2. /\ stage[a] \in {"handshake", "timedOut"}
      /\ presented'[a] = key /\ \A b \in Attempts \ {a} : presented'[b] = presented[b]
      /\ \A b \in Attempts \ {a} : stage'[b] = stage[b]
      /\ UNCHANGED <<isolateOf, expected, accept, snap, reply, met>>
  BY <1>1 DEF check_server_key, Moves, HostKeysTypeOK
<1>3. key \in Keys /\ key # NoKey /\ i \in Isolates /\ \A b \in Attempts : isolateOf[b] \in Isolates
  BY <1>1, HostKeysAssumption DEF HostKeysTypeOK
<1>4. /\ presented[a] = NoKey
      /\ \E b \in met[a] : expected[i] = expectedHostKey(b)
  BY <1>1, <1>2 DEF AttemptInv, Unchecked
<1>5. \/ /\ expected[i] \in {NoKey, key} /\ stage'[a] \in {"checked", "failed"}
         /\ accepted'[i] = key
         /\ \A b \in Attempts : isolateOf[b] # i => accepted'[isolateOf[b]] = accepted[isolateOf[b]]
      \/ /\ expected[i] \notin {NoKey, key} /\ stage'[a] \in {"mismatch", "failed"}
         /\ UNCHANGED accepted
  BY <1>1, <1>3 DEF check_server_key, Moves, Awaited, HostKeysTypeOK
<1>6. \A b \in Attempts : expectedHostKey(b)' = expectedHostKey(b) /\ met[b] \subseteq Attempts
  BY <1>1, <1>2 DEF expectedHostKey, HostKeysTypeOK
<1>7. Acquainted'
  <2>1. \E s \in {"checked", "failed", "mismatch"} : Moves(a, s)
    BY <1>1 DEF check_server_key, Awaited
  <2>2. InHandshake(a)
    BY <1>2 DEF InHandshake
  <2> QED
    BY <1>1, <1>2, <2>1, <2>2, StillAcquainted
<1>8. ASSUME NEW b \in Attempts, NEW k, OneAcceptedBy(b, k)
      PROVE  IF k = NoKey THEN met[b] # {b} ELSE \E c \in met[b] : k = presented'[c]
  <2>1. met[b] \subseteq Attempts
    BY <1>1 DEF HostKeysTypeOK
  <2> QED
    BY <1>2, <1>4, <1>8, <2>1 DEF OneAcceptedBy
<1>9. ASSUME NEW b \in Attempts, b # a PROVE AttemptInv(b)'
  <2>1. AttemptInv(b)
    BY <1>1
  <2>2. stage'[b] = "checked" =>
          IF accepted'[isolateOf'[b]] = NoKey THEN met'[b] # {b}
          ELSE \E c \in met'[b] : accepted'[isolateOf'[b]] = presented'[c]
    <3> SUFFICES ASSUME stage[b] = "checked"
                 PROVE  IF accepted'[isolateOf[b]] = NoKey THEN met[b] # {b}
                        ELSE \E c \in met[b] : accepted'[isolateOf[b]] = presented'[c]
      BY <1>2, <1>9
    <3>1. CASE accepted'[isolateOf[b]] = accepted[isolateOf[b]]
      BY <1>8, <2>1, <3>1 DEF AttemptInv
    <3>2. CASE accepted'[isolateOf[b]] # accepted[isolateOf[b]]
      <4>1. isolateOf[b] = i /\ accepted'[i] = key
        BY <1>5, <3>2
      <4>2. a \in met[b]
        BY <1>1, <1>2, <4>1 DEF Acquainted, InHandshake
      <4> QED
        BY <1>2, <1>3, <4>1, <4>2
    <3> QED
      BY <3>1, <3>2
  <2>3. HasAnswer(b)' =>
          IF reply'[b] = NoKey THEN met'[b] # {b}
          ELSE \E c \in met'[b] : reply'[b] = presented'[c]
    BY <1>2, <1>8, <1>9, <2>1 DEF AttemptInv, HasAnswer
  <2> QED
    BY <1>2, <1>6, <1>9, <2>1, <2>2, <2>3
       DEF AttemptInv, Unchecked, Connected, OneAcceptedBy
<1>10. AttemptInv(a)'
  <2>0. a \in met[a]
    BY <1>1 DEF Acquainted
  <2>1. stage'[a] \in {"checked", "failed", "mismatch"}
    BY <1>5
  <2>2. Connected(a)' => expected[i] \in {NoKey, key} /\ accepted'[i] = key
    BY <1>5 DEF Connected
  <2>3. stage'[a] = "mismatch" => expected[i] \notin {NoKey, key}
    BY <1>5
  <2>4. stage'[a] = "checked" => Connected(a)'
    BY DEF Connected
  <2>5. stage'[a] = "checked" =>
          IF accepted'[isolateOf'[a]] = NoKey THEN met'[a] # {a}
          ELSE \E c \in met'[a] : accepted'[isolateOf'[a]] = presented'[c]
    BY <1>2, <1>3, <2>0, <2>2, <2>4
  <2>6. Connected(a)' =>
          \E c \in met'[a] : expectedHostKey(c)' \in {NoKey, presented'[a]}
    BY <1>2, <1>4, <1>6, <2>2
  <2>7. stage'[a] = "mismatch" =>
          \E c \in met'[a] : expectedHostKey(c)' \notin {NoKey, presented'[a]}
    BY <1>2, <1>4, <1>6, <2>3
  <2> QED
    BY <2>1, <2>5, <2>6, <2>7 DEF AttemptInv, Unchecked, HasAnswer, OneAcceptedBy
<1> QED
  BY <1>7, <1>9, <1>10 DEF VerdictInv

(* take_accepted_host_key(a): whoever finds nothing has met the taker. *)
LEMMA StepTake ==
  ASSUME VerdictInv, HostKeysTypeOK', NEW a \in Attempts, take_accepted_host_key(a)
  PROVE  VerdictInv'
<1> DEFINE i == isolateOf[a]
<1>1. HostKeysTypeOK /\ Acquainted /\ \A b \in Attempts : AttemptInv(b)
  BY DEF VerdictInv
<1>2. /\ stage[a] = "checked" /\ stage'[a] = "connected" /\ Moves(a, "connected")
      /\ \A b \in Attempts \ {a} : stage'[b] = stage[b] /\ reply'[b] = reply[b]
      /\ reply'[a] = accepted[i]
      /\ UNCHANGED <<isolateOf, expected, accept, snap, presented, met>>
  BY <1>1 DEF take_accepted_host_key, Moves, HostKeysTypeOK
<1>3. i \in Isolates /\ \A b \in Attempts : isolateOf[b] \in Isolates
  BY <1>1, HostKeysAssumption DEF HostKeysTypeOK
<1>4. /\ accepted'[i] = NoKey
      /\ \A b \in Attempts : isolateOf[b] # i => accepted'[isolateOf[b]] = accepted[isolateOf[b]]
  BY <1>1, <1>3 DEF take_accepted_host_key, HostKeysTypeOK
<1>5. \A b \in Attempts : expectedHostKey(b)' = expectedHostKey(b) /\ met[b] \subseteq Attempts
  BY <1>1, <1>2 DEF expectedHostKey, HostKeysTypeOK
<1>6. Acquainted'
  BY <1>1, <1>2, StillAcquainted
<1>7. ASSUME NEW b \in Attempts, b # a PROVE AttemptInv(b)'
  <2>1. AttemptInv(b)
    BY <1>1
  <2>2. stage'[b] = "checked" =>
          IF accepted'[isolateOf'[b]] = NoKey THEN met'[b] # {b}
          ELSE \E c \in met'[b] : accepted'[isolateOf'[b]] = presented'[c]
    <3>1. CASE isolateOf[b] # i
      BY <1>2, <1>4, <1>7, <2>1, <3>1 DEF AttemptInv, OneAcceptedBy
    <3>2. CASE isolateOf[b] = i
      <4>1. stage[b] = "checked" => a \in met[b]
        BY <1>1, <1>2, <3>2 DEF Acquainted, InHandshake
      <4> QED
        BY <1>2, <1>4, <1>7, <3>2, <4>1
    <3> QED
      BY <3>1, <3>2
  <2> QED
    BY <1>2, <1>5, <1>7, <2>1, <2>2
       DEF AttemptInv, Unchecked, Connected, HasAnswer, OneAcceptedBy
<1>8. AttemptInv(a)'
  <2>1. AttemptInv(a)
    BY <1>1
  <2>2. IF reply'[a] = NoKey THEN met'[a] # {a} ELSE \E c \in met'[a] : reply'[a] = presented'[c]
    BY <1>2, <2>1 DEF AttemptInv, OneAcceptedBy
  <2> QED
    BY <1>2, <1>5, <2>1, <2>2 DEF AttemptInv, Unchecked, Connected, HasAnswer, OneAcceptedBy
<1> QED
  BY <1>6, <1>7, <1>8 DEF VerdictInv

(* The routes move an attempt on without touching the thread-locals. *)
LEMMA StepRoute ==
  ASSUME VerdictInv, HostKeysTypeOK', NEW a \in Attempts,
         \/ CreateSession(a) \/ ConnectFails(a) \/ PersistHostKey(a)
         \/ handleHostKeyConfirm(a) \/ AcceptGet(a) \/ AcceptPut(a)
  PROVE  VerdictInv'
<1>1. HostKeysTypeOK /\ Acquainted /\ AttemptInv(a)
  BY DEF VerdictInv
<1>2. UNCHANGED <<isolateOf, expected, accepted, met, presented>>
  BY DEF CreateSession, ConnectFails, PersistHostKey, handleHostKeyConfirm, AcceptGet, AcceptPut
<1>3. CASE CreateSession(a)
  <2>1. Others(a) /\ stage[a] = "idle" /\ Moves(a, "connect") /\ stage'[a] = "connect"
    BY <1>1, <1>3 DEF CreateSession, Others, Moves, HostKeysTypeOK
  <2>2. \A b \in Attempts \ {a} : AttemptInv(b)'
    BY <1>2, <2>1, LocalsKept
  <2>3. Acquainted'
    BY <1>1, <1>2, <2>1, StillAcquainted
  <2>4. AttemptInv(a)'
    BY <1>1, <1>2, <2>1 DEF AttemptInv, Unchecked, Connected, HasAnswer
  <2> QED
    BY <2>2, <2>3, <2>4 DEF VerdictInv
<1>4. CASE ~CreateSession(a)
  <2>1. /\ UNCHANGED <<accept, snap, reply>>
        /\ \E s \in Final \cup {"confirm", "timedOut", "acceptGet", "acceptPut"} :
             Moves(a, s) /\ s # "idle"
        /\ stage[a] \notin {"idle"}
    BY <1>4 DEF ConnectFails, PersistHostKey, handleHostKeyConfirm, AcceptGet, AcceptPut, Final
  <2>2. PICK s \in Final \cup {"confirm", "timedOut", "acceptGet", "acceptPut"} :
          Moves(a, s) /\ s # "idle"
    BY <2>1
  <2>3. stage'[a] = s /\ Others(a)
    BY <1>1, <1>2, <2>1, <2>2 DEF Others, Moves, HostKeysTypeOK
  <2>4. \A b \in Attempts \ {a} : AttemptInv(b)'
    BY <1>2, <2>1, <2>3, LocalsKept
  <2>5. /\ s = "timedOut" => stage[a] = "handshake"
        /\ s # "mismatch"
        /\ s \in {"confirm", "acceptGet", "acceptPut", "done", "rejected"} =>
             stage[a] \in {"connected", "confirm", "acceptGet", "acceptPut"}
    BY <1>1, <1>4, <2>3 DEF ConnectFails, PersistHostKey, handleHostKeyConfirm, AcceptGet,
                            AcceptPut, Moves, HostKeysTypeOK
  <2>6. Acquainted'
    <3>1. s \in {"handshake", "timedOut", "checked"} => InHandshake(a)
      BY <2>2, <2>5 DEF InHandshake, Final
    <3>2. s \notin {"idle", "connect"}
      BY <2>2 DEF Final
    <3> QED
      BY <1>1, <1>2, <2>2, <3>1, <3>2, StillAcquainted
  <2>7. \A b \in Attempts : expectedHostKey(b)' = expectedHostKey(b) /\ met[b] \subseteq Attempts
    BY <1>1, <2>1 DEF expectedHostKey, HostKeysTypeOK
  <2>8. AttemptInv(a)'
    BY <1>1, <1>2, <2>1, <2>2, <2>3, <2>5, <2>7
       DEF AttemptInv, Unchecked, Connected, HasAnswer, OneAcceptedBy, Final
  <2> QED
    BY <2>4, <2>6, <2>8 DEF VerdictInv
<1> QED
  BY <1>3, <1>4

LEMMA StepVerdict == VerdictInv /\ [HostKeysNext]_hostKeysVars => VerdictInv'
<1> SUFFICES ASSUME VerdictInv, [HostKeysNext]_hostKeysVars PROVE VerdictInv'
  OBVIOUS
<1>1. HostKeysTypeOK /\ HostKeysTypeOK' /\ Acquainted /\ \A a \in Attempts : AttemptInv(a)
  BY StepTypeOK DEF VerdictInv
<1>2. ASSUME UNCHANGED <<isolateOf, expected, accepted, stage, accept, snap, reply, met, presented>>
      PROVE  VerdictInv'
  <2>1. Acquainted'
    BY <1>1, <1>2 DEF Acquainted, InHandshake
  <2>2. \A a \in Attempts : expectedHostKey(a)' = expectedHostKey(a)
    BY <1>2 DEF expectedHostKey
  <2>3. ASSUME NEW a \in Attempts PROVE AttemptInv(a)'
    <3>1. AttemptInv(a) /\ met[a] \subseteq Attempts
      BY <1>1 DEF HostKeysTypeOK
    <3> QED
      BY <1>2, <2>2, <3>1 DEF AttemptInv, Unchecked, Connected, HasAnswer, OneAcceptedBy
  <2> QED
    BY <1>1, <2>1, <2>3 DEF VerdictInv
<1>3. ASSUME NEW h \in Hosts, ServerKeyChanges(h) PROVE VerdictInv'
  BY <1>2, <1>3 DEF ServerKeyChanges
<1>4. ASSUME NEW a \in Attempts, Step(a) PROVE VerdictInv'
  BY <1>1, <1>4, StepSet, StepCheck, StepTake, StepRoute DEF Step
<1>5. ASSUME UNCHANGED hostKeysVars PROVE VerdictInv'
  BY <1>2, <1>5 DEF hostKeysVars
<1> QED
  BY <1>3, <1>4, <1>5 DEF HostKeysNext

(* Whatever hosts, attempts and isolates there are, and however many         *)
(* attempts share an isolate at a time, the key check of an attempt is made  *)
(* against its own expectation and answered with the key its own server      *)
(* presented (check_server_key and take_accepted_host_key), or with those of *)
(* an attempt whose handshake overlapped its own in the isolate.             *)
THEOREM VerdictCorrect == HostKeysSpec => []VerdictIsTrue
<1>1. VerdictInv => VerdictIsTrue
  BY DEF VerdictInv, VerdictIsTrue, AttemptInv, OneAcceptedBy, OnlyExpectedKey, MismatchIsReal,
         ReplyIsPresented
<1>2. VerdictInv /\ [HostKeysNext]_hostKeysVars => VerdictInv'
  BY StepVerdict
<1> QED
  BY <1>1, <1>2, InitVerdict, PTL DEF HostKeysSpec

-----------------------------------------------------------------------------
(* The known_hosts document *)

Fine(h, k) == <<h, k>> \in approved \/ Mixed(h, k)

Agreed(doc) == \A h \in Hosts : doc[h] # NoKey => Fine(h, doc[h])

(* Not only the document but every copy of it that a route has read and may  *)
(* write back holds such keys only, and so does what it will put there.      *)
ApprovedInv ==
  /\ Agreed(known)
  /\ \A a \in Attempts :
       /\ Agreed(snap[a]) /\ Agreed(copy[a])
       /\ ~HasAnswer(a) => reply[a] = NoKey
       /\ stage[a] \in {"checked", "connected"} /\ accept[a] =>
            <<HostOf[a], presented[a]>> \in approved
       /\ stage[a] \in {"acceptGet", "acceptPut"} => <<HostOf[a], reply[a]>> \in approved

LEMMA InitApproved == HostKeysInit => ApprovedInv
<1> SUFFICES ASSUME HostKeysInit PROVE ApprovedInv
  OBVIOUS
<1>1. \A h \in Hosts : known[h] = NoKey
  BY DEF HostKeysInit
<1>2. \A a \in Attempts :
        snap[a] = known /\ copy[a] = known /\ stage[a] = "idle" /\ reply[a] = NoKey
  BY DEF HostKeysInit
<1> QED
  BY <1>1, <1>2 DEF ApprovedInv, Agreed

(* Nothing that a key is stored for is taken back: approvals and meetings    *)
(* only grow, and an answer stays what it is.                                *)
LEMMA FineStays ==
  ASSUME VerdictInv, ApprovedInv, approved \subseteq approved',
         \A a \in Attempts : met[a] \subseteq met'[a],
         \A a \in Attempts : reply[a] # NoKey => reply'[a] = reply[a]
  PROVE  \A h \in Hosts, k \in MaybeKey : k # NoKey /\ Fine(h, k) => Fine(h, k)'
<1>1. \A a \in Attempts : a \in met[a]
  BY DEF VerdictInv, Acquainted
<1> SUFFICES ASSUME NEW h \in Hosts, NEW k \in MaybeKey, k # NoKey, Fine(h, k)
             PROVE  Fine(h, k)'
  OBVIOUS
<1>2. CASE Mixed(h, k)
  <2>1. PICK a \in Attempts : HostOf[a] = h /\ met[a] # {a} /\ reply[a] = k
    BY <1>2 DEF Mixed
  <2>2. met'[a] # {a} /\ reply'[a] = k
    BY <1>1, <2>1
  <2> QED
    BY <2>1, <2>2 DEF Fine, Mixed
<1>3. CASE <<h, k>> \in approved
  BY <1>3 DEF Fine
<1> QED
  BY <1>2, <1>3 DEF Fine

(* A document of keys that are fine stays one. *)
LEMMA AgreedStays ==
  ASSUME \A h \in Hosts, k \in MaybeKey : k # NoKey /\ Fine(h, k) => Fine(h, k)',
         NEW doc \in [Hosts -> MaybeKey], Agreed(doc)
  PROVE  \A h \in Hosts : doc[h] # NoKey => Fine(h, doc[h])'
BY DEF Agreed

LEMMA StepApproved ==
  ASSUME VerdictInv, HostKeysTypeOK', ApprovedInv, [HostKeysNext]_hostKeysVars
  PROVE  ApprovedInv'
<1> USE HostKeysAssumption
<1>1. HostKeysTypeOK /\ \A a \in Attempts : AttemptInv(a) /\ HostOf[a] \in Hosts
  BY DEF VerdictInv
(* It is enough to say what becomes of the documents and of the attempt that *)
(* moves.                                                                    *)
<1>2. ASSUME NEW a \in Attempts, approved \subseteq approved',
             \A b \in Attempts : met[b] \subseteq met'[b],
             \A b \in Attempts : reply[b] # NoKey => reply'[b] = reply[b],
             \A b \in Attempts \ {a} :
               /\ stage'[b] = stage[b] /\ accept'[b] = accept[b] /\ reply'[b] = reply[b]
               /\ presented'[b] = presented[b]
               /\ snap'[b] = snap[b] /\ copy'[b] = copy[b],
             known' \in {known, snap[a], copy[a]} \/ Agreed(known)',
             snap'[a] \in {known, snap[a]}, copy'[a] \in {known, copy[a]},
             ~HasAnswer(a)' => reply'[a] = NoKey,
             stage'[a] \in {"checked", "connected"} /\ accept'[a] =>
               <<HostOf[a], presented'[a]>> \in approved',
             stage'[a] \in {"acceptGet", "acceptPut"} => <<HostOf[a], reply'[a]>> \in approved'
      PROVE  ApprovedInv'
  <2>1. \A h \in Hosts, k \in MaybeKey : k # NoKey /\ Fine(h, k) => Fine(h, k)'
    BY <1>2, FineStays
  <2>2. /\ known \in [Hosts -> MaybeKey]
        /\ \A b \in Attempts :
             /\ snap[b] \in [Hosts -> MaybeKey] /\ copy[b] \in [Hosts -> MaybeKey]
             /\ Agreed(snap[b]) /\ Agreed(copy[b])
        /\ Agreed(known)
    BY <1>1 DEF HostKeysTypeOK, ApprovedInv
  <2>3. \A doc \in [Hosts -> MaybeKey] : Agreed(doc) =>
          \A h \in Hosts : doc[h] # NoKey => Fine(h, doc[h])'
    BY <2>1, AgreedStays
  <2>4. Agreed(known)'
    BY <1>2, <2>2, <2>3 DEF Agreed
  <2>5. \A b \in Attempts : Agreed(snap[b])' /\ Agreed(copy[b])'
    <3>1. \A b \in Attempts : snap'[b] \in {known, snap[b]} /\ copy'[b] \in {known, copy[b]}
      BY <1>2
    <3> QED
      BY <2>2, <2>3, <3>1 DEF Agreed
  <2>6. \A b \in Attempts \ {a} :
          /\ ~HasAnswer(b)' => reply'[b] = NoKey
          /\ stage'[b] \in {"checked", "connected"} /\ accept'[b] =>
               <<HostOf[b], presented'[b]>> \in approved'
          /\ stage'[b] \in {"acceptGet", "acceptPut"} => <<HostOf[b], reply'[b]>> \in approved'
    BY <1>2 DEF ApprovedInv, HasAnswer
  <2> QED
    BY <1>2, <2>4, <2>5, <2>6 DEF ApprovedInv
<1>3. ASSUME UNCHANGED <<approved, met, reply, stage, accept, presented, snap, copy, known>>
      PROVE  ApprovedInv'
  BY <1>3 DEF ApprovedInv, Agreed, Fine, Mixed, HasAnswer
<1>4. ASSUME NEW h \in Hosts, ServerKeyChanges(h) PROVE ApprovedInv'
  BY <1>3, <1>4 DEF ServerKeyChanges
<1>5. ASSUME NEW a \in Attempts, CreateSession(a) PROVE ApprovedInv'
  <2> USE DEF CreateSession, Moves, HasAnswer, HostKeysTypeOK
  <2>1. ~HasAnswer(a) /\ stage'[a] = "connect"
    BY <1>1, <1>5
  <2>2. \A b \in Attempts \ {a} :
               /\ stage'[b] = stage[b] /\ accept'[b] = accept[b] /\ reply'[b] = reply[b]
               /\ presented'[b] = presented[b]
               /\ snap'[b] = snap[b] /\ copy'[b] = copy[b]
    BY <1>1, <1>5
  <2>3. snap'[a] = known /\ UNCHANGED <<approved, met, reply, known, copy>>
    BY <1>1, <1>5
  <2> QED
    BY <1>2, <2>1, <2>2, <2>3 DEF ApprovedInv
<1>6. ASSUME NEW a \in Attempts, set_expected_host_key(a) PROVE ApprovedInv'
  <2>1. \A b \in Attempts : met[b] \subseteq met'[b]
    BY <1>6 DEF set_expected_host_key, Overlap
  <2>2. /\ stage[a] = "connect" /\ stage'[a] = "handshake"
        /\ \A b \in Attempts \ {a} : stage'[b] = stage[b]
    BY <1>1, <1>6 DEF set_expected_host_key, Moves, HostKeysTypeOK
  <2>3. UNCHANGED <<approved, reply, known, copy, snap, accept, presented>>
    BY <1>6 DEF set_expected_host_key
  <2> QED
    BY <1>2, <2>1, <2>2, <2>3 DEF ApprovedInv, HasAnswer
<1>7. ASSUME NEW a \in Attempts, check_server_key(a) PROVE ApprovedInv'
  <2>1. approved \subseteq approved' /\ UNCHANGED <<known, snap, copy, accept, reply, met>>
    BY <1>7 DEF check_server_key
  <2>2. \A b \in Attempts \ {a} : stage'[b] = stage[b] /\ presented'[b] = presented[b]
    BY <1>1, <1>7 DEF check_server_key, Moves, HostKeysTypeOK
  <2>3. /\ stage[a] \in {"handshake", "timedOut"}
        /\ stage'[a] \in {"checked", "mismatch", "failed"}
        /\ presented'[a] = hostKey[HostOf[a]]
    BY <1>1, <1>7 DEF check_server_key, Awaited, Moves, HostKeysTypeOK
  <2>4. accept[a] => <<HostOf[a], presented'[a]>> \in approved'
    BY <1>7, <2>3 DEF check_server_key
  <2>5. ~HasAnswer(a)' => reply'[a] = NoKey
    BY <2>1, <2>3 DEF ApprovedInv, HasAnswer
  <2>6. stage'[a] \notin {"acceptGet", "acceptPut"}
    BY <2>3
  <2> QED
    BY <1>2, <2>1, <2>2, <2>4, <2>5, <2>6
<1>8. ASSUME NEW a \in Attempts, ConnectFails(a) PROVE ApprovedInv'
  <2>1. /\ ~HasAnswer(a) /\ stage'[a] \in {"failed", "timedOut"}
        /\ \A b \in Attempts \ {a} : stage'[b] = stage[b]
    BY <1>1, <1>8 DEF ConnectFails, Moves, HasAnswer, HostKeysTypeOK
  <2>2. UNCHANGED <<approved, met, reply, known, copy, snap, accept, presented>>
    BY <1>8 DEF ConnectFails
  <2> QED
    BY <1>2, <2>1, <2>2 DEF ApprovedInv
<1>9. ASSUME NEW a \in Attempts, take_accepted_host_key(a) PROVE ApprovedInv'
  <2>1. /\ stage[a] = "checked" /\ stage'[a] = "connected"
        /\ \A b \in Attempts \ {a} : stage'[b] = stage[b] /\ reply'[b] = reply[b]
    BY <1>1, <1>9 DEF take_accepted_host_key, Moves, HostKeysTypeOK
  <2>2. UNCHANGED <<approved, met, known, copy, snap, accept, presented>>
    BY <1>9 DEF take_accepted_host_key
  <2>3. reply[a] = NoKey /\ HasAnswer(a)'
    BY <2>1 DEF ApprovedInv, HasAnswer
  <2>4. accept[a] => <<HostOf[a], presented[a]>> \in approved
    BY <2>1 DEF ApprovedInv
  <2>5. \A b \in Attempts : reply[b] # NoKey => reply'[b] = reply[b]
    BY <2>1, <2>3
  <2> QED
    BY <1>2, <2>1, <2>2, <2>3, <2>4, <2>5
<1>10. ASSUME NEW a \in Attempts, PersistHostKey(a) PROVE ApprovedInv'
  <2>1. /\ stage[a] = "connected" /\ stage'[a] \in {"done", "confirm"}
        /\ \A b \in Attempts \ {a} : stage'[b] = stage[b]
    BY <1>1, <1>10 DEF PersistHostKey, Moves, HostKeysTypeOK
  <2>2. UNCHANGED <<approved, snap, copy, accept, reply, presented, met>>
    BY <1>10 DEF PersistHostKey
  <2>3. ASSUME reply[a] # NoKey, hostWasKnown(a) \/ accept[a]
        PROVE  Fine(HostOf[a], reply[a])
    <3>1. CASE met[a] # {a}
      BY <3>1 DEF Fine, Mixed
    <3>2. CASE met[a] = {a}
      <4>1. /\ reply[a] = presented[a]
            /\ expectedHostKey(a) \in {NoKey, presented[a]}
        BY <1>1, <2>1, <2>3, <3>2 DEF AttemptInv, OneAcceptedBy, HasAnswer, Connected
      <4>2. CASE accept[a]
        BY <2>1, <4>1, <4>2 DEF ApprovedInv, Fine
      <4>3. CASE hostWasKnown(a) /\ ~accept[a]
        <5>1. presented[a] = snap[a][HostOf[a]] /\ snap[a][HostOf[a]] # NoKey
          BY <4>1, <4>3 DEF expectedHostKey, hostWasKnown
        <5> QED
          BY <1>1, <4>1, <5>1 DEF ApprovedInv, Agreed
      <4> QED
        BY <2>3, <4>2, <4>3
    <3> QED
      BY <3>1, <3>2
  <2>4. Agreed(known)'
    <3>1. \A h \in Hosts, k \in MaybeKey : Fine(h, k)' <=> Fine(h, k)
      BY <2>2 DEF Fine, Mixed
    <3>2. Agreed(known')
      <4>1. \/ known' = known
            \/ /\ reply[a] # NoKey /\ (hostWasKnown(a) \/ accept[a])
               /\ known' = [snap[a] EXCEPT ![HostOf[a]] = reply[a]]
        BY <1>10 DEF PersistHostKey
      <4>2. snap[a] \in [Hosts -> MaybeKey] /\ Agreed(snap[a]) /\ Agreed(known)
        BY <1>1 DEF ApprovedInv, HostKeysTypeOK
      <4> QED
        BY <2>3, <4>1, <4>2 DEF Agreed
    <3>3. known' \in [Hosts -> MaybeKey]
      BY DEF HostKeysTypeOK
    <3> QED
      BY <3>1, <3>2, <3>3 DEF Agreed
  <2>5. HasAnswer(a)'
    BY <2>1 DEF HasAnswer
  <2> QED
    BY <1>2, <2>1, <2>2, <2>4, <2>5
<1>11. ASSUME NEW a \in Attempts, handleHostKeyConfirm(a) PROVE ApprovedInv'
  <2>1. approved \subseteq approved' /\ UNCHANGED <<known, snap, copy, accept, reply, met, presented>>
    BY <1>11 DEF handleHostKeyConfirm
  <2>2. stage[a] = "confirm" /\ \A b \in Attempts \ {a} : stage'[b] = stage[b]
    BY <1>1, <1>11 DEF handleHostKeyConfirm, Moves, HostKeysTypeOK
  <2>3. \/ stage'[a] \in {"done", "rejected"}
        \/ stage'[a] = "acceptGet" /\ <<HostOf[a], reply[a]>> \in approved'
    BY <1>1, <1>11 DEF handleHostKeyConfirm, Moves, HostKeysTypeOK
  <2>4. HasAnswer(a)' /\ stage'[a] \notin {"checked", "connected"}
    BY <2>3 DEF HasAnswer
  <2> QED
    BY <1>2, <2>1, <2>2, <2>3, <2>4
<1>12. ASSUME NEW a \in Attempts, AcceptGet(a) PROVE ApprovedInv'
  <2>1. /\ stage[a] = "acceptGet" /\ stage'[a] = "acceptPut" /\ copy'[a] = known
        /\ \A b \in Attempts \ {a} : stage'[b] = stage[b] /\ copy'[b] = copy[b]
    BY <1>1, <1>12 DEF AcceptGet, Moves, HostKeysTypeOK
  <2>2. UNCHANGED <<known, approved, snap, accept, reply, met, presented>>
    BY <1>12 DEF AcceptGet
  <2>3. HasAnswer(a)' /\ <<HostOf[a], reply[a]>> \in approved
    BY <2>1 DEF HasAnswer, ApprovedInv
  <2> QED
    BY <1>2, <2>1, <2>2, <2>3
<1>13. ASSUME NEW a \in Attempts, AcceptPut(a) PROVE ApprovedInv'
  <2>1. /\ stage[a] = "acceptPut" /\ stage'[a] = "done"
        /\ \A b \in Attempts \ {a} : stage'[b] = stage[b]
    BY <1>1, <1>13 DEF AcceptPut, Moves, HostKeysTypeOK
  <2>2. UNCHANGED <<approved, snap, copy, accept, reply, met, presented>>
    BY <1>13 DEF AcceptPut
  <2>3. HasAnswer(a)' /\ <<HostOf[a], reply[a]>> \in approved
    BY <2>1 DEF HasAnswer, ApprovedInv
  <2>4. Agreed(known)'
    <3>1. \A h \in Hosts, k \in MaybeKey : Fine(h, k)' <=> Fine(h, k)
      BY <2>2 DEF Fine, Mixed
    <3>2. Agreed(known')
      <4>1. known' = [copy[a] EXCEPT ![HostOf[a]] = reply[a]] /\ Fine(HostOf[a], reply[a])
        BY <1>13, <2>3 DEF AcceptPut, Fine
      <4>2. copy[a] \in [Hosts -> MaybeKey] /\ Agreed(copy[a])
        BY <1>1 DEF ApprovedInv, HostKeysTypeOK
      <4> QED
        BY <4>1, <4>2 DEF Agreed
    <3>3. known' \in [Hosts -> MaybeKey]
      BY DEF HostKeysTypeOK
    <3> QED
      BY <3>1, <3>2, <3>3 DEF Agreed
  <2> QED
    BY <1>2, <2>1, <2>2, <2>3, <2>4
<1>14. ASSUME UNCHANGED hostKeysVars PROVE ApprovedInv'
  BY <1>3, <1>14 DEF hostKeysVars
<1> QED
  BY <1>4, <1>5, <1>6, <1>7, <1>8, <1>9, <1>10, <1>11, <1>12, <1>13, <1>14 DEF HostKeysNext, Step

(* No key is stored for a host that the user has not agreed to for it,       *)
(* although routes write back whole documents they have read long before     *)
(* (PersistHostKey, AcceptPut), unless an attempt on that host answered with *)
(* it whose handshake overlapped another's in the isolate.                   *)
THEOREM StoredKeysApproved == HostKeysSpec => []KnownIsApproved
<1>1. HostKeysInit => VerdictInv /\ ApprovedInv
  BY InitVerdict, InitApproved
<1>2. (VerdictInv /\ ApprovedInv) /\ [HostKeysNext]_hostKeysVars => (VerdictInv /\ ApprovedInv)'
  BY StepVerdict, StepApproved DEF VerdictInv
<1>3. ApprovedInv => KnownIsApproved
  BY DEF ApprovedInv, Agreed, Fine, KnownIsApproved
<1> QED
  BY <1>1, <1>2, <1>3, PTL DEF HostKeysSpec
=============================================================================
