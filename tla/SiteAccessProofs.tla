-------------------------- MODULE SiteAccessProofs --------------------------
(***************************************************************************)
(* Theorems about SiteAccess, for any number of users, sites, devices,      *)
(* requests at a time, and changes during them.                             *)
(***************************************************************************)
EXTENDS SiteAccess, TLAPS

(* A request is a record with the fields of Idle. *)
Fields == {"pc", "user", "page", "super", "read", "several", "key", "grant", "save", "shown",
           "where", "fw", "done"}

Shaped(c) == c = [f \in Fields |-> c[f]]

ReqOK == req = [r \in Request |-> req[r]] /\ \A r \in Request : Shaped(req[r])

(* The history is about now: what the user may do now he may do during the   *)
(* request, and what he could do all through it he can do now.               *)
HistoryOK(r) ==
    req[r].pc # "idle" =>
        \A p \in Perm : /\ SitesWithPermission(req[r].user, p) \subseteq held[r][p]
                        /\ kept[r][p] \subseteq SitesWithPermission(req[r].user, p)

(* The membership the middleware found is one the user had during the        *)
(* request, and has all permissions he has kept.                             *)
GrantOK(r) ==
    LET c == req[r] IN
    c.pc # "idle" /\ ~c.super =>
        \A p \in Perm : /\ p \in c.grant => c.key \in held[r][p]
                        /\ c.key \in Site /\ c.key \in kept[r][p] => p \in c.grant

(* A POST that was permitted and is not answered yet *)
Posting == {"form", "firmware", "save"}

(* Nothing is shown before the reply, but for the device an update is for,   *)
(* and nothing done, and then by a page that checks a permission.            *)
FreshOK(r) ==
    LET c == req[r] IN
    /\ c.pc \in {"user", "sites", "site", "default"} => c.grant = {} /\ c.key = None
    /\ c.pc # "reply" => ~c.done
    /\ c.pc \notin {"firmware", "save", "reply"} => c.shown = {}
    /\ c.pc = "act" => c.page \in DOMAIN Gate
    /\ c.pc \in Posting => c.page \in Posts
    /\ c.pc = "save" => c.fw \in Firmware
    /\ c.shown # {} \/ c.done => c.page \in DOMAIN Gate

(* OnlyPermitted, OnlyPermittedChanges and NothingMissing of one request. *)
AnswerOK(r) ==
    LET c == req[r] IN
    ~c.super =>
        /\ \A e \in c.shown : c.where[e] \in held[r][Need[c.page]]
        /\ c.done \/ c.pc \in Posting => held[r][Need[c.page]] # {}
        /\ c.pc = "reply" /\ c.page \in Shows /\ Scope(c) \cap kept[r][Gate[c.page]] # {}
           => {e \in Endpoint : c.where[e] \in Scope(c) \cap kept[r][Need[c.page]]} \subseteq c.shown

RequestOK(r) == HistoryOK(r) /\ GrantOK(r) /\ FreshOK(r) /\ AnswerOK(r)

IInv == ReqOK /\ \A r \in Request : RequestOK(r)

-----------------------------------------------------------------------------
(* The pages have their permissions. *)
LEMMA PagePermissions ==
    ASSUME NEW p \in DOMAIN Gate
    PROVE  Gate[p] \in Perm /\ Need[p] \in Perm
<1>1. DOMAIN Gate = {"devices", "data_analysis", "firmware", "firmware_form", "start_update",
                     "upload_fw", "delete_fw"}
  BY DEF Gate
<1>2. Gate[p] \in Perm
  BY <1>1 DEF Gate, Perm
<1>3. Need[p] \in Perm
  <2>1. CASE p \in {"devices", "data_analysis", "firmware"}
    BY <1>1, <1>2, <2>1 DEF Need
  <2>2. CASE p = "firmware_form"
    BY <1>1, <2>2 DEF Need, Perm
  <2>3. CASE p = "start_update"
    BY <1>1, <2>3 DEF Need, Perm
  <2>4. CASE p = "upload_fw"
    BY <1>1, <2>4 DEF Need, Perm
  <2>5. CASE p = "delete_fw"
    BY <1>1, <2>5 DEF Need, Perm
  <2> QED BY <1>1, <2>1, <2>2, <2>3, <2>4, <2>5
<1> QED BY <1>2, <1>3

LEMMA ShowsHaveGates == Shows \subseteq DOMAIN Gate
BY DEF Shows, Gate

LEMMA PostsHaveGates == Posts \subseteq DOMAIN Gate /\ Posts \cap Shows = {}
BY DEF Posts, Shows, Gate

LEMMA IdleShaped == Shaped(Idle)
BY DEF Shaped, Idle, Fields

(* EXCEPT on a request. *)
LEMMA StepShape ==
    ASSUME ReqOK, NEW r \in Request, NEW c, Shaped(c), Step(r, c)
    PROVE  /\ ReqOK' /\ req'[r] = c
           /\ \A q \in Request : q # r => req'[q] = req[q]
BY DEF ReqOK, Step

(* History: it follows from Track alone. *)
LEMMA TrackHistory ==
    ASSUME Track, NEW r \in Request
    PROVE  HistoryOK(r)'
BY DEF Track, HistoryOK

(* What was held stays so, and what is kept was kept, to the end of the      *)
(* request.                                                                  *)
LEMMA TrackGrows ==
    ASSUME Track, NEW r \in Request, req[r].pc # "idle", req'[r].pc # "idle", NEW p \in Perm
    PROVE  held[r][p] \subseteq held'[r][p] /\ kept'[r][p] \subseteq kept[r][p]
BY DEF Track

(* A step of a request leaves the database alone, so that the history is     *)
(* about the rows the step read.                                             *)
LEMMA HistoryNow ==
    ASSUME WebStep, Track, NEW r \in Request, req'[r].pc # "idle", NEW p \in Perm
    PROVE  /\ SitesWithPermission(req'[r].user, p) \subseteq held'[r][p]
           /\ kept'[r][p] \subseteq SitesWithPermission(req'[r].user, p)
<1>1. SitesWithPermission(req[r].user, p)' = SitesWithPermission(req'[r].user, p)
  BY DEF WebStep, dbVars, SitesWithPermission, MemberSites, Active
<1>2. HistoryOK(r)'
  BY TrackHistory
<1> QED BY <1>1, <1>2 DEF HistoryOK

(* Whatever happens meanwhile, a request that does not move stays right. *)
LEMMA OthersStep ==
    ASSUME Track, NEW r \in Request, RequestOK(r), req'[r] = req[r]
    PROVE  RequestOK(r)'
<1>1. HistoryOK(r)'
  BY TrackHistory
<1>2. FreshOK(r)'
  BY DEF RequestOK, FreshOK
<1>3. CASE req[r].pc = "idle"
  <2>1. req'[r].shown = {} /\ ~req'[r].done /\ req'[r].pc = "idle"
    BY <1>3 DEF RequestOK, FreshOK
  <2> QED BY <1>1, <1>2, <2>1 DEF RequestOK, GrantOK, AnswerOK, Posting
<1>4. CASE req[r].pc # "idle"
  <2>1. \A p \in Perm : held[r][p] \subseteq held'[r][p] /\ kept'[r][p] \subseteq kept[r][p]
    BY <1>4, TrackGrows
  <2>2. GrantOK(r)'
    BY <2>1 DEF RequestOK, GrantOK
  <2>3. AnswerOK(r)'
    <3>1. req[r].page \in DOMAIN Gate =>
              Gate[req[r].page] \in Perm /\ Need[req[r].page] \in Perm
      BY PagePermissions
    <3>2. ASSUME ~req[r].super, NEW e \in req[r].shown
          PROVE  req[r].where[e] \in held'[r][Need[req[r].page]]
      BY <2>1, <3>1, <3>2 DEF RequestOK, FreshOK, AnswerOK
    <3>3. ASSUME ~req[r].super, req[r].done \/ req[r].pc \in Posting
          PROVE  held'[r][Need[req[r].page]] # {}
      BY <2>1, <3>1, <3>3, PostsHaveGates DEF RequestOK, FreshOK, AnswerOK
    <3>4. ASSUME ~req[r].super, req[r].pc = "reply", req[r].page \in Shows,
                 Scope(req[r]) \cap kept'[r][Gate[req[r].page]] # {}
          PROVE  {e \in Endpoint : req[r].where[e] \in Scope(req[r]) \cap kept'[r][Need[req[r].page]]}
                     \subseteq req[r].shown
      <4>1. Gate[req[r].page] \in Perm /\ Need[req[r].page] \in Perm
        BY <3>1, <3>4, ShowsHaveGates
      <4>2. {e \in Endpoint : req[r].where[e] \in Scope(req[r]) \cap kept[r][Need[req[r].page]]}
                \subseteq req[r].shown
        BY <2>1, <3>4, <4>1 DEF RequestOK, AnswerOK
      <4> QED BY <2>1, <4>1, <4>2
    <3> QED BY <3>2, <3>3, <3>4 DEF AnswerOK, Scope
  <2> QED BY <1>1, <1>2, <2>2, <2>3 DEF RequestOK
<1> QED BY <1>3, <1>4

(* A request that goes on with the site it has keeps its grant. *)
LEMMA SameGrant ==
    ASSUME Track, NEW r \in Request, RequestOK(r), req[r].pc # "idle", req'[r].pc # "idle",
           req'[r].super = req[r].super, req'[r].key = req[r].key, req'[r].grant = req[r].grant
    PROVE  GrantOK(r)'
<1>1. \A p \in Perm : held[r][p] \subseteq held'[r][p] /\ kept'[r][p] \subseteq kept[r][p]
  BY TrackGrows
<1> QED BY <1>1 DEF RequestOK, GrantOK

(* The site the middleware chooses brings its grant. *)
LEMMA NewGrant ==
    ASSUME WebStep, Track, NEW r \in Request, NEW s \in Accessible(req'[r]),
           req'[r].pc # "idle", req'[r].key = s,
           req'[r].grant = IF req'[r].super THEN {} ELSE perms[req'[r].user][s]
    PROVE  GrantOK(r)'
<1> SUFFICES ASSUME ~req'[r].super, NEW p \in Perm
             PROVE  /\ p \in req'[r].grant => s \in held'[r][p]
                    /\ s \in kept'[r][p] => p \in req'[r].grant
  BY DEF GrantOK
<1>1. p \in req'[r].grant <=> s \in SitesWithPermission(req'[r].user, p)
  BY DEF Accessible, SitesWithPermission
<1> QED BY <1>1, HistoryNow

(* A request without a reply has nothing to answer for. *)
LEMMA NoAnswer ==
    ASSUME NEW r \in Request, req'[r].shown = {}, ~req'[r].done, req'[r].pc \notin Posting,
           req'[r].pc # "reply" \/ req'[r].page \notin Shows
    PROVE  AnswerOK(r)'
BY DEF AnswerOK

-----------------------------------------------------------------------------
(* One step of a request: the step itself is right, the others do not move. *)

(* A request without a site has no grant, and shows nothing. *)
LEMMA NoSiteStep ==
    ASSUME IInv, WebStep, Track, NEW r \in Request, NEW d, Shaped(d), Step(r, d),
           d.pc \in {"user", "sites", "site", "reply"}, d.grant = {}, d.key = None,
           d.shown = {}, ~d.done
    PROVE  ReqOK' /\ RequestOK(r)' /\ \A q \in Request : q # r => req'[q] = req[q]
<1>1. ReqOK' /\ req'[r] = d /\ \A q \in Request : q # r => req'[q] = req[q]
  BY StepShape DEF IInv
<1>2. HistoryOK(r)'
  BY TrackHistory
<1>3. GrantOK(r)'
  BY <1>1, SiteAccessAssumption DEF GrantOK
<1>4. FreshOK(r)'
  BY <1>1 DEF FreshOK, Posting
<1>5. AnswerOK(r)'
  <2>1. ASSUME d.page \in Shows PROVE Scope(d) \cap kept'[r][Gate[d.page]] = {}
    <3>1. Gate[d.page] \in Perm
      BY <2>1, ShowsHaveGates, PagePermissions
    <3>2. kept'[r][Gate[d.page]] \subseteq SitesWithPermission(d.user, Gate[d.page])
      BY <1>1, <3>1, HistoryNow
    <3>3. SitesWithPermission(d.user, Gate[d.page]) \subseteq Site /\ Scope(d) = {None}
      BY SiteAccessAssumption DEF SitesWithPermission, MemberSites, Active, Scope
    <3> QED BY <3>2, <3>3, SiteAccessAssumption
  <2> QED BY <1>1, <2>1 DEF AnswerOK, Posting, Scope
<1> QED BY <1>1, <1>2, <1>3, <1>4, <1>5 DEF RequestOK

(* The cookie, the account and the sites are read. *)
LEMMA BeginStep ==
    ASSUME IInv, WebStep, Track, NEW r \in Request,
           (\E u \in User, p \in Pages : Begin(r, u, p)) \/ LoadUser(r) \/ LoadSites(r)
    PROVE  ReqOK' /\ RequestOK(r)' /\ \A q \in Request : q # r => req'[q] = req[q]
<1> DEFINE c == req[r]
<1>1. Shaped(c) /\ FreshOK(r)
  BY DEF IInv, ReqOK, RequestOK
<1>2. ASSUME NEW u \in User, NEW p \in Pages, Begin(r, u, p)
      PROVE  ReqOK' /\ RequestOK(r)' /\ \A q \in Request : q # r => req'[q] = req[q]
  <2> DEFINE d == [Idle EXCEPT !.pc = "user", !.user = u, !.page = p, !.read = session[u]]
  <2>1. Idle.grant = {} /\ Idle.key = None /\ Idle.shown = {} /\ ~Idle.done
    BY DEF Idle
  <2>2. Shaped(d) /\ d.pc = "user" /\ d.grant = {} /\ d.key = None /\ d.shown = {} /\ ~d.done
    BY <2>1, IdleShaped DEF Shaped, Fields
  <2>3. Step(r, d)
    BY <1>2 DEF Begin
  <2> HIDE DEF d
  <2> QED BY <2>2, <2>3, NoSiteStep
<1>3. CASE LoadUser(r) \/ LoadSites(r)
  <2>1. c.pc \in {"user", "sites"} /\ c.grant = {} /\ c.key = None /\ c.shown = {} /\ ~c.done
    BY <1>1, <1>3 DEF LoadUser, LoadSites, FreshOK
  <2>2. ASSUME NEW b, Step(r, [c EXCEPT !.pc = "sites", !.super = b])
        PROVE  ReqOK' /\ RequestOK(r)' /\ \A q \in Request : q # r => req'[q] = req[q]
    <3> DEFINE d == [c EXCEPT !.pc = "sites", !.super = b]
    <3>1. Shaped(d) /\ d.pc = "sites" /\ d.grant = {} /\ d.key = None /\ d.shown = {} /\ ~d.done
      BY <1>1, <2>1 DEF Shaped, Fields
    <3>2. Step(r, d)
      BY <2>2
    <3> HIDE DEF d
    <3> QED BY <3>1, <3>2, NoSiteStep
  <2>3. ASSUME NEW b, Step(r, [c EXCEPT !.pc = "site", !.several = b])
        PROVE  ReqOK' /\ RequestOK(r)' /\ \A q \in Request : q # r => req'[q] = req[q]
    <3> DEFINE d == [c EXCEPT !.pc = "site", !.several = b]
    <3>1. Shaped(d) /\ d.pc = "site" /\ d.grant = {} /\ d.key = None /\ d.shown = {} /\ ~d.done
      BY <1>1, <2>1 DEF Shaped, Fields
    <3>2. Step(r, d)
      BY <2>3
    <3> HIDE DEF d
    <3> QED BY <3>1, <3>2, NoSiteStep
  <2>4. ASSUME Step(r, [c EXCEPT !.pc = "reply"])
        PROVE  ReqOK' /\ RequestOK(r)' /\ \A q \in Request : q # r => req'[q] = req[q]
    <3> DEFINE d == [c EXCEPT !.pc = "reply"]
    <3>1. Shaped(d) /\ d.pc = "reply" /\ d.grant = {} /\ d.key = None /\ d.shown = {} /\ ~d.done
      BY <1>1, <2>1 DEF Shaped, Fields
    <3>2. Step(r, d)
      BY <2>4
    <3> HIDE DEF d
    <3> QED BY <3>1, <3>2, NoSiteStep
  <2> QED BY <1>3, <2>2, <2>3, <2>4 DEF LoadUser, LoadSites
<1> QED BY <1>2, <1>3

(* The middleware: a request at "site" or "default" goes on with a site its  *)
(* user may access, with a key that is no site, or with none.                *)
LEMMA MiddlewareStep ==
    ASSUME IInv, WebStep, Track, NEW r \in Request, CurrentSite(r) \/ DefaultSite(r)
    PROVE  ReqOK' /\ RequestOK(r)' /\ \A q \in Request : q # r => req'[q] = req[q]
<1> DEFINE c == req[r]
<1>1. Shaped(c) /\ RequestOK(r) /\ c.grant = {} /\ c.key = None /\ c.shown = {} /\ ~c.done
      /\ c.pc \in {"site", "default"}
  BY DEF IInv, ReqOK, RequestOK, FreshOK, CurrentSite, DefaultSite
<1>2. ASSUME NEW d, Shaped(d), Step(r, d), d.pc \in {"view", "default", "error"},
             d.shown = {}, ~d.done, d.super = c.super, d.user = c.user,
             d.pc = "default" => d.key = None /\ d.grant = {},
             \/ d.grant = {} /\ d.key \notin Site
             \/ /\ d.key \in Accessible(d)
                /\ d.grant = IF d.super THEN {} ELSE perms[d.user][d.key]
      PROVE  ReqOK' /\ RequestOK(r)' /\ \A q \in Request : q # r => req'[q] = req[q]
  <2>1. ReqOK' /\ req'[r] = d /\ \A q \in Request : q # r => req'[q] = req[q]
    BY <1>2, StepShape DEF IInv
  <2>2. HistoryOK(r)'
    BY TrackHistory
  <2>3. GrantOK(r)'
    <3>1. CASE d.grant = {} /\ d.key \notin Site
      BY <2>1, <3>1 DEF GrantOK
    <3>2. CASE /\ d.key \in Accessible(d)
               /\ d.grant = IF d.super THEN {} ELSE perms[d.user][d.key]
      BY <1>2, <2>1, <3>2, NewGrant
    <3> QED BY <1>2, <3>1, <3>2
  <2>4. FreshOK(r)'
    BY <1>2, <2>1 DEF FreshOK, Posting
  <2>5. AnswerOK(r)'
    BY <1>2, <2>1, NoAnswer DEF Posting
  <2> QED BY <2>1, <2>2, <2>3, <2>4, <2>5 DEF RequestOK
<1>3. ASSUME NEW s \in Accessible(c), NEW x, Shaped(x), x.super = c.super, x.user = c.user,
             x.shown = {}, ~x.done
      PROVE  LET d == [WithSite(x, s) EXCEPT !.pc = "view"] IN
             /\ Shaped(d) /\ d.pc = "view" /\ d.shown = {} /\ ~d.done /\ d.super = c.super
             /\ d.user = c.user /\ d.key = s /\ d.key \in Accessible(d)
             /\ d.grant = IF d.super THEN {} ELSE perms[d.user][d.key]
  BY <1>3 DEF WithSite, Shaped, Fields, Accessible
<1>4. CASE CurrentSite(r)
  <2>1. CASE \/ /\ c.read = All \/ (c.super /\ c.read = Unassigned)
                /\ Step(r, [c EXCEPT !.pc = "view", !.key = c.read])
    <3> DEFINE d == [c EXCEPT !.pc = "view", !.key = c.read]
    <3>1. Shaped(d) /\ d.pc = "view" /\ d.shown = {} /\ ~d.done /\ d.super = c.super
          /\ d.user = c.user /\ d.key = c.read /\ d.grant = {}
      BY <1>1 DEF Shaped, Fields
    <3>2. c.read \notin Site
      BY <2>1, SiteAccessAssumption
    <3>3. Step(r, d)
      BY <2>1
    <3> HIDE DEF d
    <3> QED BY <1>2, <3>1, <3>2, <3>3
  <2>2. CASE c.read \in Accessible(c) /\ Step(r, [WithSite(c, c.read) EXCEPT !.pc = "view"])
    <3> DEFINE d == [WithSite(c, c.read) EXCEPT !.pc = "view"]
    <3>1. Shaped(d) /\ d.pc = "view" /\ d.shown = {} /\ ~d.done /\ d.super = c.super
          /\ d.user = c.user /\ d.key \in Accessible(d)
          /\ d.grant = IF d.super THEN {} ELSE perms[d.user][d.key]
      BY <1>1, <1>3, <2>2
    <3>2. Step(r, d)
      BY <2>2
    <3> HIDE DEF d
    <3> QED BY <1>2, <3>1, <3>2
  <2>3. CASE \/ Step(r, [c EXCEPT !.pc = "default"])
             \/ Step(r, [c EXCEPT !.pc = "error"])
    <3>1. ASSUME NEW l \in {"default", "error"}, Step(r, [c EXCEPT !.pc = l])
          PROVE  ReqOK' /\ RequestOK(r)' /\ \A q \in Request : q # r => req'[q] = req[q]
      <4> DEFINE d == [c EXCEPT !.pc = l]
      <4>1. Shaped(d) /\ d.pc = l /\ d.shown = {} /\ ~d.done /\ d.super = c.super
            /\ d.user = c.user /\ d.key = None /\ d.grant = {}
        BY <1>1 DEF Shaped, Fields
      <4>2. Step(r, d) /\ None \notin Site
        BY <3>1, SiteAccessAssumption
      <4> HIDE DEF d
      <4> QED BY <1>2, <4>1, <4>2
    <3> QED BY <2>3, <3>1
  <2> QED BY <1>4, <2>1, <2>2, <2>3 DEF CurrentSite
<1>5. CASE DefaultSite(r)
  <2> DEFINE v == [c EXCEPT !.pc = "view"]
  <2>1. Shaped(v) /\ v.pc = "view" /\ v.shown = {} /\ ~v.done /\ v.super = c.super
        /\ v.user = c.user /\ v.key = None /\ v.grant = {} /\ Accessible(v) = Accessible(c)
    BY <1>1 DEF Shaped, Fields, Accessible
  <2>2. \/ \E s \in First(v) : Step(r, [WithSite(v, s) EXCEPT !.read = s, !.save = TRUE])
        \/ Step(r, v)
    BY <1>5 DEF DefaultSite
  <2>3. First(v) \subseteq Accessible(v)
    BY DEF First
  <2> HIDE DEF v
  <2>4. CASE Step(r, v)
    BY <1>2, <2>1, <2>4, SiteAccessAssumption
  <2>5. ASSUME NEW s \in First(v), Step(r, [WithSite(v, s) EXCEPT !.read = s, !.save = TRUE])
        PROVE  ReqOK' /\ RequestOK(r)' /\ \A q \in Request : q # r => req'[q] = req[q]
    <3> DEFINE d == [WithSite(v, s) EXCEPT !.read = s, !.save = TRUE]
    <3>1. Shaped(d) /\ d.pc = "view" /\ d.shown = {} /\ ~d.done /\ d.super = c.super
          /\ d.user = c.user /\ d.key \in Accessible(d)
          /\ d.grant = IF d.super THEN {} ELSE perms[d.user][d.key]
      BY <2>1, <2>3, <2>5 DEF WithSite, Shaped, Fields, Accessible
    <3>2. Step(r, d)
      BY <2>5
    <3> HIDE DEF d
    <3> QED BY <1>2, <3>1, <3>2
  <2> QED BY <2>2, <2>4, <2>5
<1> QED BY <1>4, <1>5

(* What a check by the membership or over all sites means: the permission    *)
(* was held during the request.                                              *)
LEMMA PermissionHeld ==
    ASSUME NEW r \in Request, RequestOK(r), req[r].pc # "idle", ~req[r].super,
           NEW p \in Perm, HasPermission(req[r], p)
    PROVE  held[r][p] # {} /\ (req[r].key # All => req[r].key \in held[r][p])
BY DEF RequestOK, HistoryOK, GrantOK, HasPermission

(* And a permission that was kept on the site, or on one of all, passes it.  *)
LEMMA KeptPasses ==
    ASSUME NEW r \in Request, RequestOK(r), req[r].pc # "idle", ~req[r].super,
           NEW p \in Perm, Scope(req[r]) \cap kept[r][p] # {}
    PROVE  HasPermission(req[r], p)
<1>1. kept[r][p] \subseteq SitesWithPermission(req[r].user, p)
  BY DEF RequestOK, HistoryOK
<1>2. SitesWithPermission(req[r].user, p) \subseteq Site
  BY DEF SitesWithPermission, MemberSites, Active
<1>3. CASE req[r].key = All
  BY <1>1, <1>3 DEF HasPermission
<1>4. CASE req[r].key # All
  BY <1>1, <1>2, <1>4 DEF HasPermission, Scope, RequestOK, GrantOK
<1> QED BY <1>3, <1>4

(* The device filter: only what was held, and all that was kept. *)
LEMMA FilterRight ==
    ASSUME NEW r \in Request, RequestOK(r), req[r].pc # "idle", ~req[r].super, NEW p \in Perm
    PROVE  /\ \A e \in Filtered(req[r], p) : siteOf[e] \in held[r][p]
           /\ {e \in Endpoint : siteOf[e] \in Scope(req[r]) \cap kept[r][p]}
                  \subseteq Filtered(req[r], p)
<1> DEFINE c == req[r]
<1>1. /\ SitesWithPermission(c.user, p) \subseteq held[r][p]
      /\ kept[r][p] \subseteq SitesWithPermission(c.user, p)
      /\ SitesWithPermission(c.user, p) \subseteq Site
  BY DEF RequestOK, HistoryOK, SitesWithPermission, MemberSites, Active
<1>2. ASSUME NEW e \in Filtered(c, p) PROVE siteOf[e] \in held[r][p]
  <2>1. CASE c.key = All /\ siteOf[e] \in SitesWithPermission(c.user, p)
    BY <1>1, <2>1
  <2>2. CASE c.key \in Site /\ HasPermission(c, p) /\ siteOf[e] = c.key
    BY <2>2, PermissionHeld, SiteAccessAssumption
  <2> QED BY <2>1, <2>2 DEF Filtered
<1>3. ASSUME NEW e \in Endpoint, siteOf[e] \in Scope(c) \cap kept[r][p]
      PROVE  e \in Filtered(c, p)
  <2>1. CASE c.key = All
    BY <1>1, <1>3, <2>1 DEF Filtered
  <2>2. CASE c.key # All
    <3>1. siteOf[e] = c.key /\ c.key \in Site
      BY <1>1, <1>3, <2>2 DEF Scope
    <3>2. HasPermission(c, p)
      BY <1>3, KeptPasses
    <3> QED BY <3>1, <3>2 DEF Filtered
  <2> QED BY <2>1, <2>2
<1> QED BY <1>2, <1>3

-----------------------------------------------------------------------------
(* What the view makes of the request: d, which differs from the request in  *)
(* what is given here only.                                                  *)
LEMMA ViewStep ==
    ASSUME IInv, WebStep, Track, NEW r \in Request, NEW d, Shaped(d), Step(r, d),
           req[r].pc \in {"view", "act"} \cup Posting, d.pc \in {"act", "reply"} \cup Posting,
           d.user = req[r].user, d.page = req[r].page, d.super = req[r].super,
           d.key = req[r].key, d.grant = req[r].grant,
           d.pc = "act" => d.page \in DOMAIN Gate,
           d.pc # "reply" => ~d.done,
           d.pc \in {"act", "form"} => d.shown = {},
           d.pc \in Posting => d.page \in Posts,
           d.pc = "save" => d.fw \in Firmware,
           d.shown # {} \/ d.done => d.page \in DOMAIN Gate,
           ~d.super => \A e \in d.shown : d.where[e] \in held[r][Need[d.page]],
           ~d.super /\ (d.done \/ d.pc \in Posting) => held[r][Need[d.page]] # {},
           ~d.super /\ d.pc = "reply" /\ d.page \in Shows
               /\ Scope(req[r]) \cap kept[r][Gate[d.page]] # {}
             => {e \in Endpoint : d.where[e] \in Scope(req[r]) \cap kept[r][Need[d.page]]}
                    \subseteq d.shown
    PROVE  ReqOK' /\ RequestOK(r)' /\ \A q \in Request : q # r => req'[q] = req[q]
<1>1. ReqOK' /\ req'[r] = d /\ \A q \in Request : q # r => req'[q] = req[q]
  BY StepShape DEF IInv
<1>2. RequestOK(r) /\ req[r].pc # "idle" /\ d.pc # "idle"
  BY DEF IInv, Posting
<1>3. \A p \in Perm : held[r][p] \subseteq held'[r][p] /\ kept'[r][p] \subseteq kept[r][p]
  BY <1>1, <1>2, TrackGrows
<1>4. HistoryOK(r)' /\ GrantOK(r)'
  BY <1>1, <1>2, TrackHistory, SameGrant
<1>5. FreshOK(r)'
  BY <1>1 DEF FreshOK, Posting
<1>6. AnswerOK(r)'
  <2>1. d.page \in DOMAIN Gate => Gate[d.page] \in Perm /\ Need[d.page] \in Perm
    BY PagePermissions
  <2>2. ~d.super => \A e \in d.shown : d.where[e] \in held'[r][Need[d.page]]
    BY <1>3, <2>1
  <2>3. ~d.super /\ (d.done \/ d.pc \in Posting) => held'[r][Need[d.page]] # {}
    BY <1>3, <2>1, PostsHaveGates
  <2>4. ASSUME ~d.super, d.pc = "reply", d.page \in Shows,
               Scope(d) \cap kept'[r][Gate[d.page]] # {}
        PROVE  {e \in Endpoint : d.where[e] \in Scope(d) \cap kept'[r][Need[d.page]]} \subseteq d.shown
    <3>1. Gate[d.page] \in Perm /\ Need[d.page] \in Perm
      BY <2>1, <2>4, ShowsHaveGates
    <3>2. Scope(d) = Scope(req[r])
      BY DEF Scope
    <3> QED BY <1>3, <2>4, <3>1, <3>2
  <2> QED BY <1>1, <2>2, <2>3, <2>4 DEF AnswerOK, Scope
<1> QED BY <1>1, <1>4, <1>5, <1>6 DEF RequestOK

(* switch_site(): nothing is shown. *)
LEMMA SwitchSiteStep ==
    ASSUME IInv, WebStep, Track, NEW r \in Request, \E t \in Key \ {None} : SwitchSite(r, t)
    PROVE  ReqOK' /\ RequestOK(r)' /\ \A q \in Request : q # r => req'[q] = req[q]
<1> DEFINE c == req[r]
<1>1. Shaped(c) /\ c.pc = "view" /\ c.shown = {} /\ ~c.done /\ c.page \notin Shows
  <2>1. Shaped(c) /\ FreshOK(r)
    BY DEF IInv, ReqOK, RequestOK
  <2>2. ASSUME NEW t, SwitchSite(r, t) PROVE c.pc = "view" /\ c.page = "switch_site"
    BY <2>1, <2>2 DEF SwitchSite, Shaped, Fields
  <2>3. c.pc = "view" /\ c.page \notin Shows
    BY <2>2 DEF Shows
  <2> QED BY <2>1, <2>3 DEF FreshOK
<1>2. \E t : Step(r, [c EXCEPT !.pc = "reply", !.read = t, !.save = TRUE])
      \/ Step(r, [c EXCEPT !.pc = "reply"])
  <2>1. ASSUME NEW t, SwitchSite(r, t)
        PROVE  \/ Step(r, [c EXCEPT !.pc = "reply", !.read = t, !.save = TRUE])
               \/ Step(r, [c EXCEPT !.pc = "reply"])
    <3>1. [[c EXCEPT !.pc = "reply"] EXCEPT !.read = t, !.save = TRUE]
              = [c EXCEPT !.pc = "reply", !.read = t, !.save = TRUE]
      BY <1>1 DEF Shaped, Fields
    <3> QED BY <2>1, <3>1 DEF SwitchSite
  <2> QED BY <2>1
<1>3. ASSUME NEW d, Shaped(d), Step(r, d), d.pc = "reply", d.shown = {}, ~d.done,
             d.user = c.user, d.page = c.page, d.super = c.super, d.key = c.key, d.grant = c.grant
      PROVE  ReqOK' /\ RequestOK(r)' /\ \A q \in Request : q # r => req'[q] = req[q]
  BY <1>1, <1>3, ViewStep DEF Posting
<1>4. CASE Step(r, [c EXCEPT !.pc = "reply"])
  <2> DEFINE d == [c EXCEPT !.pc = "reply"]
  <2>1. Shaped(d) /\ d.pc = "reply" /\ d.shown = {} /\ ~d.done /\ d.user = c.user
        /\ d.page = c.page /\ d.super = c.super /\ d.key = c.key /\ d.grant = c.grant
    BY <1>1 DEF Shaped, Fields
  <2> HIDE DEF d
  <2> QED BY <1>3, <1>4, <2>1 DEF d
<1>5. ASSUME NEW t, Step(r, [c EXCEPT !.pc = "reply", !.read = t, !.save = TRUE])
      PROVE  ReqOK' /\ RequestOK(r)' /\ \A q \in Request : q # r => req'[q] = req[q]
  <2> DEFINE d == [c EXCEPT !.pc = "reply", !.read = t, !.save = TRUE]
  <2>1. Shaped(d) /\ d.pc = "reply" /\ d.shown = {} /\ ~d.done /\ d.user = c.user
        /\ d.page = c.page /\ d.super = c.super /\ d.key = c.key /\ d.grant = c.grant
    BY <1>1 DEF Shaped, Fields
  <2> HIDE DEF d
  <2> QED BY <1>3, <1>5, <2>1 DEF d
<1> QED BY <1>2, <1>4, <1>5

(* _check_site_permission(): who is refused has not kept the permission.     *)
LEMMA CheckStep ==
    ASSUME IInv, WebStep, Track, NEW r \in Request, Check(r)
    PROVE  ReqOK' /\ RequestOK(r)' /\ \A q \in Request : q # r => req'[q] = req[q]
<1> DEFINE c == req[r]
<1>1. Shaped(c) /\ RequestOK(r) /\ c.pc = "view" /\ c.shown = {} /\ ~c.done
      /\ c.page \in DOMAIN Gate
  BY DEF IInv, ReqOK, RequestOK, FreshOK, Check
<1>2. CASE HasPermission(c, Gate[c.page])
  <2> DEFINE d == [c EXCEPT !.pc = "act"]
  <2>1. Shaped(d) /\ d.pc = "act" /\ d.shown = {} /\ ~d.done /\ d.user = c.user
        /\ d.page = c.page /\ d.super = c.super /\ d.key = c.key /\ d.grant = c.grant
    BY <1>1 DEF Shaped, Fields
  <2>2. Step(r, d)
    BY <1>2 DEF Check
  <2> HIDE DEF d
  <2> QED BY <1>1, <2>1, <2>2, ViewStep DEF Posting
<1>3. CASE ~HasPermission(c, Gate[c.page])
  <2> DEFINE d == [c EXCEPT !.pc = "reply", !.where = siteOf]
  <2>1. Shaped(d) /\ d.pc = "reply" /\ d.shown = {} /\ ~d.done /\ d.user = c.user
        /\ d.page = c.page /\ d.super = c.super /\ d.key = c.key /\ d.grant = c.grant
    BY <1>1 DEF Shaped, Fields
  <2>2. Step(r, d)
    BY <1>3 DEF Check
  <2>3. ~c.super => Scope(c) \cap kept[r][Gate[c.page]] = {}
    BY <1>1, <1>3, KeptPasses, PagePermissions
  <2> HIDE DEF d
  <2> QED BY <1>1, <2>1, <2>2, <2>3, ViewStep DEF Posting
<1> QED BY <1>2, <1>3

(* The pages that show devices. *)
LEMMA ShowStep ==
    ASSUME IInv, WebStep, Track, NEW r \in Request, Show(r)
    PROVE  ReqOK' /\ RequestOK(r)' /\ \A q \in Request : q # r => req'[q] = req[q]
<1> DEFINE c == req[r]
<1> DEFINE d == [c EXCEPT !.pc = "reply", !.where = siteOf, !.shown = Filtered(c, Need[c.page])]
<1>1. Shaped(c) /\ RequestOK(r) /\ c.pc = "act" /\ ~c.done /\ c.page \in Shows
      /\ c.page \in DOMAIN Gate
  BY DEF IInv, ReqOK, RequestOK, FreshOK, Show
<1>2. Shaped(d) /\ d.pc = "reply" /\ d.shown = Filtered(c, Need[c.page]) /\ ~d.done
      /\ d.where = siteOf /\ d.user = c.user
      /\ d.page = c.page /\ d.super = c.super /\ d.key = c.key /\ d.grant = c.grant
  BY <1>1 DEF Shaped, Fields
<1>3. Step(r, d)
  BY DEF Show
<1>4. ~c.super => /\ \A e \in Filtered(c, Need[c.page]) : siteOf[e] \in held[r][Need[c.page]]
                  /\ {e \in Endpoint : siteOf[e] \in Scope(c) \cap kept[r][Need[c.page]]}
                         \subseteq Filtered(c, Need[c.page])
  BY <1>1, FilterRight, PagePermissions
<1> HIDE DEF d
<1> QED BY <1>1, <1>2, <1>3, <1>4, ViewStep DEF Posting

(* The steps of a POST: of one who has held the permission it needs, for a    *)
(* device that was found where he held it.                                   *)
LEMMA PostStep ==
    ASSUME IInv, WebStep, Track, NEW r \in Request,
           \/ Permit(r)
           \/ \E e \in Endpoint : ChooseEndpoint(r, e)
           \/ \E f \in Firmware : ChooseFirmware(r, f) \/ UploadFw(r, f) \/ FindFw(r, f)
           \/ StartUpdate(r) \/ DeleteFw(r) \/ Refuse(r)
    PROVE  ReqOK' /\ RequestOK(r)' /\ \A q \in Request : q # r => req'[q] = req[q]
<1> DEFINE c == req[r]
           Goal == ReqOK' /\ RequestOK(r)' /\ \A q \in Request : q # r => req'[q] = req[q]
<1>1. Shaped(c) /\ RequestOK(r) /\ FreshOK(r) /\ AnswerOK(r)
  BY DEF IInv, ReqOK, RequestOK
<1>2. c.pc \in {"act"} \cup Posting /\ c.page \in Posts /\ c.page \in DOMAIN Gate
      /\ c.page \notin Shows /\ ~c.done /\ Need[c.page] \in Perm
  <2>1. c.pc \in {"act"} \cup Posting /\ (c.pc = "act" => c.page \in Posts)
    BY DEF Permit, ChooseEndpoint, ChooseFirmware, UploadFw, FindFw, StartUpdate, DeleteFw, Refuse, At,
           Posting
  <2>2. c.page \in Posts /\ ~c.done
    BY <1>1, <2>1 DEF FreshOK, Posting
  <2> QED BY <2>1, <2>2, PostsHaveGates, PagePermissions
<1>3. ASSUME NEW d, Shaped(d), Step(r, d), d.pc \in {"reply"} \cup Posting,
             d.user = c.user, d.page = c.page, d.super = c.super, d.key = c.key, d.grant = c.grant,
             d.pc # "reply" => ~d.done,
             d.pc = "form" => d.shown = {},
             d.pc = "save" => d.fw \in Firmware,
             ~c.super => \A e \in d.shown : d.where[e] \in held[r][Need[c.page]],
             ~c.super /\ (d.done \/ d.pc \in Posting) => held[r][Need[c.page]] # {}
      PROVE  Goal
  <2>1. d.page \in Posts /\ d.page \in DOMAIN Gate /\ d.page \notin Shows
    BY <1>2, <1>3
  <2> QED BY <1>1, <1>2, <1>3, <2>1, ViewStep DEF Posting
<1>4. c.pc \in Posting /\ ~c.super => held[r][Need[c.page]] # {}
  BY <1>1 DEF AnswerOK
<1>5. ~c.super => \A e \in c.shown : c.where[e] \in held[r][Need[c.page]]
  BY <1>1 DEF AnswerOK
<1>6. ASSUME NEW l \in {"form", "reply"}, NEW d, d = [c EXCEPT !.pc = l], Step(r, d),
             l = "form" => c.shown = {} /\ HasPermission(c, Need[c.page])
      PROVE  Goal
  <2>1. Shaped(d) /\ d.pc = l /\ d.user = c.user /\ d.page = c.page /\ d.super = c.super /\ d.key = c.key
        /\ d.grant = c.grant /\ d.done = c.done /\ d.shown = c.shown /\ d.where = c.where
    BY <1>1, <1>6 DEF Shaped, Fields
  <2>2. ~c.super /\ l = "form" => held[r][Need[c.page]] # {}
    BY <1>1, <1>2, <1>6, PermissionHeld DEF Posting
  <2> HIDE DEF Goal
  <2> QED BY <1>2, <1>3, <1>5, <1>6, <2>1, <2>2 DEF Posting
<1>7. CASE Permit(r) \/ Refuse(r)
  <2>1. c.pc = "act" => c.shown = {}
    BY <1>1 DEF FreshOK
  <2>2. CASE Permit(r) /\ HasPermission(c, Need[c.page])
    <3> DEFINE d == [c EXCEPT !.pc = "form"]
    <3>1. Step(r, d) /\ c.pc = "act" /\ d = [c EXCEPT !.pc = "form"]
      BY <2>2 DEF Permit
    <3> HIDE DEF d
    <3> QED BY <1>6, <2>1, <2>2, <3>1
  <2>3. CASE (Permit(r) /\ ~HasPermission(c, Need[c.page])) \/ Refuse(r)
    <3> DEFINE d == [c EXCEPT !.pc = "reply"]
    <3>1. Step(r, d) /\ d = [c EXCEPT !.pc = "reply"]
      BY <2>3 DEF Permit, Refuse
    <3> HIDE DEF d
    <3> QED BY <1>6, <3>1
  <2> QED BY <1>7, <2>2, <2>3
<1>8. ASSUME NEW e \in Endpoint, ChooseEndpoint(r, e) PROVE Goal
  <2> DEFINE d == [c EXCEPT !.pc = "firmware", !.where = siteOf, !.shown = {e}]
  <2>1. Shaped(d) /\ d.pc = "firmware" /\ d.user = c.user /\ d.page = c.page /\ d.super = c.super
        /\ d.key = c.key /\ d.grant = c.grant /\ d.done = c.done /\ d.shown = {e} /\ d.where = siteOf
    BY <1>1 DEF Shaped, Fields
  <2>2. Step(r, d) /\ c.page = "start_update" /\ c.pc = "form" /\ e \in Filtered(c, Need[c.page])
    BY <1>8 DEF ChooseEndpoint, At
  <2>3. ~c.super => siteOf[e] \in held[r][Need[c.page]]
    BY <1>1, <1>2, <2>2, FilterRight
  <2> HIDE DEF d, Goal
  <2> QED BY <1>2, <1>3, <1>4, <2>1, <2>2, <2>3 DEF Posting
<1>9. ASSUME NEW f \in Firmware, ChooseFirmware(r, f) \/ FindFw(r, f) PROVE Goal
  <2> DEFINE d == [c EXCEPT !.pc = "save", !.fw = f]
  <2>1. Shaped(d) /\ d.pc = "save" /\ d.user = c.user /\ d.page = c.page /\ d.super = c.super
        /\ d.key = c.key /\ d.grant = c.grant /\ d.done = c.done /\ d.shown = c.shown
        /\ d.where = c.where /\ d.fw = f
    BY <1>1 DEF Shaped, Fields
  <2>2. Step(r, d) /\ c.pc \in Posting
    BY <1>9 DEF ChooseFirmware, FindFw, At, Posting
  <2> HIDE DEF d, Goal
  <2> QED BY <1>2, <1>3, <1>4, <1>5, <2>1, <2>2 DEF Posting
<1>10. ASSUME Done(r), c.pc \in Posting PROVE Goal
  <2> DEFINE d == [c EXCEPT !.pc = "reply", !.done = TRUE]
  <2>1. Shaped(d) /\ d.pc = "reply" /\ d.user = c.user /\ d.page = c.page /\ d.super = c.super
        /\ d.key = c.key /\ d.grant = c.grant /\ d.shown = c.shown /\ d.where = c.where
    BY <1>1 DEF Shaped, Fields
  <2>2. Step(r, d)
    BY <1>10 DEF Done
  <2> HIDE DEF d, Goal
  <2> QED BY <1>3, <1>4, <1>5, <1>10, <2>1, <2>2
<1>11. ASSUME NEW f \in Firmware, UploadFw(r, f) PROVE Goal
  BY <1>10, <1>11 DEF UploadFw, At, Posting
<1>12. CASE StartUpdate(r) \/ DeleteFw(r)
  BY <1>10, <1>12 DEF StartUpdate, DeleteFw, At, Posting
<1> QED BY <1>7, <1>8, <1>9, <1>11, <1>12

(* The end of a request. *)
LEMMA ReplyStep ==
    ASSUME IInv, WebStep, Track, NEW r \in Request, Reply(r)
    PROVE  ReqOK' /\ RequestOK(r)' /\ \A q \in Request : q # r => req'[q] = req[q]
<1>1. ReqOK' /\ req'[r] = Idle /\ \A q \in Request : q # r => req'[q] = req[q]
  BY StepShape, IdleShaped DEF IInv, Reply
<1>2. Idle.pc = "idle" /\ Idle.shown = {} /\ ~Idle.done
  BY DEF Idle
<1>3. HistoryOK(r)' /\ GrantOK(r)' /\ FreshOK(r)'
  BY <1>1, <1>2, TrackHistory DEF GrantOK, FreshOK, Posting
<1>4. AnswerOK(r)'
  BY <1>1, <1>2, NoAnswer DEF Posting
<1> QED BY <1>1, <1>3, <1>4 DEF RequestOK

-----------------------------------------------------------------------------
(* No administrator touches a request. *)
LEMMA AdminLeavesRequests ==
    ASSUME AdminStep
    PROVE  req' = req
BY DEF AdminStep, Change, CreateUser, DeleteUser, SetSuperuser, SetSite, DeleteSite, CreateMembership,
       AdminAddMembership, RevokeMembership, TransferDevice, AdminDeleteFirmware, LoadScenario,
       CheckForm, SaveMembership, SaveRouting

(* The invariant holds at first. *)
LEMMA InitIInv == Init => IInv
<1> SUFFICES ASSUME Init PROVE IInv
  OBVIOUS
<1>1. ReqOK /\ \A r \in Request : req[r] = Idle
  BY IdleShaped DEF Init, ReqOK
<1>2. Idle.pc = "idle" /\ Idle.shown = {} /\ ~Idle.done
  BY DEF Idle
<1> QED BY <1>1, <1>2 DEF IInv, RequestOK, HistoryOK, GrantOK, FreshOK, AnswerOK, Posting

(* The inductive invariant: what each request found and what its user may do *)
(* now agree with what he held and kept during the request.                  *)
THEOREM AccessInvariance == Spec => []IInv
<1>1. IInv /\ [Next]_vars => IInv'
  <2> SUFFICES ASSUME IInv, [Next]_vars PROVE IInv'
    OBVIOUS
  <2>1. ASSUME NEW r \in Request, RequestStep(r), WebStep, Track PROVE IInv'
    <3>1. ReqOK' /\ RequestOK(r)' /\ \A q \in Request : q # r => req'[q] = req[q]
      <4>1. CASE (\E u \in User, p \in Pages : Begin(r, u, p)) \/ LoadUser(r) \/ LoadSites(r)
        BY <2>1, <4>1, BeginStep
      <4>2. CASE CurrentSite(r) \/ DefaultSite(r)
        BY <2>1, <4>2, MiddlewareStep
      <4>3. CASE \E t \in Key \ {None} : SwitchSite(r, t)
        BY <2>1, <4>3, SwitchSiteStep
      <4>4. CASE Check(r)
        BY <2>1, <4>4, CheckStep
      <4>5. CASE Show(r)
        BY <2>1, <4>5, ShowStep
      <4>6. CASE \/ Permit(r)
                 \/ \E e \in Endpoint : ChooseEndpoint(r, e)
                 \/ \E f \in Firmware : ChooseFirmware(r, f) \/ UploadFw(r, f) \/ FindFw(r, f)
                 \/ StartUpdate(r) \/ DeleteFw(r) \/ Refuse(r)
        BY <2>1, <4>6, PostStep
      <4>7. CASE Reply(r)
        BY <2>1, <4>7, ReplyStep
      <4> QED BY <2>1, <4>1, <4>2, <4>3, <4>4, <4>5, <4>6, <4>7 DEF RequestStep
    <3>2. ASSUME NEW q \in Request, q # r PROVE RequestOK(q)'
      BY <2>1, <3>1, <3>2, OthersStep DEF IInv
    <3> QED BY <3>1, <3>2 DEF IInv
  <2>2. ASSUME AdminStep, Track PROVE IInv'
    <3>1. req' = req
      BY <2>2, AdminLeavesRequests
    <3>2. ASSUME NEW q \in Request PROVE RequestOK(q)'
      BY <2>2, <3>1, OthersStep DEF IInv
    <3> QED BY <3>1, <3>2 DEF IInv, ReqOK
  <2>3. CASE UNCHANGED vars
    BY <2>3 DEF vars, dbVars, IInv, ReqOK, RequestOK, HistoryOK, GrantOK, FreshOK, AnswerOK,
                SitesWithPermission, MemberSites, Active
  <2> QED BY <2>1, <2>2, <2>3 DEF Next
<1> QED BY InitIInv, <1>1, PTL DEF Spec

(* get_site_filtered_endpoints() and the middleware: no page shows, and no    *)
(* form to start an update accepts, a device that was then on a site where   *)
(* the user did not have the permission during the request.                  *)
THEOREM PagesShowOnlyPermitted == Spec => []OnlyPermitted
<1>1. IInv => OnlyPermitted
  BY DEF IInv, RequestOK, AnswerOK, OnlyPermitted
<1> QED BY <1>1, AccessInvariance, PTL

(* firmware_list(): nobody uploads, deletes or starts an update without the  *)
(* permission during the request.                                            *)
THEOREM OnlyThePermittedChange == Spec => []OnlyPermittedChanges
<1>1. IInv => OnlyPermittedChanges
  BY DEF IInv, RequestOK, AnswerOK, OnlyPermittedChanges
<1> QED BY <1>1, AccessInvariance, PTL

(* has_site_permission() and the filter: no device of a site where the       *)
(* permission was kept is missing from a page about that site.               *)
THEOREM PagesAreComplete == Spec => []NothingMissing
<1>1. IInv => NothingMissing
  BY DEF IInv, RequestOK, AnswerOK, NothingMissing
<1> QED BY <1>1, AccessInvariance, PTL

-----------------------------------------------------------------------------
(* Every update has a firmware, and the firmware it has is there. *)
FwInv ==
    /\ fw \in [Firmware -> {"none", "listed", "deleted", "gone"}]
    /\ \A x \in updates : x[2] \in Firmware
    /\ UpdateKeepsFirmware

(* No other step of an administrator touches a firmware or an update. *)
LEMMA AdminFirmware ==
    ASSUME AdminStep
    PROVE  updates' = updates /\ (fw' = fw \/ \E f \in Firmware : AdminDeleteFirmware(f))
BY DEF AdminStep, Change, CreateUser, DeleteUser, SetSuperuser, SetSite, DeleteSite, CreateMembership,
       AdminAddMembership, RevokeMembership, TransferDevice, AdminDeleteFirmware, LoadScenario,
       CheckForm, SaveMembership, SaveRouting, SaveRow

(* The rows of firmware and updates, whoever deletes one. *)
THEOREM FirmwareInvariance == Spec => []FwInv
<1>1. Init => FwInv
  BY DEF Init, FwInv, UpdateKeepsFirmware
<1>2. IInv /\ FwInv /\ [Next]_vars => FwInv'
  <2> SUFFICES ASSUME IInv, FwInv, [Next]_vars PROVE FwInv'
    OBVIOUS
  <2> USE DEF FwInv, UpdateKeepsFirmware
  <2>1. ASSUME UNCHANGED <<fw, updates>> PROVE FwInv'
    BY <2>1
  <2>2. ASSUME NEW r \in Request, RequestStep(r) PROVE FwInv'
    <3>1. req[r].pc = "save" => req[r].fw \in Firmware
      BY DEF IInv, RequestOK, FreshOK
    <3>2. CASE StartUpdate(r)
      <4>1. /\ fw[req[r].fw] \in {"listed", "deleted"} /\ req[r].fw \in Firmware
            /\ updates' = updates \cup {<<e, req[r].fw>> : e \in req[r].shown} /\ fw' = fw
        BY <3>1, <3>2 DEF StartUpdate, At
      <4>2. \A x \in updates' : x \in updates \/ x[2] = req[r].fw
        BY <4>1
      <4> QED BY <4>1, <4>2
    <3>3. CASE DeleteFw(r)
      BY <3>1, <3>3 DEF DeleteFw, At
    <3>4. ASSUME NEW f \in Firmware, UploadFw(r, f) PROVE FwInv'
      BY <3>4 DEF UploadFw
    <3>5. CASE UNCHANGED <<fw, updates>>
      BY <2>1, <3>5
    <3> QED BY <2>2, <3>2, <3>3, <3>4, <3>5
            DEF RequestStep, Begin, LoadUser, LoadSites, CurrentSite, DefaultSite, SwitchSite, Check, Show,
                Permit, ChooseEndpoint, ChooseFirmware, FindFw, Refuse, Reply
  <2>3. CASE AdminStep
    <3>1. ASSUME NEW f \in Firmware, AdminDeleteFirmware(f) PROVE FwInv'
      BY <3>1 DEF AdminDeleteFirmware, Change
    <3> QED BY <2>1, <2>3, <3>1, AdminFirmware
  <2>4. CASE UNCHANGED vars
    BY <2>1, <2>4 DEF vars
  <2> QED BY <2>2, <2>3, <2>4 DEF Next
<1> QED BY <1>1, <1>2, AccessInvariance, PTL DEF Spec

(* Firmware.is_deleted and on_delete=PROTECT: whoever deletes a firmware, on *)
(* the page or in the Django admin, the updates started with it keep it.     *)
THEOREM UpdatesKeepFirmware == Spec => []UpdateKeepsFirmware
<1>1. FwInv => UpdateKeepsFirmware
  BY DEF FwInv
<1> QED BY <1>1, FirmwareInvariance, PTL

(* bulk_assign: its UPDATE takes no device from the site another             *)
(* administrator gave it after the form was validated.                       *)
THEOREM BulkAssignmentKeepsRouting == Spec => BulkKeepsRouting
<1>1. [Next]_vars =>
        [form.kind = "bulk" /\ form' # form =>
            \A e \in Endpoint : siteOf[e] # None => siteOf'[e] = siteOf[e]]_vars
  <2> SUFFICES ASSUME [Next]_vars, form.kind = "bulk", form' # form, NEW e \in Endpoint, siteOf[e] # None
               PROVE  siteOf'[e] = siteOf[e]
    OBVIOUS
  <2>1. NoForm.kind = "none"
    BY DEF NoForm
  <2>2. SaveRouting
    BY <2>1 DEF vars, Next, WebStep, AdminStep, CreateUser, DeleteUser, SetSuperuser, SetSite, DeleteSite,
           CreateMembership, AdminAddMembership, RevokeMembership, TransferDevice,
           AdminDeleteFirmware, LoadScenario, CheckForm, SaveMembership
  <2> QED BY <2>2 DEF SaveRouting
<1> QED BY <1>1, PTL DEF Spec, BulkKeepsRouting

-----------------------------------------------------------------------------
(* No row refers to one that is gone. *)

There == {"active", "inactive"}

RowsOK ==
    /\ superuser \subseteq known /\ known \subseteq User
    /\ gone \subseteq User \ known
    /\ sites \in [Site -> {"new", "active", "inactive", "gone"}]
    /\ perms \in [User -> [Site -> SUBSET Perm]]
    /\ joined = [u \in User |-> [s \in Site |-> joined[u][s]]]
    /\ siteOf \in [Endpoint -> Site \cup {None}]

RefsOK ==
    /\ \A e \in Endpoint : siteOf[e] # None => sites[siteOf[e]] \in There
    /\ \A u \in User, s \in Site : joined[u][s] > 0 => u \in known /\ sites[s] \in There

(* A form that waits to be saved is about a user and a site that were there  *)
(* when it was validated: either may be gone.                                *)
FormOK ==
    /\ form \in Forms \cup {NoForm}
    /\ form # NoForm => sites[form.site] # "new"
    /\ form.kind = "membership" => form.user \in known \cup gone

DbInv == RowsOK /\ RefsOK /\ FormOK

LEMMA FormFacts ==
    ASSUME form \in Forms \cup {NoForm}
    PROVE  /\ form # NoForm <=> form.kind # "none"
           /\ form.kind \in {"none", "membership", "assign", "bulk"}
           /\ form # NoForm => form \in Forms /\ form.site \in Site
           /\ form.kind = "membership" =>
                 /\ form \in [kind : {"membership"}, user : User, site : Site, grant : Grants,
                              lost : BOOLEAN]
                 /\ form.user \in User /\ form.grant \in Grants /\ form.lost \in BOOLEAN
BY DEF Forms, NoForm

(* The permissions of a role and of a form are permissions. *)
LEMMA GrantsArePermissions ==
    /\ \A g \in Grants : g \subseteq Perm
    /\ \A admin \in BOOLEAN : RoleDefaults(admin) \subseteq Perm
BY SiteAccessAssumption DEF RoleDefaults, Perm

(* What only adds users and sites, or makes them gone, does not invalidate a  *)
(* form.                                                                     *)
LEMMA FormStays ==
    ASSUME DbInv, UNCHANGED form, known \cup gone \subseteq known' \cup gone',
           \A s \in Site : sites[s] # "new" => sites'[s] # "new"
    PROVE  FormOK'
<1>1. form # NoForm => form.site \in Site
  BY FormFacts DEF DbInv, FormOK
<1> QED BY <1>1 DEF DbInv, FormOK

(* A revoked membership is marked in the form that would save it. *)
LEMMA FormLost ==
    ASSUME DbInv, form.kind = "membership", form' = [form EXCEPT !.lost = TRUE],
           known \cup gone \subseteq known' \cup gone',
           \A s \in Site : sites[s] # "new" => sites'[s] # "new"
    PROVE  FormOK'
<1> DEFINE M == [kind : {"membership"}, user : User, site : Site, grant : Grants, lost : BOOLEAN]
<1>1. form \in M /\ form # NoForm /\ form.site \in Site
  BY FormFacts DEF DbInv, FormOK
<1>2. form' \in M /\ form'.site = form.site /\ form'.user = form.user
  BY <1>1
<1>3. form' \in Forms
  BY <1>2 DEF Forms
<1> QED BY <1>1, <1>2, <1>3 DEF DbInv, FormOK

LEMMA DeleteUserOK ==
    ASSUME DbInv, NEW u \in User, DeleteUser(u)
    PROVE  DbInv'
<1>1. /\ UNCHANGED <<sites, siteOf>>
      /\ known' = known \ {u} /\ gone' = gone \cup {u} /\ superuser' = superuser \ {u}
      /\ joined' = [joined EXCEPT ![u] = [s \in Site |-> 0]]
      /\ perms' = [perms EXCEPT ![u] = [s \in Site |-> {}]]
      /\ form' = IF form.kind = "membership" /\ form.user = u THEN [form EXCEPT !.lost = TRUE] ELSE form
  BY DEF DeleteUser
<1>2. perms' \in [User -> [Site -> SUBSET Perm]]
  BY <1>1 DEF DbInv, RowsOK
<1>3. \A v \in User, s \in Site : joined'[v][s] = IF v = u THEN 0 ELSE joined[v][s]
  BY <1>1 DEF DbInv, RowsOK
<1>4. joined' = [v \in User |-> [s \in Site |-> joined'[v][s]]]
  BY <1>1 DEF DbInv, RowsOK
<1>5. RowsOK'
  BY <1>1, <1>2, <1>4 DEF DbInv, RowsOK
<1>6. RefsOK'
  BY <1>1, <1>3 DEF DbInv, RefsOK
<1>7. FormOK'
  BY <1>1, FormStays, FormLost
<1> QED BY <1>5, <1>6, <1>7 DEF DbInv

(* SiteMembership.save() for a user and a site that are there *)
LEMMA SaveRowOK ==
    ASSUME DbInv, NEW u \in User, NEW s \in Site, NEW g \in SUBSET Perm, SaveRow(u, s, g),
           u \in known, sites[s] \in There
    PROVE  RowsOK' /\ RefsOK'
<1>1. /\ UNCHANGED <<known, gone, superuser, sites, siteOf>>
      /\ perms' = [perms EXCEPT ![u][s] = g]
      /\ \A v \in User, t \in Site : <<v, t>> # <<u, s>> => joined'[v][t] = joined[v][t]
      /\ joined' = [v \in User |-> [t \in Site |-> joined'[v][t]]]
  BY DEF DbInv, RowsOK, SaveRow
<1>2. perms' \in [User -> [Site -> SUBSET Perm]]
  BY <1>1 DEF DbInv, RowsOK
<1>3. RowsOK'
  BY <1>1, <1>2 DEF DbInv, RowsOK
<1>4. RefsOK'
  BY <1>1 DEF DbInv, RefsOK
<1> QED BY <1>3, <1>4

LEMMA DeleteSiteOK ==
    ASSUME DbInv, NEW s \in Site, DeleteSite(s)
    PROVE  DbInv'
<1>1. /\ UNCHANGED <<known, gone, superuser, siteOf, form>>
      /\ sites' = [sites EXCEPT ![s] = "gone"] /\ \A e \in Endpoint : siteOf[e] # s
      /\ sites[s] \in There
      /\ joined' = [u \in User |-> [joined[u] EXCEPT ![s] = 0]]
      /\ perms' = [u \in User |-> [perms[u] EXCEPT ![s] = {}]]
  BY DEF DeleteSite, There
<1>2. perms' \in [User -> [Site -> SUBSET Perm]]
  BY <1>1 DEF DbInv, RowsOK
<1>3. \A v \in User, t \in Site : joined'[v][t] = IF t = s THEN 0 ELSE joined[v][t]
  BY <1>1 DEF DbInv, RowsOK
<1>4. joined' = [v \in User |-> [t \in Site |-> joined'[v][t]]]
  BY <1>1 DEF DbInv, RowsOK
<1>5. \A t \in Site : sites'[t] = IF t = s THEN "gone" ELSE sites[t]
  BY <1>1 DEF DbInv, RowsOK
<1>6. RowsOK'
  BY <1>1, <1>2, <1>4 DEF DbInv, RowsOK
<1>7. RefsOK'
  <2>1. \A e \in Endpoint : siteOf'[e] # None => sites'[siteOf'[e]] \in There
    BY <1>1, <1>5 DEF DbInv, RefsOK, RowsOK
  <2>2. \A u \in User, t \in Site : joined'[u][t] > 0 => u \in known' /\ sites'[t] \in There
    BY <1>1, <1>3, <1>5 DEF DbInv, RefsOK
  <2> QED BY <2>1, <2>2 DEF RefsOK
<1>8. FormOK'
  BY <1>1, <1>5, FormStays
<1> QED BY <1>6, <1>7, <1>8 DEF DbInv

LEMMA LoadScenarioOK ==
    ASSUME DbInv, NEW c \in Scenarios, LoadScenario(c)
    PROVE  DbInv'
<1> DEFINE row(u) == IF u \in c.admins THEN {} ELSE DOMAIN c.member[u]
           dropped(u, s) == u \in DOMAIN c.member /\ s \notin row(u)
           listed(u, s) == u \in DOMAIN c.member /\ s \in row(u)
<1>1. /\ sites' = [s \in Site |-> IF s \in c.sites THEN "active" ELSE sites[s]]
      /\ known' = known \cup DOMAIN c.member /\ gone' = gone /\ DOMAIN c.member \cap gone = {}
      /\ superuser' = (superuser \ DOMAIN c.member) \cup c.admins
      /\ joined' = [u \in User |-> [s \in Site |->
                       IF dropped(u, s) THEN 0
                       ELSE IF listed(u, s) /\ joined[u][s] = 0 THEN Now(u) + s ELSE joined[u][s]]]
      /\ perms' = [u \in User |-> [s \in Site |->
                      IF dropped(u, s) THEN {}
                      ELSE IF listed(u, s) THEN c.member[u][s] ELSE perms[u][s]]]
      /\ siteOf' = [e \in Endpoint |-> IF e \in DOMAIN c.devices THEN c.devices[e] ELSE siteOf[e]]
      /\ form' = IF form.kind = "membership" /\ dropped(form.user, form.site)
                 THEN [form EXCEPT !.lost = TRUE] ELSE form
  BY DEF LoadScenario
<1>2. /\ c.sites \subseteq Site /\ c.admins \subseteq DOMAIN c.member
      /\ DOMAIN c.member \subseteq User /\ DOMAIN c.devices \subseteq Endpoint
      /\ \A u \in DOMAIN c.member :
            /\ DOMAIN c.member[u] \subseteq c.sites
            /\ \A s \in DOMAIN c.member[u] : c.member[u][s] \subseteq Perm
      /\ \A e \in DOMAIN c.devices : c.devices[e] \in c.sites
  BY SiteAccessAssumption
<1>3. \A u, s : listed(u, s) => u \in DOMAIN c.member /\ s \in c.sites /\ c.member[u][s] \subseteq Perm
  BY <1>2
<1> HIDE DEF row, dropped, listed
<1>4. perms' \in [User -> [Site -> SUBSET Perm]]
  BY <1>1, <1>3 DEF DbInv, RowsOK
<1>5. joined' = [v \in User |-> [t \in Site |-> joined'[v][t]]]
  BY <1>1
<1>6. sites' \in [Site -> {"new", "active", "inactive", "gone"}]
      /\ \A s \in Site : sites'[s] = IF s \in c.sites THEN "active" ELSE sites[s]
  BY <1>1 DEF DbInv, RowsOK
<1>7. siteOf' \in [Endpoint -> Site \cup {None}]
  BY <1>1, <1>2 DEF DbInv, RowsOK
<1>8. RowsOK'
  BY <1>1, <1>2, <1>4, <1>5, <1>6, <1>7 DEF DbInv, RowsOK
<1>9. RefsOK'
  <2>1. ASSUME NEW e \in Endpoint, siteOf'[e] # None PROVE sites'[siteOf'[e]] \in There
    <3>1. CASE e \in DOMAIN c.devices
      BY <1>1, <1>2, <1>6, <3>1 DEF There
    <3>2. CASE e \notin DOMAIN c.devices
      BY <1>1, <1>6, <2>1, <3>2 DEF There, DbInv, RowsOK, RefsOK
    <3> QED BY <3>1, <3>2
  <2>2. ASSUME NEW u \in User, NEW s \in Site, joined'[u][s] > 0
        PROVE  u \in known' /\ sites'[s] \in There
    <3>1. ~dropped(u, s)
      BY <1>1, <2>2
    <3>2. CASE listed(u, s)
      BY <1>1, <1>3, <1>6, <3>2 DEF There
    <3>3. CASE ~listed(u, s)
      BY <1>1, <1>6, <2>2, <3>1, <3>3 DEF There, DbInv, RefsOK
    <3> QED BY <3>2, <3>3
  <2> QED BY <2>1, <2>2 DEF RefsOK
<1>10. FormOK'
  BY <1>1, <1>6, FormStays, FormLost
<1> QED BY <1>8, <1>9, <1>10 DEF DbInv

LEMMA SaveMembershipOK ==
    ASSUME DbInv, SaveMembership
    PROVE  DbInv'
<1>1. /\ form.user \in User /\ form.site \in Site /\ form.grant \in SUBSET Perm
      /\ form.user \in known \cup gone /\ sites[form.site] # "new" /\ form' = NoForm
  BY FormFacts, GrantsArePermissions DEF SaveMembership, DbInv, FormOK
<1>2. FormOK'
  BY <1>1 DEF FormOK, NoForm
<1>3. CASE UNCHANGED dbVars
  BY <1>2, <1>3 DEF DbInv, dbVars, RowsOK, RefsOK
<1>4. CASE /\ sites[form.site] # "gone" /\ form.user \notin gone
           /\ SaveRow(form.user, form.site, form.grant)
  <2>1. sites[form.site] \in There /\ form.user \in known
    BY <1>1, <1>4 DEF DbInv, RowsOK, There
  <2> QED BY <1>1, <1>2, <1>4, <2>1, SaveRowOK DEF DbInv
<1> QED BY <1>3, <1>4 DEF SaveMembership

LEMMA SaveRoutingOK ==
    ASSUME DbInv, SaveRouting
    PROVE  DbInv'
<1>1. form.site \in Site /\ sites[form.site] # "new" /\ form' = NoForm
      /\ UNCHANGED <<known, gone, superuser, sites, joined, perms>>
  BY FormFacts DEF SaveRouting, DbInv, FormOK
<1>2. FormOK'
  BY <1>1 DEF FormOK, NoForm
<1>3. CASE UNCHANGED siteOf
  BY <1>1, <1>2, <1>3 DEF DbInv, RowsOK, RefsOK
<1>4. CASE sites[form.site] # "gone" /\ ~UNCHANGED siteOf
  <2>1. sites[form.site] \in There
    BY <1>1, <1>4 DEF DbInv, RowsOK, There
  <2>2. \A e \in Endpoint : siteOf'[e] \in {siteOf[e], form.site}
    BY <1>4 DEF SaveRouting
  <2>3. siteOf' \in [Endpoint -> Site \cup {None}]
    BY <1>1, <1>4 DEF SaveRouting, DbInv, RowsOK
  <2>4. RefsOK'
    BY <1>1, <2>1, <2>2 DEF DbInv, RefsOK
  <2> QED BY <1>1, <1>2, <2>3, <2>4 DEF DbInv, RowsOK
<1> QED BY <1>3, <1>4 DEF SaveRouting

(* The memberships one at a time *)
LEMMA MembershipOK ==
    ASSUME DbInv, NEW u \in User, NEW s \in Site,
           \/ \E g \in Grants : CreateMembership(u, s, g)
           \/ \E admin \in BOOLEAN : AdminAddMembership(u, s, admin)
           \/ RevokeMembership(u, s)
    PROVE  DbInv'
<1>1. ASSUME NEW g \in SUBSET Perm, SaveRow(u, s, g), u \in known, sites[s] \in There, UNCHANGED form
      PROVE  DbInv'
  <2>1. RowsOK' /\ RefsOK'
    BY <1>1, SaveRowOK
  <2>2. FormOK'
    BY <1>1, FormStays DEF SaveRow
  <2> QED BY <2>1, <2>2 DEF DbInv
<1>2. ASSUME NEW g \in Grants, CreateMembership(u, s, g) PROVE DbInv'
  BY <1>1, <1>2, GrantsArePermissions DEF CreateMembership, Active, There
<1>3. ASSUME NEW admin \in BOOLEAN, AdminAddMembership(u, s, admin) PROVE DbInv'
  BY <1>1, <1>3, GrantsArePermissions DEF AdminAddMembership, There
<1>4. CASE RevokeMembership(u, s)
  <2>1. /\ UNCHANGED <<known, gone, superuser, sites, siteOf>>
        /\ perms' = [perms EXCEPT ![u][s] = {}]
        /\ joined' = [joined EXCEPT ![u][s] = 0]
        /\ form' = IF form.kind = "membership" /\ form.user = u /\ form.site = s
                   THEN [form EXCEPT !.lost = TRUE] ELSE form
    BY <1>4 DEF RevokeMembership
  <2>2. perms' \in [User -> [Site -> SUBSET Perm]]
    BY <2>1 DEF DbInv, RowsOK
  <2>3. joined' = [v \in User |-> [t \in Site |-> joined'[v][t]]]
    BY <2>1 DEF DbInv, RowsOK
  <2>4. \A v \in User, t \in Site : joined'[v][t] > 0 => joined'[v][t] = joined[v][t]
    <3>1. \A v \in User, t \in Site : joined'[v][t] = IF v = u /\ t = s THEN 0 ELSE joined[v][t]
      BY <2>1 DEF DbInv, RowsOK
    <3> QED BY <3>1
  <2>5. RowsOK' /\ RefsOK'
    BY <2>1, <2>2, <2>3, <2>4 DEF DbInv, RowsOK, RefsOK
  <2>6. FormOK'
    BY <2>1, FormStays, FormLost
  <2> QED BY <2>5, <2>6 DEF DbInv
<1> QED BY <1>2, <1>3, <1>4

LEMMA AdminDbOK ==
    ASSUME DbInv, AdminStep
    PROVE  DbInv'
<1>1. ASSUME NEW u \in User, CreateUser(u) \/ SetSuperuser(u) PROVE DbInv'
  <2>1. FormOK'
    BY <1>1, FormStays DEF CreateUser, SetSuperuser
  <2> QED BY <1>1, <2>1 DEF CreateUser, DeleteUser, SetSuperuser, DbInv, RowsOK, RefsOK
<1>2. ASSUME NEW s \in Site, NEW from \in {"new", "active", "inactive"}, NEW to \in There,
             SetSite(s, from, to)
      PROVE  DbInv'
  <2>1. /\ UNCHANGED <<known, gone, superuser, joined, perms, siteOf, form>>
        /\ sites' = [sites EXCEPT ![s] = to]
    BY <1>2 DEF SetSite
  <2>2. /\ sites' \in [Site -> {"new", "active", "inactive", "gone"}]
        /\ \A t \in Site : sites'[t] = IF t = s THEN to ELSE sites[t]
    BY <2>1 DEF DbInv, RowsOK, There
  <2>3. FormOK'
    BY <2>1, <2>2, FormStays DEF There
  <2>4. RefsOK'
    BY <2>1, <2>2 DEF DbInv, RowsOK, RefsOK
  <2> QED BY <2>1, <2>2, <2>3, <2>4 DEF DbInv, RowsOK
<1>3. ASSUME NEW e \in Endpoint, NEW s \in Site, TransferDevice(e, s) PROVE DbInv'
  <2>1. /\ UNCHANGED <<known, gone, superuser, sites, joined, perms, form>>
        /\ siteOf' = [siteOf EXCEPT ![e] = s] /\ sites[s] = "active"
    BY <1>3 DEF TransferDevice, Active
  <2>2. FormOK'
    BY <2>1, FormStays
  <2> QED BY <2>1, <2>2 DEF DbInv, RowsOK, RefsOK, There
<1>4. ASSUME NEW f \in Firmware, AdminDeleteFirmware(f) PROVE DbInv'
  BY <1>4 DEF AdminDeleteFirmware, dbVars, DbInv, RowsOK, RefsOK, FormOK
<1>5. ASSUME NEW f \in Forms, CheckForm(f) PROVE DbInv'
  <2>1. form' = f /\ UNCHANGED dbVars
    BY <1>5 DEF CheckForm
  <2>2. f.site \in Site /\ (f.kind = "membership" => f.user \in User)
    BY DEF Forms
  <2>3. sites[f.site] \in There /\ (f.kind = "membership" => f.user \in known)
    BY <1>5, <2>2 DEF CheckForm, DbInv, RefsOK, Active, There
  <2> QED BY <2>1, <2>3 DEF dbVars, DbInv, RowsOK, RefsOK, FormOK, There
<1>6. ASSUME NEW s \in Site,
             \/ SetSite(s, "new", "active") \/ SetSite(s, "active", "inactive")
             \/ SetSite(s, "inactive", "active")
      PROVE  DbInv'
  BY <1>2, <1>6 DEF There
<1> QED BY <1>1, <1>3, <1>4, <1>5, <1>6, DeleteSiteOK, LoadScenarioOK, SaveMembershipOK, SaveRoutingOK,
           MembershipOK, DeleteUserOK
        DEF AdminStep

(* What a session, and the request that read it, names is a site or one of   *)
(* the other keys; "unassigned" only where the user is or was a Global Admin. *)
Entitled(c) == c.super \/ c.read = Unassigned \/ c.pc = "error" => c.user \in admins

ReadOK ==
    /\ session \in [User -> Key]
    /\ superuser \subseteq admins
    /\ \A u \in User : session[u] = Unassigned => u \in admins
    /\ \A r \in Request : req[r].read \in Key /\ Entitled(req[r])

HistoryTypes ==
    /\ held \in [Request -> [Perm -> SUBSET Site]]
    /\ kept \in [Request -> [Perm -> SUBSET Site]]
    /\ admins \subseteq User

LEMMA TrackTypes ==
    ASSUME HistoryTypes, Track, superuser' \subseteq User
    PROVE  HistoryTypes'
<1>1. \A u, p : SitesWithPermission(u, p)' \subseteq Site
  BY DEF SitesWithPermission, MemberSites, Active
<1>2. held' \in [Request -> [Perm -> SUBSET Site]]
  BY <1>1 DEF Track, HistoryTypes
<1>3. kept' \in [Request -> [Perm -> SUBSET Site]]
  BY <1>1 DEF Track, HistoryTypes
<1> QED BY <1>2, <1>3 DEF HistoryTypes, Track

(* A step that puts a key into the request, or leaves the one it has. *)
LEMMA StepRead ==
    ASSUME IInv, ReadOK, WebStep, Track, NEW r \in Request, NEW c, Shaped(c), c.read \in Key, Entitled(c),
           Step(r, c), UNCHANGED session
    PROVE  ReadOK'
<1>1. req'[r] = c /\ \A q \in Request : q # r => req'[q] = req[q]
  BY StepShape DEF IInv
<1>2. admins \subseteq admins' /\ superuser' \subseteq admins'
  BY DEF Track
<1> QED BY <1>1, <1>2 DEF ReadOK, Entitled

LEMMA RequestRead ==
    ASSUME IInv, ReadOK, WebStep, Track, NEW r \in Request, RequestStep(r)
    PROVE  ReadOK'
<1> DEFINE c == req[r]
<1>0. Shaped(c) /\ c.read \in Key /\ Entitled(c)
  BY DEF IInv, ReqOK, ReadOK
<1>1. ASSUME NEW d, Step(r, d), Shaped(d), d.read \in Key, Entitled(d), UNCHANGED session PROVE ReadOK'
  BY <1>1, StepRead
<1>2. ASSUME NEW d, Step(r, d), Shaped(d), d.read = c.read, d.user = c.user, d.super = c.super,
             d.pc # "error", UNCHANGED session
      PROVE  ReadOK'
  BY <1>0, <1>1, <1>2 DEF Entitled
<1>3. ASSUME NEW d, Shaped(d), NEW s
      PROVE  /\ Shaped(WithSite(d, s)) /\ WithSite(d, s).read = d.read /\ WithSite(d, s).user = d.user
             /\ WithSite(d, s).super = d.super /\ WithSite(d, s).pc = d.pc
  BY <1>3 DEF WithSite, Shaped, Fields
<1>4. \A x : Accessible(x) \subseteq Site
  BY DEF Accessible, MemberSites, Active
<1>5. ASSUME NEW u \in User, NEW p \in Pages, Begin(r, u, p) PROVE ReadOK'
  <2> DEFINE d == [Idle EXCEPT !.pc = "user", !.user = u, !.page = p, !.read = session[u]]
  <2>1. Step(r, d) /\ UNCHANGED session
    BY <1>5 DEF Begin
  <2>2. Idle.super = FALSE
    BY DEF Idle
  <2>3. Shaped(d) /\ d.read = session[u] /\ d.user = u /\ d.pc = "user" /\ ~d.super
    BY <2>2, IdleShaped DEF Shaped, Fields
  <2> HIDE DEF d
  <2>4. session[u] \in Key /\ Entitled(d)
    BY <2>3 DEF ReadOK, Entitled
  <2> QED BY <1>1, <2>1, <2>3, <2>4
<1>6. CASE LoadUser(r)
  <2>1. UNCHANGED session
    BY <1>6 DEF LoadUser
  <2>2. CASE Step(r, [c EXCEPT !.pc = "sites", !.super = c.user \in superuser])
    <3> DEFINE d == [c EXCEPT !.pc = "sites", !.super = c.user \in superuser]
    <3>1. Shaped(d) /\ d.read = c.read /\ d.user = c.user /\ d.pc = "sites"
          /\ d.super = (c.user \in superuser)
      BY <1>0 DEF Shaped, Fields
    <3>2. Step(r, d)
      BY <2>2
    <3> HIDE DEF d
    <3>3. Entitled(d)
      BY <1>0, <3>1 DEF Entitled, ReadOK
    <3> QED BY <1>0, <1>1, <2>1, <3>1, <3>2, <3>3
  <2>3. CASE Step(r, [c EXCEPT !.pc = "reply"])
    <3> DEFINE d == [c EXCEPT !.pc = "reply"]
    <3>1. Shaped(d) /\ d.read = c.read /\ d.user = c.user /\ d.super = c.super /\ d.pc = "reply"
      BY <1>0 DEF Shaped, Fields
    <3>2. Step(r, d)
      BY <2>3
    <3> HIDE DEF d
    <3> QED BY <1>2, <2>1, <3>1, <3>2
  <2> QED BY <1>6, <2>2, <2>3 DEF LoadUser
<1>7. CASE LoadSites(r)
  <2> DEFINE d == [c EXCEPT !.pc = "site", !.several = \E s, t \in Accessible(c) : s # t]
  <2>1. Shaped(d) /\ d.read = c.read /\ d.user = c.user /\ d.super = c.super /\ d.pc = "site"
    BY <1>0 DEF Shaped, Fields
  <2>2. Step(r, d) /\ UNCHANGED session
    BY <1>7 DEF LoadSites
  <2> HIDE DEF d
  <2> QED BY <1>2, <2>1, <2>2
<1>8. CASE CurrentSite(r)
  <2>1. UNCHANGED session
    BY <1>8 DEF CurrentSite
  <2>2. ASSUME Step(r, [c EXCEPT !.pc = "view", !.key = c.read]) PROVE ReadOK'
    <3> DEFINE d == [c EXCEPT !.pc = "view", !.key = c.read]
    <3>1. Shaped(d) /\ d.read = c.read /\ d.user = c.user /\ d.super = c.super /\ d.pc = "view"
      BY <1>0 DEF Shaped, Fields
    <3>2. Step(r, d)
      BY <2>2
    <3> HIDE DEF d
    <3> QED BY <1>2, <2>1, <3>1, <3>2
  <2>3. ASSUME Step(r, [WithSite(c, c.read) EXCEPT !.pc = "view"]) PROVE ReadOK'
    <3> DEFINE w == WithSite(c, c.read)
               d == [w EXCEPT !.pc = "view"]
    <3>1. Shaped(w) /\ w.read = c.read /\ w.user = c.user /\ w.super = c.super
      BY <1>0, <1>3
    <3>2. Step(r, d)
      BY <2>3
    <3> HIDE DEF w
    <3>3. Shaped(d) /\ d.read = c.read /\ d.user = c.user /\ d.super = c.super /\ d.pc = "view"
      BY <3>1 DEF Shaped, Fields
    <3> HIDE DEF d
    <3> QED BY <1>2, <2>1, <3>2, <3>3
  <2>4. ASSUME NEW l \in {"default", "error"}, Step(r, [c EXCEPT !.pc = l]),
               l = "error" => c.read = Unassigned
        PROVE  ReadOK'
    <3> DEFINE d == [c EXCEPT !.pc = l]
    <3>1. Shaped(d) /\ d.read = c.read /\ d.user = c.user /\ d.super = c.super /\ d.pc = l
      BY <1>0 DEF Shaped, Fields
    <3>2. Step(r, d)
      BY <2>4
    <3> HIDE DEF d
    <3>3. Entitled(d)
      BY <1>0, <2>4, <3>1 DEF Entitled
    <3> QED BY <1>0, <1>1, <2>1, <3>1, <3>2, <3>3
  <2> QED BY <1>8, <2>2, <2>3, <2>4 DEF CurrentSite
<1>9. CASE DefaultSite(r)
  <2> DEFINE v == [c EXCEPT !.pc = "view"]
  <2>1. /\ Shaped(v) /\ v.read = c.read /\ v.user = c.user /\ v.super = c.super /\ v.pc = "view"
        /\ UNCHANGED session
    BY <1>0, <1>9 DEF Shaped, Fields, DefaultSite
  <2>2. (First(v) = {} /\ Step(r, v))
        \/ \E s \in First(v) : Step(r, [WithSite(v, s) EXCEPT !.read = s, !.save = TRUE])
    BY <1>9 DEF DefaultSite
  <2> HIDE DEF v
  <2>3. ASSUME NEW s \in First(v), Step(r, [WithSite(v, s) EXCEPT !.read = s, !.save = TRUE])
        PROVE  ReadOK'
    <3> DEFINE w == WithSite(v, s)
               d == [w EXCEPT !.read = s, !.save = TRUE]
    <3>1. Shaped(w) /\ w.user = c.user /\ w.super = c.super /\ w.pc = "view"
      BY <1>3, <2>1
    <3>2. Step(r, d)
      BY <2>3
    <3> HIDE DEF w
    <3>3. Shaped(d) /\ d.read = s /\ d.user = c.user /\ d.super = c.super /\ d.pc = "view"
      BY <3>1 DEF Shaped, Fields
    <3>4. s \in Key /\ s # Unassigned
      BY <1>4, SiteAccessAssumption DEF First, Key
    <3> HIDE DEF d
    <3>5. Entitled(d)
      BY <1>0, <3>3, <3>4 DEF Entitled
    <3> QED BY <1>1, <2>1, <3>2, <3>3, <3>4, <3>5
  <2> QED BY <1>2, <2>1, <2>2, <2>3
<1>10. ASSUME NEW t \in Key \ {None}, SwitchSite(r, t) PROVE ReadOK'
  <2> DEFINE v == [c EXCEPT !.pc = "reply"]
             d == [v EXCEPT !.read = t, !.save = TRUE]
  <2>1. /\ Shaped(v) /\ v.read = c.read /\ v.user = c.user /\ v.super = c.super /\ v.pc = "reply"
        /\ UNCHANGED session
    BY <1>0, <1>10 DEF Shaped, Fields, SwitchSite
  <2>2. \/ Step(r, v)
        \/ Step(r, d) /\ ((t = All /\ v.several) \/ (t = Unassigned /\ v.super) \/ t \in Accessible(v))
    BY <1>10 DEF SwitchSite
  <2> HIDE DEF v
  <2>3. Shaped(d) /\ d.read = t /\ d.user = c.user /\ d.super = c.super /\ d.pc = "reply"
    BY <2>1 DEF Shaped, Fields
  <2> HIDE DEF d
  <2>4. CASE Step(r, v)
    BY <1>2, <2>1, <2>4
  <2>5. CASE Step(r, d) /\ ((t = All /\ v.several) \/ (t = Unassigned /\ v.super) \/ t \in Accessible(v))
    <3>1. t = Unassigned => c.super
      BY <1>4, <2>1, <2>5, SiteAccessAssumption
    <3>2. Entitled(d)
      BY <1>0, <2>3, <3>1 DEF Entitled
    <3> QED BY <1>1, <2>1, <2>3, <2>5, <3>2
  <2> QED BY <2>2, <2>4, <2>5
<1>11. ASSUME NEW l \in {"act", "form", "reply"}, Step(r, [c EXCEPT !.pc = l]), UNCHANGED session
       PROVE  ReadOK'
  <2> DEFINE d == [c EXCEPT !.pc = l]
  <2>1. Shaped(d) /\ d.read = c.read /\ d.user = c.user /\ d.super = c.super /\ d.pc = l
    BY <1>0 DEF Shaped, Fields
  <2>2. Step(r, d)
    BY <1>11
  <2> HIDE DEF d
  <2> QED BY <1>2, <1>11, <2>1, <2>2
<1>12. ASSUME NEW l \in {"reply", "firmware"}, NEW w, NEW E,
              Step(r, [c EXCEPT !.pc = l, !.where = w, !.shown = E]), UNCHANGED session
       PROVE  ReadOK'
  <2> DEFINE d == [c EXCEPT !.pc = l, !.where = w, !.shown = E]
  <2>1. Shaped(d) /\ d.read = c.read /\ d.user = c.user /\ d.super = c.super /\ d.pc = l
    BY <1>0 DEF Shaped, Fields
  <2>2. Step(r, d)
    BY <1>12
  <2> HIDE DEF d
  <2> QED BY <1>2, <1>12, <2>1, <2>2
<1>13. CASE Check(r)
  <2> DEFINE d == [c EXCEPT !.pc = "reply", !.where = siteOf]
  <2>1. UNCHANGED session /\ (Step(r, [c EXCEPT !.pc = "act"]) \/ Step(r, d))
    BY <1>13 DEF Check
  <2>2. Shaped(d) /\ d.read = c.read /\ d.user = c.user /\ d.super = c.super /\ d.pc = "reply"
    BY <1>0 DEF Shaped, Fields
  <2> HIDE DEF d
  <2> QED BY <1>2, <1>11, <2>1, <2>2
<1>14. CASE Show(r) \/ \E e \in Endpoint : ChooseEndpoint(r, e)
  BY <1>12, <1>14 DEF Show, ChooseEndpoint
<1>15. CASE Permit(r) \/ Refuse(r)
  <2>1. UNCHANGED session /\ (Step(r, [c EXCEPT !.pc = "form"]) \/ Step(r, [c EXCEPT !.pc = "reply"]))
    BY <1>15 DEF Permit, Refuse
  <2> QED BY <1>11, <2>1
<1>16. ASSUME NEW f \in Firmware, ChooseFirmware(r, f) \/ FindFw(r, f) PROVE ReadOK'
  <2> DEFINE d == [c EXCEPT !.pc = "save", !.fw = f]
  <2>1. Shaped(d) /\ d.read = c.read /\ d.user = c.user /\ d.super = c.super /\ d.pc = "save"
    BY <1>0 DEF Shaped, Fields
  <2>2. Step(r, d) /\ UNCHANGED session
    BY <1>16 DEF ChooseFirmware, FindFw
  <2> HIDE DEF d
  <2> QED BY <1>2, <2>1, <2>2
<1>17. CASE (\E f \in Firmware : UploadFw(r, f)) \/ StartUpdate(r) \/ DeleteFw(r)
  <2> DEFINE d == [c EXCEPT !.pc = "reply", !.done = TRUE]
  <2>1. Shaped(d) /\ d.read = c.read /\ d.user = c.user /\ d.super = c.super /\ d.pc = "reply"
    BY <1>0 DEF Shaped, Fields
  <2>2. Step(r, d) /\ UNCHANGED session
    BY <1>17 DEF UploadFw, StartUpdate, DeleteFw, Done
  <2> HIDE DEF d
  <2> QED BY <1>2, <2>1, <2>2
<1>18. CASE Reply(r)
  <2>1. req'[r] = Idle /\ \A q \in Request : q # r => req'[q] = req[q]
    BY <1>18, StepShape, IdleShaped DEF Reply, IInv
  <2>2. Idle.read = None /\ None \in Key /\ Idle.super = FALSE /\ Idle.pc = "idle" /\ None # Unassigned
    BY SiteAccessAssumption DEF Idle, Key
  <2>3. session' \in [User -> Key]
        /\ \A u \in User : session'[u] = session[u] \/ (u = c.user /\ session'[u] = c.read)
    BY <1>0, <1>18 DEF Reply, ReadOK
  <2>4. admins \subseteq admins' /\ superuser' \subseteq admins'
    BY DEF Track
  <2>5. \A u \in User : session'[u] = Unassigned => u \in admins'
    BY <1>0, <2>3, <2>4 DEF Entitled, ReadOK
  <2> QED BY <2>1, <2>2, <2>3, <2>4, <2>5 DEF ReadOK, Entitled
<1> QED BY <1>5, <1>6, <1>7, <1>8, <1>9, <1>10, <1>13, <1>14, <1>15, <1>16, <1>17, <1>18 DEF RequestStep

TInv == DbInv /\ ReadOK /\ HistoryTypes

LEMMA InitTInv == Init => TInv
<1> SUFFICES ASSUME Init PROVE TInv
  OBVIOUS
<1>1. RowsOK
  <2>1. \A g \in Grants \cup {{}} : g \in SUBSET Perm
    BY GrantsArePermissions
  <2> QED BY <2>1 DEF Init, RowsOK, Active
<1>2. RefsOK
  BY DEF Init, RefsOK, Active, There
<1>3. FormOK
  BY DEF Init, FormOK, NoForm
<1>4. ReadOK
  BY SiteAccessAssumption DEF Init, ReadOK, Idle, Key, Entitled
<1>5. HistoryTypes
  BY DEF Init, HistoryTypes
<1> QED BY <1>1, <1>2, <1>3, <1>4, <1>5 DEF TInv, DbInv

(* Whatever administrators change while requests are handled and forms wait  *)
(* to be saved.                                                              *)
LEMMA NextTInv == IInv /\ TInv /\ [Next]_vars => TInv'
<1> SUFFICES ASSUME IInv, TInv, [Next]_vars PROVE TInv'
  OBVIOUS
<1>1. ASSUME NEW r \in Request, RequestStep(r), WebStep, Track PROVE TInv'
  <2>1. DbInv'
    BY <1>1 DEF WebStep, dbVars, TInv, DbInv, RowsOK, RefsOK, FormOK
  <2>2. superuser' \subseteq User
    BY <2>1 DEF DbInv, RowsOK
  <2> QED BY <1>1, <2>1, <2>2, RequestRead, TrackTypes DEF TInv
<1>2. ASSUME AdminStep, Track PROVE TInv'
  <2>1. UNCHANGED <<session, req>>
    BY <1>2 DEF AdminStep, Change, CreateUser, DeleteUser, SetSuperuser, SetSite, DeleteSite, CreateMembership,
       AdminAddMembership, RevokeMembership, TransferDevice, AdminDeleteFirmware, LoadScenario,
       CheckForm, SaveMembership, SaveRouting
  <2>2. ReadOK'
    <3>1. admins \subseteq admins' /\ superuser' \subseteq admins'
      BY <1>2 DEF Track
    <3> QED BY <2>1, <3>1 DEF TInv, ReadOK, Entitled
  <2>3. DbInv' /\ superuser' \subseteq User
    BY <1>2, AdminDbOK DEF TInv, DbInv, RowsOK
  <2> QED BY <1>2, <2>2, <2>3, TrackTypes DEF TInv
<1>3. CASE UNCHANGED vars
  BY <1>3 DEF vars, dbVars, TInv, DbInv, RowsOK, RefsOK, FormOK, ReadOK, Entitled, HistoryTypes
<1> QED BY <1>1, <1>2, <1>3 DEF Next

(* Types, and the rows that refer to others: no device and no membership is  *)
(* ever left at a site that is not there, or of a user who is not, neither   *)
(* by a form saved late nor by loading a scenario.                           *)
THEOREM RowsReferToRows == Spec => []TypeOK
<1>1. TInv /\ FwInv => TypeOK
  BY DEF TInv, DbInv, RowsOK, RefsOK, FormOK, ReadOK, HistoryTypes, FwInv, TypeOK, There
<1> QED BY <1>1, InitTInv, NextTInv, AccessInvariance, FirmwareInvariance, PTL DEF Spec

(* switch_site() keeps "unassigned" for Global Admins only: the middleware's  *)
(* failure on it, the 500 of every page, can only meet a user who has been    *)
(* one.                                                                      *)
THEOREM OnlyTheDemotedFail == Spec => []ErrorOnlyAfterDemotion
<1>1. TInv => ErrorOnlyAfterDemotion
  BY DEF TInv, ReadOK, Entitled, ErrorOnlyAfterDemotion
<1> QED BY <1>1, InitTInv, NextTInv, AccessInvariance, PTL DEF Spec
=============================================================================
