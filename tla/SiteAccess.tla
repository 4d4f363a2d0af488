----------------------------- MODULE SiteAccess -----------------------------
(***************************************************************************)
(* Who sees and does what in the web interface.  A request runs through     *)
(* SiteContextMiddleware, the permission check of its view, the queries of  *)
(* the view and the saving of the session, each a database statement of its *)
(* own, while Global Admins change users, sites, memberships and the        *)
(* routing of devices on the permissions page and in the Django admin.      *)
(*                                                                          *)
(* A site is its place in the order of names.  joined[u][s] orders u's      *)
(* memberships by joined_at; 0 stands for no row.                           *)
(***************************************************************************)
EXTENDS Naturals

CONSTANTS
    User, Site, Endpoint, Firmware,
    Request,     \* requests handled at a time
    Grants,      \* the permission sets administrators hand out
    Pages,       \* the pages users ask for
    Scenarios,   \* configurations of load_scenario: [sites, admins, member, devices]
    All, Unassigned,  \* the two session keys that are not a site
    None,        \* no site, no user, no session key
    MaxChanges   \* bound: changes by administrators, and of firmware

Perm == {"can_view_overview", "can_view_firmware", "can_view_data_analysis",
         "can_manage_firmware", "can_perform_operations", "can_manage_devices"}

(* What a page checks before anything else (403), and what it needs for the *)
(* devices it shows or the change it makes.  firmware_form is the list of    *)
(* devices offered for an update, a part of the firmware page.              *)
Gate == [devices       |-> "can_view_overview",
         data_analysis |-> "can_view_data_analysis",
         firmware      |-> "can_view_firmware",
         firmware_form |-> "can_view_firmware",
         start_update  |-> "can_view_firmware",
         upload_fw     |-> "can_view_firmware",
         delete_fw     |-> "can_view_firmware"]

Need == [Gate EXCEPT !.firmware_form = "can_perform_operations",
                     !.start_update  = "can_perform_operations",
                     !.upload_fw     = "can_manage_firmware",
                     !.delete_fw     = "can_manage_firmware"]

Shows == {"devices", "data_analysis", "firmware", "firmware_form"}
Posts == {"start_update", "upload_fw", "delete_fw"}

(* SiteMembership.apply_role_defaults *)
RoleDefaults(admin) ==
    {"can_view_overview", "can_view_data_analysis"} \cup
    IF admin THEN {"can_view_firmware", "can_manage_firmware", "can_perform_operations"}
    ELSE {}

ASSUME SiteAccessAssumption ==
    /\ Site \subseteq Nat
    /\ Site \cap {All, Unassigned, None} = {}
    /\ All # Unassigned /\ All # None /\ Unassigned # None
    /\ None \notin User
    /\ Grants \subseteq SUBSET Perm
    /\ Pages \subseteq DOMAIN Gate \cup {"switch_site"}
    /\ \A c \in Scenarios :
          /\ c.sites \subseteq Site /\ c.admins \subseteq DOMAIN c.member
          /\ DOMAIN c.member \subseteq User /\ DOMAIN c.devices \subseteq Endpoint
          /\ \A u \in DOMAIN c.member :
                /\ DOMAIN c.member[u] \subseteq c.sites
                /\ \A s \in DOMAIN c.member[u] : c.member[u][s] \subseteq Perm
          /\ \A e \in DOMAIN c.devices : c.devices[e] \in c.sites
    /\ MaxChanges \in Nat

Key == Site \cup {All, Unassigned, None}

VARIABLES
    known,      \* users with an account
    gone,       \* users whose account was deleted
    superuser,  \* Global Admins
    sites,      \* each site: "new" (not created), "active", "inactive", "gone"
    joined,     \* SiteMembership rows by user and site, in the order they were made
    perms,      \* their permission fields
    siteOf,     \* Endpoint.site
    fw,         \* Firmware rows: "none", "listed", "deleted" (soft), "gone"
    updates,    \* FirmwareUpdate rows started from the firmware page
    session,    \* request.session["current_site_id"] of each user
    req,        \* requests under way
    form,       \* a form of the permissions page, valid but not saved
    held,       \* history: where the user had each permission during the request
    kept,       \* history: where he had it all through the request
    admins,     \* history: who has ever been a Global Admin
    changes     \* history: changes so far

dbVars == <<known, gone, superuser, sites, joined, perms, siteOf>>
vars == <<dbVars, fw, updates, session, req, form, held, kept, admins, changes>>

-----------------------------------------------------------------------------
(* core/permissions.py *)

Active == {s \in Site : sites[s] = "active"}

MemberSites(u) == {s \in Active : joined[u][s] > 0}

(* sites_with_permission(), for a user who is not a superuser *)
SitesWithPermission(u, p) == {s \in MemberSites(u) : p \in perms[u][s]}

(* Mutant of HasPermission: the check as access_control.rst prints it, which *)
(* knows no "All Devices".                                                   *)
HasSitePermissionOnly(c, p) == c.super \/ p \in c.grant

(* has_site_permission(): by the membership the middleware found *)
HasPermission(c, p) ==
    \/ c.super
    \/ c.key = All /\ SitesWithPermission(c.user, p) # {}
    \/ c.key # All /\ p \in c.grant

(* Mutant of Filtered: "All Devices" means every site of the user. *)
FilteredByMembership(c, p) ==
    {e \in Endpoint :
        \/ c.key = Unassigned /\ c.super /\ siteOf[e] = None
        \/ c.key = All /\ (c.super \/ siteOf[e] \in MemberSites(c.user))
        \/ c.key \in Site /\ HasPermission(c, p) /\ siteOf[e] = c.key}

(* get_site_filtered_endpoints(); request.site is c.key where it is a site *)
Filtered(c, p) ==
    {e \in Endpoint :
        \/ c.key = Unassigned /\ c.super /\ siteOf[e] = None
        \/ c.key = All /\ (c.super \/ siteOf[e] \in SitesWithPermission(c.user, p))
        \/ c.key \in Site /\ HasPermission(c, p) /\ siteOf[e] = c.key}

-----------------------------------------------------------------------------
Idle == [pc |-> "idle", user |-> None, page |-> "none", super |-> FALSE, read |-> None,
         several |-> FALSE, key |-> None, grant |-> {}, save |-> FALSE,
         shown |-> {}, where |-> [e \in Endpoint |-> None], fw |-> None, done |-> FALSE]

(* An installation with users, sites, members and devices. *)
Init ==
    /\ known \in SUBSET User
    /\ gone = {}
    /\ superuser \in SUBSET known
    /\ sites \in [Site -> {"new", "active"}]
    /\ perms \in [User -> [Site -> Grants \cup {{}}]]
    /\ \A u \in User, s \in Site : perms[u][s] # {} => u \in known /\ sites[s] = "active"
    /\ joined = [u \in User |-> [s \in Site |-> IF perms[u][s] # {} THEN s ELSE 0]]
    /\ siteOf \in [Endpoint -> Active \cup {None}]
    /\ fw \in [Firmware -> {"none", "listed"}]
    /\ updates = {}
    /\ session = [u \in User |-> None]
    /\ req = [r \in Request |-> Idle]
    /\ form = [kind |-> "none"]
    /\ held = [r \in Request |-> [p \in Perm |-> {}]]
    /\ kept = [r \in Request |-> [p \in Perm |-> {}]]
    /\ admins = superuser
    /\ changes = 0

-----------------------------------------------------------------------------
(* SiteContextMiddleware *)

Step(r, c) == req' = [req EXCEPT ![r] = c]

WebStep == UNCHANGED <<dbVars, form>>

Accessible(c) == IF c.super THEN Active ELSE MemberSites(c.user)

(* The site becomes the context of the request. *)
WithSite(c, s) == [c EXCEPT !.key = s, !.grant = IF c.super THEN {} ELSE perms[c.user][s]]

(* A request with the cookie of user u: his session is read, *)
Begin(r, u, p) ==
    /\ req[r].pc = "idle"
    /\ u \in known \cup gone
    /\ Step(r, [Idle EXCEPT !.pc = "user", !.user = u, !.page = p, !.read = session[u]])
    /\ UNCHANGED <<fw, updates, session, changes>>

(* his account (without one he is sent to the login page), *)
LoadUser(r) ==
    LET c == req[r] IN
    /\ c.pc = "user"
    /\ \/ c.user \in known /\ Step(r, [c EXCEPT !.pc = "sites", !.super = c.user \in superuser])
       \/ c.user \notin known /\ Step(r, [c EXCEPT !.pc = "reply"])
    /\ UNCHANGED <<fw, updates, session, changes>>

(* and the sites he may choose from. *)
LoadSites(r) ==
    LET c == req[r] IN
    /\ c.pc = "sites"
    /\ Step(r, [c EXCEPT !.pc = "site", !.several = \E s, t \in Accessible(c) : s # t])
    /\ UNCHANGED <<fw, updates, session, changes>>

(* Mutant of CurrentSite: the session is trusted. *)
CurrentSiteTrusted(r) ==
    LET c == req[r]
        view(d) == [d EXCEPT !.pc = "view"]
    IN  /\ c.pc = "site"
        /\ Step(r, IF c.read \in Site THEN view(WithSite(c, c.read))
                   ELSE IF c.read = None THEN [c EXCEPT !.pc = "default"]
                   ELSE view([c EXCEPT !.key = c.read]))
        /\ UNCHANGED <<fw, updates, session, changes>>

(* The site the session names, if he may still access it.  Looking up the   *)
(* membership for the key "unassigned", which a Global Admin leaves in his  *)
(* session, raises ValueError.                                              *)
CurrentSite(r) ==
    LET c == req[r] IN
    /\ c.pc = "site"
    /\ \/ /\ c.read = All \/ (c.super /\ c.read = Unassigned)
          /\ Step(r, [c EXCEPT !.pc = "view", !.key = c.read])
       \/ /\ c.read \in Accessible(c)
          /\ Step(r, [WithSite(c, c.read) EXCEPT !.pc = "view"])
       \/ /\ c.read \in (Site \cup {None}) \ Accessible(c)
          /\ Step(r, [c EXCEPT !.pc = "default"])
       \/ /\ ~c.super /\ c.read = Unassigned
          /\ Step(r, [c EXCEPT !.pc = "error"])
    /\ UNCHANGED <<fw, updates, session, changes>>

(* _get_default_site(): the first site by name, or the latest membership *)
First(c) ==
    {s \in Accessible(c) : \A t \in Accessible(c) :
        IF c.super THEN s <= t ELSE joined[c.user][t] <= joined[c.user][s]}

DefaultSite(r) ==
    LET c == [req[r] EXCEPT !.pc = "view"] IN
    /\ req[r].pc = "default"
    /\ \/ \E s \in First(c) : Step(r, [WithSite(c, s) EXCEPT !.read = s, !.save = TRUE])
       \/ First(c) = {} /\ Step(r, c)
    /\ UNCHANGED <<fw, updates, session, changes>>

-----------------------------------------------------------------------------
(* frontend/views.py *)

(* Mutant of SwitchSite: "unassigned" is kept for anyone. *)
SwitchSiteUnassigned(r, t) ==
    LET c == [req[r] EXCEPT !.pc = "reply"]
        ok == \/ t = All /\ c.several
              \/ t = Unassigned
              \/ t \in Accessible(c)
    IN  /\ req[r].pc = "view" /\ c.page = "switch_site"
        /\ Step(r, IF ok THEN [c EXCEPT !.read = t, !.save = TRUE] ELSE c)
        /\ UNCHANGED <<fw, updates, session, changes>>

(* switch_site(): the choice is kept if the user has it *)
SwitchSite(r, t) ==
    LET c == [req[r] EXCEPT !.pc = "reply"]
        ok == \/ t = All /\ c.several
              \/ t = Unassigned /\ c.super
              \/ t \in Accessible(c)
    IN  /\ req[r].pc = "view" /\ c.page = "switch_site"
        /\ Step(r, IF ok THEN [c EXCEPT !.read = t, !.save = TRUE] ELSE c)
        /\ UNCHANGED <<fw, updates, session, changes>>

(* _check_site_permission(): go on, or 403 *)
Check(r) ==
    LET c == req[r] IN
    /\ c.pc = "view" /\ c.page \in DOMAIN Gate
    /\ Step(r, IF HasPermission(c, Gate[c.page]) THEN [c EXCEPT !.pc = "act"]
               ELSE [c EXCEPT !.pc = "reply", !.where = siteOf])
    /\ UNCHANGED <<fw, updates, session, changes>>

(* devices(), dashboard(), data_analysis(), firmware_list(): the devices    *)
(* the page is about                                                        *)
Show(r) ==
    LET c == req[r] IN
    /\ c.pc = "act" /\ c.page \in Shows
    /\ Step(r, [c EXCEPT !.pc = "reply", !.where = siteOf, !.shown = Filtered(c, Need[c.page])])
    /\ UNCHANGED <<fw, updates, session, changes>>

(* firmware_list(), a POST: the permission for what it asks for, or 403 *)
Permit(r) ==
    LET c == req[r] IN
    /\ c.pc = "act" /\ c.page \in Posts
    /\ Step(r, [c EXCEPT !.pc = IF HasPermission(c, Need[c.page]) THEN "form" ELSE "reply"])
    /\ UNCHANGED <<fw, updates, session, changes>>

At(r, pc, p) == req[r].pc = pc /\ req[r].page = p

Done(r) ==
    /\ changes < MaxChanges
    /\ changes' = changes + 1
    /\ Step(r, [req[r] EXCEPT !.pc = "reply", !.done = TRUE])

(* FirmwareUpdateForm.is_valid() looks up the endpoint among those the user  *)
(* may operate,                                                             *)
ChooseEndpoint(r, e) ==
    /\ At(r, "form", "start_update")
    /\ e \in Filtered(req[r], Need["start_update"])
    /\ Step(r, [req[r] EXCEPT !.pc = "firmware", !.where = siteOf, !.shown = {e}])
    /\ UNCHANGED <<fw, updates, session, changes>>

(* and the firmware among all rows, deleted ones as well: the list is        *)
(* narrowed only for the page that is rendered.                             *)
ChooseFirmware(r, f) ==
    /\ At(r, "firmware", "start_update")
    /\ fw[f] \in {"listed", "deleted"}
    /\ Step(r, [req[r] EXCEPT !.pc = "save", !.fw = f])
    /\ UNCHANGED <<fw, updates, session, changes>>

(* Mutant of StartUpdate: the row the form found is taken to be there. *)
StartUpdateUnchecked(r) ==
    /\ At(r, "save", "start_update")
    /\ updates' = updates \cup {<<e, req[r].fw>> : e \in req[r].shown}
    /\ Done(r)
    /\ UNCHANGED <<fw, session>>

(* save() inserts the row, wherever the device is by now; the database        *)
(* refuses it (500, Refuse) if the firmware is gone.                         *)
StartUpdate(r) ==
    /\ At(r, "save", "start_update")
    /\ fw[req[r].fw] \in {"listed", "deleted"}
    /\ updates' = updates \cup {<<e, req[r].fw>> : e \in req[r].shown}
    /\ Done(r)
    /\ UNCHANGED <<fw, session>>

UploadFw(r, f) ==
    /\ At(r, "form", "upload_fw")
    /\ fw[f] = "none"
    /\ fw' = [fw EXCEPT ![f] = "listed"]
    /\ Done(r)
    /\ UNCHANGED <<updates, session>>

(* Firmware.objects.get() *)
FindFw(r, f) ==
    /\ At(r, "form", "delete_fw")
    /\ fw[f] \in {"listed", "deleted"}
    /\ Step(r, [req[r] EXCEPT !.pc = "save", !.fw = f])
    /\ UNCHANGED <<fw, updates, session, changes>>

(* Mutant of DeleteFw: the row goes. *)
DeleteFwRow(r) ==
    /\ At(r, "save", "delete_fw")
    /\ fw' = [fw EXCEPT ![req[r].fw] = "gone"]
    /\ Done(r)
    /\ UNCHANGED <<updates, session>>

(* is_deleted = True.  save() inserts the row again if it has gone since; if *)
(* its version has been uploaded again the database refuses that (Refuse).  *)
DeleteFw(r) ==
    /\ At(r, "save", "delete_fw")
    /\ fw' = [fw EXCEPT ![req[r].fw] = "deleted"]
    /\ Done(r)
    /\ UNCHANGED <<updates, session>>

(* A form that is not valid, and the page is rendered as for a GET; or the   *)
(* database refuses the row.                                                *)
Refuse(r) ==
    /\ req[r].pc \in {"form", "firmware", "save"}
    /\ At(r, "save", "delete_fw") => fw[req[r].fw] = "gone"
    /\ Step(r, [req[r] EXCEPT !.pc = "reply"])
    /\ UNCHANGED <<fw, updates, session, changes>>

(* The answer; SessionMiddleware saves a session that was changed. *)
Reply(r) ==
    /\ req[r].pc \in {"reply", "error"}
    /\ session' = IF req[r].save THEN [session EXCEPT ![req[r].user] = req[r].read] ELSE session
    /\ Step(r, Idle)
    /\ UNCHANGED <<fw, updates, changes>>

-----------------------------------------------------------------------------
(* permissions(), SiteAdmin, SiteMembershipAdmin, FirmwareAdmin: what a      *)
(* Global Admin does; there are others than the ones in User.  The forms     *)
(* that check and save in two statements are a Check step, which makes them *)
(* the pending form, and a Save step.                                       *)

Change ==
    /\ changes < MaxChanges
    /\ changes' = changes + 1
    /\ UNCHANGED <<updates, session, req>>

NoForm == [kind |-> "none"]

(* GlobalAdminUserCreationForm.save() *)
CreateUser(u) ==
    /\ Change
    /\ u \notin known \cup gone
    /\ known' = known \cup {u}
    /\ UNCHANGED <<gone, superuser, sites, joined, perms, siteOf, fw, form>>

(* Users in the Django admin; SiteMembership.user goes with the account, the *)
(* session does not.                                                        *)
DeleteUser(u) ==
    /\ Change
    /\ u \in known
    /\ known' = known \ {u} /\ gone' = gone \cup {u}
    /\ superuser' = superuser \ {u}
    /\ joined' = [joined EXCEPT ![u] = [s \in Site |-> 0]]
    /\ perms' = [perms EXCEPT ![u] = [s \in Site |-> {}]]
    /\ form' = IF form.kind = "membership" /\ form.user = u
               THEN [form EXCEPT !.lost = TRUE] ELSE form
    /\ UNCHANGED <<sites, siteOf, fw>>

(* User.is_superuser in the Django admin *)
SetSuperuser(u) ==
    /\ Change
    /\ u \in known
    /\ superuser' = IF u \in superuser THEN superuser \ {u} ELSE superuser \cup {u}
    /\ UNCHANGED <<known, gone, sites, joined, perms, siteOf, fw, form>>

(* SiteCreateForm.save(), and is_active in the Django admin *)
SetSite(s, from, to) ==
    /\ Change
    /\ sites[s] = from
    /\ sites' = [sites EXCEPT ![s] = to]
    /\ UNCHANGED <<known, gone, superuser, joined, perms, siteOf, fw, form>>

(* Mutant of DeleteSite: nothing protects it. *)
DeleteSiteAnyway(s) ==
    /\ Change
    /\ sites[s] \in {"active", "inactive"}
    /\ sites' = [sites EXCEPT ![s] = "gone"]
    /\ joined' = [u \in User |-> [joined[u] EXCEPT ![s] = 0]]
    /\ perms' = [u \in User |-> [perms[u] EXCEPT ![s] = {}]]
    /\ UNCHANGED <<known, gone, superuser, siteOf, fw, form>>

(* Endpoint.site protects a site, SiteMembership.site goes with it. *)
DeleteSite(s) ==
    /\ Change
    /\ sites[s] \in {"active", "inactive"}
    /\ \A e \in Endpoint : siteOf[e] # s
    /\ sites' = [sites EXCEPT ![s] = "gone"]
    /\ joined' = [u \in User |-> [joined[u] EXCEPT ![s] = 0]]
    /\ perms' = [u \in User |-> [perms[u] EXCEPT ![s] = {}]]
    /\ UNCHANGED <<known, gone, superuser, siteOf, fw, form>>

(* joined_at of a new row *)
Now(u) == 1 + CHOOSE n \in {joined[u][s] : s \in Site} : \A s \in Site : joined[u][s] <= n

(* SiteMembership.save(): the row of (user, site) gets the permissions g;    *)
(* where there is none it is inserted.                                      *)
SaveRow(u, s, g) ==
    /\ joined' = [joined EXCEPT ![u][s] = IF @ = 0 THEN Now(u) ELSE @]
    /\ perms' = [perms EXCEPT ![u][s] = g]
    /\ UNCHANGED <<known, gone, superuser, sites, siteOf, fw>>

(* SiteMembershipCreateForm: no second row for a user and a site, and the    *)
(* permissions are the ones on the form.                                    *)
CreateMembership(u, s, g) ==
    /\ Change
    /\ u \in known /\ s \in Active /\ joined[u][s] = 0
    /\ SaveRow(u, s, g)
    /\ UNCHANGED form

(* The Django admin adds a row without saying which fields were given, so   *)
(* that the role decides.                                                   *)
AdminAddMembership(u, s, admin) ==
    /\ Change
    /\ u \in known /\ sites[s] \in {"active", "inactive"} /\ joined[u][s] = 0
    /\ SaveRow(u, s, RoleDefaults(admin))
    /\ UNCHANGED form

RevokeMembership(u, s) ==
    /\ Change
    /\ joined[u][s] > 0
    /\ joined' = [joined EXCEPT ![u][s] = 0]
    /\ perms' = [perms EXCEPT ![u][s] = {}]
    /\ form' = IF form.kind = "membership" /\ form.user = u /\ form.site = s
               THEN [form EXCEPT !.lost = TRUE] ELSE form
    /\ UNCHANGED <<known, gone, superuser, sites, siteOf, fw>>

(* transfer_device *)
TransferDevice(e, s) ==
    /\ Change
    /\ s \in Active
    /\ siteOf' = [siteOf EXCEPT ![e] = s]
    /\ UNCHANGED <<known, gone, superuser, sites, joined, perms, fw, form>>

(* FirmwareAdmin: FirmwareUpdate.firmware protects the row. *)
AdminDeleteFirmware(f) ==
    /\ Change
    /\ fw[f] \in {"listed", "deleted"}
    /\ \A x \in updates : x[2] # f
    /\ fw' = [fw EXCEPT ![f] = "gone"]
    /\ UNCHANGED <<dbVars, form>>

(* load_scenario, one transaction: its sites are active, its users have the   *)
(* memberships it lists and no others, a Global Admin none, and its devices  *)
(* are assigned; devices it does not assign stay where they are.  A site or a *)
(* user that is gone would come back as another one.                         *)
LoadScenario(c) ==
    LET row(u) == IF u \in c.admins THEN {} ELSE DOMAIN c.member[u]
        dropped(u, s) == u \in DOMAIN c.member /\ s \notin row(u)
        listed(u, s) == u \in DOMAIN c.member /\ s \in row(u)
    IN  /\ Change
        /\ \A s \in c.sites : sites[s] # "gone"
        /\ DOMAIN c.member \cap gone = {}
        /\ sites' = [s \in Site |-> IF s \in c.sites THEN "active" ELSE sites[s]]
        /\ known' = known \cup DOMAIN c.member
        /\ superuser' = (superuser \ DOMAIN c.member) \cup c.admins
        /\ joined' = [u \in User |-> [s \in Site |->
                         IF dropped(u, s) THEN 0
                         ELSE IF listed(u, s) /\ joined[u][s] = 0 THEN Now(u) + s ELSE joined[u][s]]]
        /\ perms' = [u \in User |-> [s \in Site |->
                        IF dropped(u, s) THEN {}
                        ELSE IF listed(u, s) THEN c.member[u][s] ELSE perms[u][s]]]
        /\ siteOf' = [e \in Endpoint |->
                         IF e \in DOMAIN c.devices THEN c.devices[e] ELSE siteOf[e]]
        /\ form' = IF form.kind = "membership" /\ dropped(form.user, form.site)
                   THEN [form EXCEPT !.lost = TRUE] ELSE form
        /\ UNCHANGED <<gone, fw>>

(* is_valid() of the forms that are saved later *)
CheckForm(f) ==
    /\ Change
    /\ form = NoForm
    /\ \/ f.kind = "membership" /\ joined[f.user][f.site] > 0 /\ ~f.lost
       \/ /\ f.kind \in {"assign", "bulk"}
          /\ f.site \in Active
          /\ \A e \in f.devices : siteOf[e] = None
    /\ form' = f
    /\ UNCHANGED <<dbVars, fw>>

(* update_membership: the row is saved under its old key, and inserted again *)
(* if it was revoked since.  The database refuses a second row for the user  *)
(* and the site, and one for a user or a site that is gone.                 *)
SaveMembership ==
    LET refused == \/ sites[form.site] = "gone" \/ form.user \in gone
                   \/ form.lost /\ joined[form.user][form.site] > 0
    IN
    /\ form.kind = "membership"
    /\ \/ ~refused /\ SaveRow(form.user, form.site, form.grant)
       \/ refused /\ UNCHANGED <<dbVars, fw>>
    /\ form' = NoForm
    /\ UNCHANGED <<updates, session, req, changes>>

(* Mutant of SaveRouting: bulk_assign moves what it was given. *)
SaveRoutingAll ==
    /\ form.kind \in {"assign", "bulk"}
    /\ siteOf' = [e \in Endpoint |-> IF e \in form.devices THEN form.site ELSE siteOf[e]]
    /\ form' = NoForm
    /\ UNCHANGED <<known, gone, superuser, sites, joined, perms, fw, updates, session, req, changes>>

(* assign_device saves the endpoint the form found; bulk_assign's UPDATE     *)
(* asks again which ones are unassigned.                                    *)
SaveRouting ==
    /\ form.kind \in {"assign", "bulk"}
    /\ \/ /\ sites[form.site] # "gone"
          /\ siteOf' = [e \in Endpoint |->
                          IF e \in form.devices /\ (form.kind = "assign" \/ siteOf[e] = None)
                          THEN form.site ELSE siteOf[e]]
       \/ sites[form.site] = "gone" /\ UNCHANGED siteOf
    /\ form' = NoForm
    /\ UNCHANGED <<known, gone, superuser, sites, joined, perms, fw, updates, session, req, changes>>

Forms ==
    [kind : {"membership"}, user : User, site : Site, grant : Grants, lost : BOOLEAN]
        \cup [kind : {"bulk"}, devices : SUBSET Endpoint \ {{}}, site : Site]
        \cup [kind : {"assign"}, devices : {{e} : e \in Endpoint}, site : Site]

-----------------------------------------------------------------------------
RequestStep(r) ==
    \/ \E u \in User, p \in Pages : Begin(r, u, p)
    \/ LoadUser(r) \/ LoadSites(r)
    \/ CurrentSite(r)
    \/ DefaultSite(r)
    \/ \E t \in Key \ {None} : SwitchSite(r, t)
    \/ Check(r)
    \/ Show(r)
    \/ Permit(r)
    \/ \E e \in Endpoint : ChooseEndpoint(r, e)
    \/ \E f \in Firmware : ChooseFirmware(r, f) \/ UploadFw(r, f) \/ FindFw(r, f)
    \/ StartUpdate(r)
    \/ DeleteFw(r)
    \/ Refuse(r)
    \/ Reply(r)

AdminStep ==
    \/ \E u \in User : CreateUser(u) \/ DeleteUser(u) \/ SetSuperuser(u)
    \/ \E s \in Site : \/ SetSite(s, "new", "active")
                       \/ SetSite(s, "active", "inactive")
                       \/ SetSite(s, "inactive", "active")
                       \/ DeleteSite(s)
    \/ \E u \in User, s \in Site :
          \/ \E g \in Grants : CreateMembership(u, s, g)
          \/ \E admin \in BOOLEAN : AdminAddMembership(u, s, admin)
          \/ RevokeMembership(u, s)
    \/ \E e \in Endpoint, s \in Site : TransferDevice(e, s)
    \/ \E f \in Firmware : AdminDeleteFirmware(f)
    \/ \E c \in Scenarios : LoadScenario(c)
    \/ \E f \in Forms : CheckForm(f)
    \/ SaveMembership
    \/ SaveRouting

(* History: where the user of each request has each permission now, and who   *)
(* is a Global Admin.                                                        *)
Track ==
    LET now(r, p) == SitesWithPermission(req[r].user, p)
        running(r) == req[r].pc # "idle"
    IN  /\ held' = [r \in Request |-> [p \in Perm |->
                      IF running(r)' THEN held[r][p] \cup now(r, p)' ELSE {}]]
        /\ kept' = [r \in Request |-> [p \in Perm |->
                      IF ~running(r)' THEN {}
                      ELSE IF running(r) THEN kept[r][p] \cap now(r, p)' ELSE now(r, p)']]
        /\ admins' = admins \cup superuser'

Next ==
    /\ \/ \E r \in Request : RequestStep(r) /\ WebStep
       \/ AdminStep
    /\ Track

Spec == Init /\ [][Next]_vars

-----------------------------------------------------------------------------
(* Properties *)

(* Types, and no row refers to one that is gone. *)
TypeOK ==
    /\ superuser \subseteq known /\ known \subseteq User
    /\ gone \subseteq User \ known /\ admins \subseteq User
    /\ sites \in [Site -> {"new", "active", "inactive", "gone"}]
    /\ perms \in [User -> [Site -> SUBSET Perm]]
    /\ siteOf \in [Endpoint -> Site \cup {None}]
    /\ fw \in [Firmware -> {"none", "listed", "deleted", "gone"}]
    /\ session \in [User -> Key]
    /\ form \in Forms \cup {NoForm}
    /\ held \in [Request -> [Perm -> SUBSET Site]]
    /\ kept \in [Request -> [Perm -> SUBSET Site]]
    /\ \A e \in Endpoint : siteOf[e] # None => sites[siteOf[e]] \in {"active", "inactive"}
    /\ \A u \in User, s \in Site :
          joined[u][s] > 0 => u \in known /\ sites[s] \in {"active", "inactive"}

(* access_control.rst: "Users cannot see devices from Sites they don't       *)
(* belong to", and unassigned devices are "only visible to Global Admins".   *)
(* What a page shows to anyone else, and what it starts an update for, is a  *)
(* device that was, when the request looked it up, on a site where he had    *)
(* the permission the page needs at some moment of this very request:        *)
(* neither the session nor what an earlier request found is ever enough.     *)
(* When the update is inserted the device may have been transferred.         *)
OnlyPermitted ==
    \A r \in Request : ~req[r].super =>
        \A e \in req[r].shown : req[r].where[e] \in held[r][Need[req[r].page]]

(* access_control.rst: "Manage Firmware: Upload and delete firmware          *)
(* binaries": who changed something had the permission for it during the    *)
(* request.                                                                 *)
OnlyPermittedChanges ==
    \A r \in Request : req[r].done /\ ~req[r].super => held[r][Need[req[r].page]] # {}

(* The sites a page is about. *)
Scope(c) == IF c.key = All THEN Site ELSE {c.key}

(* access_control.rst: "Multi-site users see aggregated data".  A page shows *)
(* every device of the sites it is about where the user had the permission   *)
(* all through the request.                                                 *)
NothingMissing ==
    \A r \in Request :
        LET c == req[r] IN
        c.pc = "reply" /\ c.page \in Shows /\ ~c.super /\ Scope(c) \cap kept[r][Gate[c.page]] # {}
        => {e \in Endpoint : c.where[e] \in Scope(c) \cap kept[r][Need[c.page]]} \subseteq c.shown

(* A firmware somebody started an update with keeps its row and its binary,  *)
(* whoever deletes it: the device is still to download it.                  *)
UpdateKeepsFirmware == \A x \in updates : fw[x[2]] \in {"listed", "deleted"}

(* "unassigned" in a session makes the middleware fail for anyone but a       *)
(* Global Admin.  Nobody gets there who has not been one: the key is never   *)
(* saved for another, whoever is promoted or demoted during a request.       *)
ErrorOnlyAfterDemotion == \A r \in Request : req[r].pc = "error" => req[r].user \in admins

(* A bulk assignment never takes a device away from the site another        *)
(* administrator has given it in the meantime.                              *)
BulkKeepsRouting ==
    [][form.kind = "bulk" /\ form' # form =>
          \A e \in Endpoint : siteOf[e] # None => siteOf'[e] = siteOf[e]]_vars

=============================================================================
