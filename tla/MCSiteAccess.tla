--------------------------- MODULE MCSiteAccess ---------------------------
(* Instances of SiteAccess for TLC. *)
EXTENDS SiteAccess

LOCAL INSTANCE TLC

(* The user on the second site, with the defaults of a Site Admin. *)
MCScenarios == {[sites |-> {2}, admins |-> {}, member |-> u :> (2 :> RoleDefaults(TRUE)),
                 devices |-> e :> 2] : u \in User, e \in Endpoint}

(* A member who may only look, and a Site Admin. *)
MCGrants == {{"can_view_firmware"}, RoleDefaults(TRUE)}

(* Bounds: a request for a page that is not about the firmware finds it      *)
(* listed; a form of the permissions page is pending while devices are       *)
(* listed, an update is started, or no request is under way.                 *)
Bounded ==
    \A r \in Request :
        /\ req[r].page \in {"firmware_form", "switch_site"} =>
              updates = {} /\ \A f \in Firmware : fw[f] = "listed"
        /\ form # NoForm => req[r].page \in {"none", "firmware_form", "start_update"}
=============================================================================
