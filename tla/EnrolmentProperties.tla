------------------------- MODULE EnrolmentProperties -------------------------
(***************************************************************************)
(* What must hold while codes cross, arrive late, are guessed and replayed *)
(* and reviewers decide at the same time.                                  *)
(***************************************************************************)
EXTENDS Enrolment

(* A membership is earned once: by a verified code, when the application   *)
(* came from the form, and by the reviewer's approval, when it came on     *)
(* paper; and a verified code is never lost: it is USED only when its      *)
(* application has a membership ("contact verification now gates           *)
(* membership", 033_verify_before_provision_enrollment.sql).  Every row is *)
(* of its type.                                                            *)
MembershipEarned ==
  /\ TypeOK
  /\ \A a \in Applications :
       Member(a) <=> CASE applications[a].mode = "AUTO" ->
                            \E k \in Challenges : /\ challenges[k].kind = "ENROL"
                                                  /\ challenges[k].app = a
                                                  /\ challenges[k].state = "USED"
                       [] OTHER -> applications[a].state = "APPROVED"
  /\ \A k \in Challenges : challenges[k].state = "USED" => Member(challenges[k].app)

(* However many forms are sent at once, a contact has one application of   *)
(* the form's, before and after its verification, and a campaign never has *)
(* more enrolments, verified or not, than its maximum.                     *)
EnrolmentsBounded ==
  /\ \A c \in Contacts :
       Cardinality({a \in Used : /\ applications[a].mode = "AUTO"
                                 /\ applications[a].contact = c}) <= 1
  /\ Cardinality({a \in Used : applications[a].campaign}) <= CampaignMax

(* The enrolments on record are earned and within bounds.                  *)
EnrolmentsSound == MembershipEarned /\ EnrolmentsBounded

(* A code decides once: no verification, replay, newer code or late        *)
(* delivery failure takes a challenge out of USED or REVOKED, and no       *)
(* membership is lost.                                                     *)
CodesDecideOnce ==
  [][/\ \A k \in Challenges : challenges[k].state \in {"USED", "REVOKED"} =>
          /\ challenges'[k].state = challenges[k].state
          /\ challenges'[k].attempts = challenges[k].attempts
     /\ \A a \in Applications : Member(a) => applications'[a].member # "NONE"]_vars

(* A token that is handed out opens a session: the comment on the replay   *)
(* branch says a retry must return the real membership, "not fall through  *)
(* to a bare 'USED' with null fields, which the caller would otherwise     *)
(* misread as success".                                                    *)
TokenOpensSession ==
  [][\A v \in Calls : v \in tokens' \ tokens => sessions'[v] # None]_vars
=============================================================================
