----------------------------- MODULE MCAuthority -----------------------------
(* Who belongs, administers, pairs and enters: one part from each initial    *)
(* state.  Each keeps its own, reduced memberships, so nothing is shared and *)
(* one run explores all.  A module has as many instances as it takes to make *)
(* each of its constants large once:                                         *)
(*   circles   Circles itself              flags    AppAdmins                *)
(*   choices   two tabs save twice for a cycle of the primary circle         *)
(*   seasons   three cycles of the primary circle                            *)
(*   batch     a secondary circle whose membership, owner and life change    *)
(*   overflow  more circles than one invocation of the job takes             *)
(*   linking, resetting                      Credentials                     *)
(*   verifying, twice, inviting, elsewhere   Invitations                     *)
(* The instances are of the modules with the proofs, so that AuthorityProofs *)
(* can cite the theorems for them: those of MembershipProofs are of Pairing, *)
(* which it extends, and have one of Invitations (Joining) and of AppAdmins  *)
(* (Flags) in them.                                                          *)
EXTENDS Circles, Sequences, TLC

CONSTANTS ann, bob, cat, eve, a1, a2, b1, g1, g2, s1, s2, f1, f2, none, p1, p2, eva

Alike == Permutations({s1, s2}) \cup Permutations({f1, f2})

Accounts == [s \in Sessions |-> IF s = a1 THEN ann ELSE bob]

VARIABLES subject, enlisted, current, others, admin, deleted, signIn

flagVars == <<enlisted, current, others, admin, deleted, signIn>>

VARIABLES now, account, enrolled, setting, default, decision, shown,
          owning, publication, mail, job

pairVars == <<now, account, enrolled, setting, default, decision, shown,
              owning, publication, mail, job>>

VARIABLES owners, invitation, spent, bulk, asked, stored, activation, letters, meant,
          opened, admitted, days

inviteVars == <<owners, invitation, spent, bulk, asked, stored, activation, letters, meant,
                opened, admitted, days>>

(* What every instance of the membership parts has alike; the founder of the *)
(* application is that of the primary circle.                                *)
Staff      == {ann, bob, eve}
Configured == {eve}
SignIns    == {g1, g2}
StaffOf    == [g \in SignIns |-> IF g = g1 THEN bob ELSE eve]
Nobody     == none
Length     == 2
Grace      == 1
BatchLimit == 1
GlobalLimit == 1

OptedOut(S)  == [u \in S |-> u # ann]
Windows(S)   == [w \in S |-> IF w = 1 THEN {0, 1} ELSE {1}]
BobOwns(S)   == [c \in S |-> bob]
OnTabs(S)    == [t \in S |-> ann]

(* One owner, one invitation with a rotation and three registrations.        *)
Choices == INSTANCE MembershipProofs WITH
  Users <- {ann, bob}, Circles <- {1}, Moving <- {<<ann, 1>>},
  Starting <- [c \in {1} |-> {ann, bob}], Tabs <- {a1, a2}, UserOf <- OnTabs({a1, a2}),
  LastCycle <- 1, MaxVersion <- 2, AccountSetting <- OptedOut({ann, bob}),
  JobOffsets <- Windows(0..1), Founders <- BobOwns({1}), member <- enrolled, owner <- owning,
  Emails <- {eve}, Owners <- {ann}, Known <- {}, Ids <- 1..1, Requests <- 1..0,
  Passwords <- {p1, p2}, DailyLimit <- 1, MaxSends <- 2, MaxActivations <- 3, MaxDays <- 0

(* Two invitations of one address, each registered for.                      *)
Seasons == INSTANCE MembershipProofs WITH
  Users <- {ann, bob}, Circles <- {1}, Moving <- {<<ann, 1>>},
  Starting <- [c \in {1} |-> {ann, bob}], Tabs <- {a1}, UserOf <- OnTabs({a1}),
  LastCycle <- 2, MaxVersion <- 1, AccountSetting <- OptedOut({ann, bob}),
  JobOffsets <- Windows(0..2), Founders <- BobOwns({1}), member <- enrolled, owner <- owning,
  Emails <- {eve}, Owners <- {ann}, Known <- {}, Ids <- 1..2, Requests <- 1..0,
  Passwords <- {p1, p2}, DailyLimit <- 2, MaxSends <- 1, MaxActivations <- 1, MaxDays <- 0

(* The waiting list, over the end of a day.                                  *)
Batch == INSTANCE MembershipProofs WITH
  Users <- {ann, bob, cat}, Circles <- {1, 2}, Moving <- {<<ann, 2>>},
  Starting <- [c \in {1, 2} |-> IF c = 2 THEN {bob, cat} ELSE {bob}],
  Tabs <- {a1}, UserOf <- OnTabs({a1}),
  LastCycle <- 1, MaxVersion <- 1, AccountSetting <- OptedOut({ann, bob, cat}),
  JobOffsets <- Windows(0..1), Founders <- BobOwns({1, 2}), member <- enrolled, owner <- owning,
  Emails <- {eve}, Owners <- {ann}, Known <- {}, Ids <- 1..2, Requests <- 1..2,
  Passwords <- {}, DailyLimit <- 2, MaxSends <- 1, MaxActivations <- 1, MaxDays <- 1

(* Two addresses, one of which has an account, and two owners.               *)
Overflow == INSTANCE MembershipProofs WITH
  Users <- {ann, bob}, Circles <- {1, 2, 3}, Moving <- {<<ann, 2>>},
  Starting <- [c \in {1, 2, 3} |-> {bob}], Tabs <- {}, UserOf <- OnTabs({}),
  LastCycle <- 0, MaxVersion <- 0, AccountSetting <- OptedOut({ann, bob}),
  JobOffsets <- Windows(0..0), Founders <- BobOwns({1, 2, 3}), member <- enrolled, owner <- owning,
  Emails <- {eve, eva}, Owners <- {ann, bob}, Known <- {eva}, Ids <- 1..2, Requests <- 1..1,
  Passwords <- {}, DailyLimit <- 1, MaxSends <- 1, MaxActivations <- 1, MaxDays <- 0

(* The instances are legal, so that what is proved of the parts holds of     *)
(* them.                                                                     *)
ASSUME InstancesAreLegal ==
  /\ Choices!PairingConstants /\ Seasons!PairingConstants
  /\ Batch!PairingConstants /\ Overflow!PairingConstants

ASSUME InvitationsAreLegal ==
  /\ Choices!Joining!InvitationsConstants /\ Seasons!Joining!InvitationsConstants
  /\ Batch!Joining!InvitationsConstants /\ Overflow!Joining!InvitationsConstants

ASSUME FlagsAreLegal == Choices!Flags!AdminsConstants

PairInit ==
  CASE subject = "choices" -> Choices!Init
    [] subject = "seasons" -> Seasons!Init
    [] subject = "batch"   -> Batch!Init
    [] OTHER               -> Overflow!Init

PairNext ==
  \/ subject = "choices" /\ Choices!Next
  \/ subject = "seasons" /\ Seasons!Next
  \/ subject = "batch" /\ Batch!Next
  \/ subject = "overflow" /\ Overflow!Next

VARIABLES password, google, identity, signedIn, proof, reset, links, answered, pending, flow

signVars == <<password, google, identity, signedIn, proof, reset, links, answered, pending, flow>>

Linking == INSTANCE CredentialsProofs WITH
  Users <- {ann, bob}, Subjects <- {g1}, StartsWith <- [u \in {ann, bob} |-> IF u = ann THEN g1 ELSE none],
  Sessions <- {s1, s2}, Flows <- {f1, f2}, None <- none, Passwords <- {p1},
  MaxActive <- 1, MaxSends <- 1, Departing <- {}, MaxTokens <- 0

Resetting == INSTANCE CredentialsProofs WITH
  Users <- {bob}, Subjects <- {g1}, StartsWith <- [u \in {bob} |-> none],
  Sessions <- {s1, s2}, Flows <- {f1}, None <- none, Passwords <- {p1, p2},
  MaxActive <- 1, MaxSends <- 2, Departing <- {bob}, MaxTokens <- 2

ASSUME CredentialsAreLegal == Linking!CredentialsConstants /\ Resetting!CredentialsConstants

InviteSubjects == {"verifying", "twice", "inviting", "elsewhere"}

InviteInit ==
  CASE subject = "verifying" -> Choices!Joining!Init
    [] subject = "twice"     -> Seasons!Joining!Init
    [] subject = "inviting"  -> Batch!Joining!Init
    [] OTHER                 -> Overflow!Joining!Init

InviteNext ==
  \/ subject = "verifying" /\ Choices!Joining!Next
  \/ subject = "twice" /\ Seasons!Joining!Next
  \/ subject = "inviting" /\ Batch!Joining!Next
  \/ subject = "elsewhere" /\ Overflow!Joining!Next

AuthorityInit ==
  /\ subject \in {"circles", "flags", "choices", "seasons", "batch", "overflow", "linking", "resetting"}
                 \cup InviteSubjects
  /\ Init /\ Choices!Flags!Init /\ PairInit
  /\ IF subject = "linking" THEN Linking!Init ELSE Resetting!Init
  /\ InviteInit
  /\ subject # "circles" => owner = joined /\ Cardinality(joined) = 1

AuthorityNext ==
  \/ subject = "circles" /\ Next /\ UNCHANGED <<subject, flagVars, pairVars, signVars, inviteVars>>
  \/ subject = "flags" /\ Choices!Flags!Next /\ UNCHANGED <<subject, vars, pairVars, signVars, inviteVars>>
  \/ PairNext /\ UNCHANGED <<subject, vars, flagVars, signVars, inviteVars>>
  \/ subject = "linking" /\ Linking!Next /\ UNCHANGED <<subject, vars, flagVars, pairVars, inviteVars>>
  \/ subject = "resetting" /\ Resetting!Next /\ UNCHANGED <<subject, vars, flagVars, pairVars, inviteVars>>
  \/ InviteNext /\ UNCHANGED <<subject, vars, flagVars, pairVars, signVars>>

AuthoritySpec ==
  AuthorityInit /\ [][AuthorityNext]_<<subject, vars, flagVars, pairVars, signVars, inviteVars>>

(* The properties of the parts: see their modules.                           *)

(* Types of the flags, of availability, publications and the job.            *)
PartTypesOK ==
  /\ Choices!Flags!TypeOK
  /\ subject = "choices" => Choices!TypeOK
  /\ subject = "seasons" => Seasons!TypeOK
  /\ subject = "batch" => Batch!TypeOK
  /\ subject = "overflow" => Overflow!TypeOK
  /\ subject = "linking" => Linking!TypeOK
  /\ subject = "resetting" => Resetting!TypeOK
  /\ subject = "verifying" => Choices!Joining!TypeOK
  /\ subject = "twice" => Seasons!Joining!TypeOK
  /\ subject = "inviting" => Batch!Joining!TypeOK
  /\ subject = "elsewhere" => Overflow!Joining!TypeOK

(* An administrator by configuration keeps the flag while the account lives, *)
(* and concurrent revocations leave an active administrator.                 *)
AdminsRemain == [][Choices!Flags!ConfiguredStaysAdmin /\ Choices!Flags!RevocationsLeaveAnAdmin]_flagVars

(* What a tab shows is what the pairing uses, unless it was superseded;      *)
(* nothing is saved behind a publication, and only the first cycles of the   *)
(* primary circle read the account setting. Each member is told once, and    *)
(* what the stored publication says; the job reports success only when all   *)
(* it had listed is published.                                               *)
PublicationsAreTrue ==
  /\ subject = "choices" => /\ Choices!ShownIsUsed /\ Choices!SnapshotStands
                            /\ Choices!MailTellsTheSnapshot
  /\ subject = "seasons" => Seasons!ShownIsUsed /\ Seasons!SnapshotStands /\ Seasons!BridgeComesFirst
  /\ subject = "batch" => /\ Batch!ShownIsUsed /\ Batch!SnapshotStands /\ Batch!BridgeComesFirst
                          /\ Batch!MailTellsTheSnapshot /\ Batch!JobAnswersTruly
  /\ subject = "overflow" => Overflow!JobAnswersTruly

(* A stored publication is never replaced.                                   *)
PublishedOnce ==
  [][/\ subject = "choices" => Choices!Kept
     /\ subject = "batch" => Batch!Kept]_<<subject, pairVars>>

(* Whatever sign-ins, links, resets and removals overlap, an account can     *)
(* still be entered, and only by what is its own; an address enters the      *)
(* circle whole or not at all, by one invitation.                            *)
EntryIsWhole ==
  /\ subject = "linking" => Linking!EveryoneCanSignIn
  /\ subject = "resetting" => Resetting!EveryoneCanSignIn
  /\ subject = "verifying" => Choices!Joining!AdmissionsAreWhole
  /\ subject = "twice" => Seasons!Joining!AdmissionsAreWhole
  /\ subject = "inviting" => Batch!Joining!AdmissionsAreWhole
  /\ subject = "elsewhere" => Overflow!Joining!AdmissionsAreWhole

(* Credentials change for who proved itself, and sign the others out; only a *)
(* good link lets anyone in, and with the password it was sent for.          *)
EntryIsEarned ==
  [][/\ subject = "linking" => Linking!CredentialsAnswerProof
     /\ subject = "resetting" => Resetting!CredentialsAnswerProof
     /\ subject = "verifying" => Choices!Joining!LinksAreHonoured
     /\ subject = "twice" => Seasons!Joining!LinksAreHonoured
     /\ subject = "inviting" => Batch!Joining!LinksAreHonoured
     /\ subject = "elsewhere" => Overflow!Joining!LinksAreHonoured]_<<subject, signVars, inviteVars>>
=============================================================================
