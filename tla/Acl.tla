-------------------------------- MODULE Acl --------------------------------
(* src/psoperator/common/winacl.py: which security descriptors the program   *)
(* accepts, against who can really use an object that carries one.           *)
(* OwnerOnly and TrustedParent are the code's; MayHave is the access check   *)
(* of Windows, an upper bound where an entry of a type the code does not     *)
(* parse could grant something.                                              *)
EXTENDS Integers, Sequences

CONSTANTS
  User, System, Administrators, OwnerRights,  \* the sids the policies name
  Sids,                                       \* every sid
  Rights,                                     \* the rights an entry can carry
  ChangesEntries                              \* those of _CHANGES_ENTRIES

ASSUME SidsAssumption == {User, System, Administrators, OwnerRights} \subseteq Sids
ASSUME RightsAssumption == ChangesEntries \subseteq Rights

(* An entry as it lies in the DACL: its type is "other" for every type but   *)
(* ACCESS_ALLOWED and ACCESS_DENIED.                                         *)
AceTypes == {"allow", "deny", "other"}
RawAce == [type: AceTypes, sid: Sids, mask: SUBSET Rights, inherited: BOOLEAN, inheritOnly: BOOLEAN]
(* present is FALSE for a null DACL.                                         *)
Descriptor == [owner: Sids, protected: BOOLEAN, present: BOOLEAN, aces: Seq(RawAce)]

(* What security_of_handle makes of an entry: of one it does not parse it    *)
(* keeps neither the sid nor the mask.                                       *)
Ace(raw) ==
  [kind |-> raw.type, inherited |-> raw.inherited, inheritOnly |-> raw.inheritOnly,
   sid  |-> IF raw.type = "other" THEN "?" ELSE raw.sid,
   mask |-> IF raw.type = "other" THEN {} ELSE raw.mask]

SecurityOfHandle(d) ==
  [owner |-> d.owner, protected |-> d.protected, present |-> d.present,
   aces  |-> [i \in DOMAIN d.aces |-> Ace(d.aces[i])]]

----------------------------------------------------------------------------
(* The two policies, over what was read.                                     *)
OwnerOnlyInfo(info) ==
  /\ info.owner = User
  /\ info.present
  /\ info.protected
  /\ \A i \in DOMAIN info.aces :
       LET ace == info.aces[i]
       IN  /\ ~ace.inherited
           /\ ace.kind # "other"
           /\ ace.kind = "allow" => ace.sid \in {User, System}

TrustedSids == {User, System, Administrators}

TrustedParentInfo(info) ==
  /\ info.owner \in TrustedSids
  /\ info.present
  /\ \A i \in DOMAIN info.aces :
       LET ace == info.aces[i]
       IN  \/ ace.inheritOnly
           \/ ace.kind = "deny"
           \/ /\ ace.kind # "other"
              /\ ace.mask \cap ChangesEntries # {} => ace.sid \in TrustedSids \cup {OwnerRights}

OwnerOnly(d) == OwnerOnlyInfo(SecurityOfHandle(d))
TrustedParent(d) == TrustedParentInfo(SecurityOfHandle(d))

(* The descriptor the module creates objects with.                           *)
OwnerOnlySddl ==
  LET full(sid) == [type |-> "allow", sid |-> sid, mask |-> Rights,
                    inherited |-> FALSE, inheritOnly |-> FALSE]
  IN  [owner |-> User, protected |-> TRUE, present |-> TRUE, aces |-> <<full(User), full(System)>>]

----------------------------------------------------------------------------
(* Windows: an entry counts for whoever carries its sid, OWNER RIGHTS for    *)
(* whoever carries the owner's.                                              *)
Applies(raw, d, sids) ==
  /\ ~raw.inheritOnly
  /\ raw.sid \in sids \/ (raw.sid = OwnerRights /\ d.owner \in sids)

(* Whether an account with these sids may have the right: no DACL gives      *)
(* everything, the owner may always rewrite the descriptor, and of the       *)
(* entries the first that names the right decides.                           *)
MayHave(d, sids, right) ==
  \/ ~d.present
  \/ d.owner \in sids
  \/ \E i \in DOMAIN d.aces :
       /\ d.aces[i].type # "deny" /\ Applies(d.aces[i], d, sids) /\ right \in d.aces[i].mask
       /\ \A j \in 1 .. i - 1 :
            ~(d.aces[j].type = "deny" /\ Applies(d.aces[j], d, sids) /\ right \in d.aces[j].mask)

(* The sids that only accounts other than this one and the machine's carry.  *)
OutsideSids == Sids \ (TrustedSids \cup {OwnerRights})

(* Some such account may add, remove or rename the directory's entries.      *)
OutsidersMayChange(d) ==
  \E sids \in SUBSET OutsideSids : \E right \in ChangesEntries : MayHave(d, sids, right)
=============================================================================
