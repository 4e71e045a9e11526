-------------------------------- MODULE Users --------------------------------
(***************************************************************************)
(* The user that the peers of a person make (core/peers.go, contacts.go,   *)
(* repo/db/peers.go): the author beside a block, and the contact in a      *)
(* list.                                                                   *)
(***************************************************************************)
EXTENDS Contacts, Sequences

LOCAL INSTANCE SequencesExt

(* The person as a user: many peers, one name and one avatar.  Where nobody  *)
(* has a name the code shows the start of the address.                       *)

\* List: the rows of the address, the newest first.
List(table) == SetToSortSeq({table[p] : p \in Persons} \ {NoCard},
                            LAMBDA a, b : a.updated > b.updated)

\* GetBestUser, for the author of a block: the newest row that has a name gives
\* the name, the newest that has an avatar the avatar.
GetBestUser(rows) ==
    LET Newest(f) == LET with == SelectSeq(rows, LAMBDA c : c[f] # Blank)
                     IN  IF with = <<>> THEN Blank ELSE Head(with)[f]
    IN  <<Newest("name"), Newest("avatar")>>

\* ensureContactUser: what the contact lacks is taken from its peers.
EnsureContactUser(user, rows) ==
    FoldLeft(LAMBDA u, c : <<IF u[1] = Blank THEN c.name ELSE u[1],
                             IF u[2] = Blank THEN c.avatar ELSE u[2]>>, user, rows)

\* contact, and contacts for each address.
Contact(rows) == EnsureContactUser(<<rows[1].name, rows[1].avatar>>, rows)

-----------------------------------------------------------------------------
\* A user is the same in the list of contacts and beside a block.  Once the
\* announcements are over, and if no two cards were on their way at once, no
\* card was dated anew by adding it, none was removed and no clock is ahead,
\* every device shows the person as the latest card of any of its peers would
\* have it.
UserFits ==
    \A d \in MyDevices :
        LET rows == List(known[d])
        IN  /\ rows # <<>> => Contact(rows) = GetBestUser(rows)
            /\ OnWay = {} /\ overlap = {} /\ habit.adds = {} /\ removed = {}
               /\ (\A e \in MyDevices : habit.skew[e] <= 0) =>
                   GetBestUser(rows) = GetBestUser(List(card))
=============================================================================
