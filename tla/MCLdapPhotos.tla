---------------------------- MODULE MCLdapPhotos ----------------------------
(***************************************************************************)
(* LdapDirectory with a history variable, for what deletePhoto answers:    *)
(* "Photo deleted" (ldap-users.controller.ts 107).                         *)
(***************************************************************************)
EXTENDS LdapDirectory

CONSTANTS u1, u2, d1, d2, p1

TwoUsers   == {u1, u2}
TwoDomains == {d1, d2}
OnePhoto   == {p1}

NoFaults == {}

\* The users told so of a document of theirs that was there, and who have not
\* uploaded a photo since.
VARIABLE told

PhotoInit == Init /\ told = {}

Tell(u, d, p) ==
    told' = IF ~InDomain(directory, u, d) THEN told
            ELSE IF p = NoPhoto THEN told \cup {u} ELSE told \ {u}

PhotoNext ==
    \/ (Produce \/ Handle \/ HandleError \/ Commit \/ Crash \/ Start) /\ UNCHANGED told
    \/ \E u \in User, d \in Domain, p \in Photo \cup {NoPhoto} :
          SetPhoto(u, d, p) /\ Tell(u, d, p)

PhotoSpec == PhotoInit /\ [][PhotoNext]_<<vars, told>>

\* A user who was told that the photo is deleted has none until the next upload:
\* the answer of deletePhoto (ldap-users.controller.ts 95-108).
DeletedPhotoGone ==
    \A u \in told : directory[u] = Absent \/ directory[u].photo = NoPhoto
=============================================================================
