----------------------------- MODULE HostClaims -----------------------------
(***************************************************************************)
(* What comments of the source say of a search for all users that Windows  *)
(* does not do.                                                            *)
(***************************************************************************)
EXTENDS HostSearch

\* A search for all users that is over on Windows has returned the files of every
\* user area, each with the area it is in: "This needs to be improved to it doesn't
\* stop searching once there's an user area gap" (NextUserArea,
\* abstraction_vstudio.h:302), and "set user code for return" (_mockupDirEntry,
\* disk.h:202) of a variable that is the "user number of current directory in BDOS
\* search first on all user numbers" (globals.h:176).
AllUsersReturned ==
    phase["windows"] = "over" /\ allUsers =>
       {heard["windows"][i] : i \in DOMAIN heard["windows"]}
          = {<<p, p[2]>> : p \in WantedOn("windows")}
=============================================================================
