------------------------------ MODULE MCPublish ------------------------------
(* Instance of Publish for TLC: an application on a library and a foundation, *)
(* which takes the library as a flake input and is nevertheless walked first. *)
EXTENDS Publish, TLC

CONSTANTS foundation, library, app

MCRepos == {foundation, library, app}
MCDeps == (foundation :> {library} @@ library :> {foundation} @@ app :> {foundation, library})
MCOrders == {(foundation :> {} @@ library :> {foundation} @@ app :> {foundation, library})}
MCTracking == {foundation, app}
MCAhead == {foundation}
=============================================================================
