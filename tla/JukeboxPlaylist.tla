--------------------------- MODULE JukeboxPlaylist ---------------------------
(***************************************************************************)
(* The three processes around server.db implement a playlist: the waiting   *)
(* songs are the playable rows of the committed table, and the places are   *)
(* its song_order column (getAllPlayableSongs: ORDER BY song_order).        *)
(***************************************************************************)
EXTENDS Jukebox

Places(t) == [i \in SongId(t) |-> t[i].order]

P == INSTANCE Playlist WITH waiting <- Playable(songs), place <- Places(songs)

(* Every step of the servers and of the player is a step of the playlist: a  *)
(* song enters once, at the end, and only an inversion changes the order.    *)
ImplementsPlaylist == P!Spec
=============================================================================
