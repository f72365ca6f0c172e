--------------------------- MODULE MCServerConfig ---------------------------
(* An instance of ServerConfig for TLC: two admins change the TMDb key and  *)
(* switch the sources while the process may die once.                       *)
EXTENDS ServerConfig

MCBase == [tmdb |-> "unset", subtitles |-> "unset", torrent |-> "off", nzb |-> "on"]

MCInput ==
  {[tmdb |-> "key1"], [tmdb |-> "key2", subtitles |-> "account"],
   [tmdb |-> "unset", torrent |-> "on"], [torrent |-> "off"],
   [nzb |-> "on"], [nzb |-> "off"]}

=============================================================================
