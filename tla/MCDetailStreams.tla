---------------------------- MODULE MCDetailStreams ----------------------------
(***************************************************************************)
(* DetailStreams for TLC: two seasons that are entries of their own and    *)
(* share an IMDb id, and a show known by its name only.  Two providers know *)
(* the same release of the first season differently, one knows one of the   *)
(* other two; the settings let everything or little through.                *)
(***************************************************************************)
EXTENDS DetailStreams
S(h, t, n) == [hash |-> h, tier |-> t, seeders |-> n]
MCEpisodes == {[season |-> 1, episode |-> 1]}
MCOffers ==
  [season1 |-> [fast |-> {S("a", "Hd1080", 40), S("b", "Unknown", Unknown)}, slow |-> {S("a", "Hd720", 3)}],
   season2 |-> [fast |-> {}, slow |-> {S("c", "Sd", 30)}],
   show    |-> [fast |-> {}, slow |-> {S("d", "Sd", 30)}]]
All == {"Uhd4k", "Hd1080", "Hd720", "Sd"}
Conf(m, r, u, k) == [min_seeders |-> m, require_seeders |-> r, require_resolution |-> u,
                     tiers |-> All, max |-> k]
MCConfigs == {Conf(0, FALSE, FALSE, 2), Conf(20, TRUE, TRUE, 2)}
Known(imdb, name) == [imdb_id |-> imdb, external_imdb |-> imdb, tmdb_id |-> Nothing,
                      entry_id |-> Nothing, name |-> name]
MCIdents == [season1 |-> Known("tt1", "season 1"), season2 |-> Known("tt1", "season 2"),
             show |-> Known(Nothing, "show")]
===============================================================================
