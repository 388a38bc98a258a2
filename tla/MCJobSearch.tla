---------------------------- MODULE MCJobSearch ----------------------------
(* An instance of JobSearch for TLC.  The first list an agent brings has a  *)
(* listing twice under two urls, two without an id, and one whose id is     *)
(* null; the second has two without id and url; the third does not parse.   *)
(* Doomed and Known make a listing known to one site and deleted on it.     *)
EXTENDS JobSearch

CONSTANTS s1, s2
MCSites == <<"linkedin", "indeed">>
j1 == Item("j1", "u1", TRUE)
j1Again == Item("j1", "u2", TRUE)
u1 == Item(Blank, "u1", TRUE)
u2 == Item(Blank, "u2", TRUE)
MCScraped == {<<u1, j1, u2, j1Again, Item(None, "u3", TRUE)>>, <<Item(Blank, Blank, TRUE), Item(Blank, Blank, TRUE)>>,
              <<j1, Item("j2", "u2", FALSE)>>}
MCSemantic == {<<Item(None, "u1", TRUE), Item("e1", "u2", TRUE)>>}
JobKey(site, id, url) == <<site, JobIdentity(id, url)>>
MCDoomed == {JobKey("linkedin", "j1", ""), JobKey("linkedin", "", "u2")}
MCKnown == {JobKey("linkedin", "", "u2"), JobKey("indeed", "j1", "")}
=============================================================================
