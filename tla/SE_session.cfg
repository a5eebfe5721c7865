SPECIFICATION FairSpec
CONSTANTS
 Stream = {s1,s2}
 MaxMessages = 3
 MaxErrors = 1
 Url = {u1}
 Entry = {e1,e2}
 File = {f1,f2}
 Magnet = {f1}
 Content <- MCContent
 MaxChanges = 2
 Zones <- MCZones
 Proc = {p1,p2}
 Main = p1
 None = None
 Torrent = {t1}
 Key = {k1}
 Uses = {"gui","rss","watch_folder","cli"}
 MaxStarts = 2
 MaxAccidents = 1
PROPERTIES WatchedIsListed NewsIsTried
INVARIANTS OpenStreamsStayListed NoGaps Authorised
CHECK_DEADLOCK FALSE
