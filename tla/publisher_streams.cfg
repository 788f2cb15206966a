SPECIFICATION PublisherSpec
CONSTANTS
  Threads = {r1, r2}
  PublisherTitles = {t1}
  Names = {n1, n2, n3}
  Illegible = {n3}
  STATE_REFRESH_SECONDS = 1
  MaxTime = 3
  MaxChanges = 2
  Absent = Absent
SYMMETRY Swaps
INVARIANTS
  PublisherTypeOK
  IdsStayWithTheirFile
  PublishedFilesAreFound
