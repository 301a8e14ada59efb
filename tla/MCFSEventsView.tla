--------------------------- MODULE MCFSEventsView ---------------------------
EXTENDS FSEventsView
ThreePlaces == {<<"top", 1>>, <<"top", 2>>, <<"sub", 1>>}
Plain == {{}, {"Recursive"}, {"Recursive", "ReportCrossDirectoryMoves"}}
=============================================================================
