CONSTANTS
    Conns = {c1, c2}
    NoConn = NoConn
SPECIFICATION Spec
SYMMETRY Symmetry
INVARIANTS
    ApplicationsSound
    BoardsSound
    ArticlesSound
    ExamsSound
    TreeholeSound
    BlogSound
    SearchSound
    PointsSound
    StarHopeSound
    PagesSound
    NotifySound
CHECK_DEADLOCK FALSE
