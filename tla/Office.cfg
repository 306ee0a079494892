\* Two of everybody who can get in each other's way, one fault of each kind.
SPECIFICATION Spec
CONSTANTS
    \* the share link: two visitors, two admin requests, a password or none
    b1 = b1
    b2 = b2
    a1 = a1
    a2 = a2
    t1 = t1
    t2 = t2
    v1 = v1
    v2 = v2
    Tab = {t1, t2}
    Refill = {refill1, refill2}
    Viewer = {v1, v2}
    ViewerOf <- MCViewerOf
    Admin = {a1, a2}
    Password = {pw}
    Open = open
    PageWindow = 1
    LinkLifetime = {1}
    DedupWindow = 1
    LoadMax = 1
    MaxTime = 2
    MaxChanges = 1
    MaxViews = 2
    \* the export: two photos, two requests, an edit, a fault, two days
    ph = ph
    Photo = {ph, ph2}
    Requests = 2
    Edit = {edit1}
    EditOf <- MCEditOf
    Doomed = {ph2}
    HighWater = 1
    MaxDay = 1
    MaxFaults = 1
    \* the admins
    Browser = {b1, b2}
    Owner = own
    Staff = {staff}
    Nobody = nobody
    UserStateTTL = 2
    SlowQuery = 1
    LoginMax = 1
    LoginWindow = 2
    Passwords = {0}
    LastTick = 2
    \* the settings
    Section = {tg, up}
    Telegram = tg
    Caller = {c1, c2}
    SettingsTTL = 2
    SlowSettings = 1
    MaxClock = 3
    MaxSaves = 1
    \* two drops of two files
    k1 = k1
    k2 = k2
    f1 = f1
    f2 = f2
    f3 = f3
    f4 = f4
    Batch = {k1, k2}
    File = {f1, f2, f3, f4}
    FileOf <- MCFileOf
    Liar = {k2}
    Slots = 2
    FileCap = 3
    ByteCap = 2
    UserCap = 2
    MaxUploadFaults = 2
    \* two photos and one more, on two album pages
    w1 = w1
    w2 = w2
    w3 = w3
    g1 = g1
    g2 = g2
    d1 = d1
    d2 = d2
    l1 = l1
    l2 = l2
    Picture = {w1, w2, w3}
    Newcomer = {w3}
    ByDate <- MCByDate
    Grid = {g1, g2}
    Reorder = {d1, d2}
    Reload = {l1, l2}
    GridOf <- MCGridOf
    MaxMishaps = 1
    \* one image, two rewrites, a page and a download
    i1 = i1
    Image = {i1}
    Rewrite = {r1, r2}
    ImageOf <- MCImageOf
    Page = {page1}
    Download = {dl1}
    Second = 2
    UrlLife = 3
    SignedMax = 1
    LastMoment = 5
    MaxTouches = 1
    \* one photo to back up, two days
    n1 = n1
    n2 = n2
    Negative = {n1}
    KeyAlbum = {drawer1, drawer2}
    Inbox = drawer1
    LastDate = 1
    Sunday = {1}
    FirstOfMonth = {0}
    KeepDaily = 1
    KeepWeekly = 1
    KeepMonthly = 1
    AllowDelete = FALSE
    \* two runs of the import on one folder, beside the form
    form1 = form1
    ws1 = ws1
    ws2 = ws2
    jpg = jpg
    png = png
    txt = txt
    Form = {form1}
    Import = {im1, im2}
    Workspace = {ws1, ws2}
    WorkspaceOf <- MCWorkspaceOf
    Folder <- MCFolder
    Undecodable = {txt}
    SlugTries = 2
    \* two visitors' events and the dashboards
    Visitor = {y1, y2}
    BurstWindow = 1
    CacheLife = 2
    SlowSummary = 1
    Horizon = 3
    Shown = 1
    DayLength = 2
    ChartDays = 2
    LastTock = 3
    MaxEvents = 3
    \* two photos, two pages of the viewer
    Shots <- MCShots
    Stroke <- MCStroke
    LoopMax = 2
    MaxPages = 2
    MaxSlips = 1
    \* the export dialog: two photos, a zip of one
    Item = {x1, x2}
    MaxZip = 1
    MaxDownloads = 1
    MaxAsks = 2
    MaxTurns = 2
    \* the editor: a box on a grid of four, an image of one or three pixels
    Scale = 4
    MinBox = 1
    FirstAt = 1
    FirstLen = 2
    Extent = {1, 3}
    MaxEdits = 2
    \* three migrations, two runs of compose, one photo to backfill
    up1 = up1
    Migrations <- MCMigrations
    RoleMigration = 2
    FirstVersion = 2
    Up = {up1, up2}
    EmailOf <- MCEmailOf
    Legacy = legacy
    orig1 = orig1
    Original = {orig1}
    Retouch = {retouch1, retouch2}
    RetouchOf <- MCRetouchOf
    \* two photos in the grid
    Roll = 2
    MaxDeskChanges = 1
INVARIANTS
    HeartEndsAsTapped
    PickSurvives
    HandsAreObeyed
    TypeOK
    FirstViewOnce
    RevokeTakesEffect
    CachedZipIsWhole
    ExportIsCurrent
    BackpressureWorks
    RevocationIsPrompt
    OwnerStays
    RowsTellTheTruth
    LimitsHold
    OrderHolds
    ServedImagesHold
    
    ScriptsCanRerun
    SlugsTellApart
    DashboardsAreRight
PROPERTIES
    CachesAreRecent
CONSTRAINT Apart
CHECK_DEADLOCK FALSE
