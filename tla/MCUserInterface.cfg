CONSTANTS
    Wallets = {kukai, umami, web}
    kukai = kukai
    umami = umami
    web = web
    NoWallet = none
    Types <- WalletTypes
    SpeakWC = {kukai}
    Kukai = {kukai}
    Acurast = {}
    Views = {"wide", "phone"}
    Requests = {r, s}
    Connecting = connecting
    Subjects <- AllSubjects
    MaxInits = 1
    MaxEvents = 1
SPECIFICATION FairSpec
CHECK_DEADLOCK FALSE
INVARIANTS NoticeIsSeen TimedNoticeGoesAway ToastTellsTheTruth
PROPERTY WrongCodeGoesAway
