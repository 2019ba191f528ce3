CONSTANTS
    ByteSizes = 4
    ShortSizes = 6
    GDigits = 3
    MaxTokens = 8
    Objects <- MCObjects
    Answers <- MCAnswers
    Received <- ReceivedAnswer
    MaxExchanges = 1
    Plugins = {"services", "audioplayers", "test"}
    Texts <- MCTexts
    MaxMessages = 3
    MaxPlayers = 2
    Moved = {1}
    MaxFrames = 3
    MaxHeld = 2
    MaxListens = 3
    MaxQuestions = 4
    IdBits = 2
    MaxTasks = 2
    Urls = {"a", "b", ""}
    MaxBus = 3
    Symbols = {"a", "e2", "g4"}
    TwoBytes = {"e2"}
    ThreeBytes = {"h3"}
    FourBytes = {"g4"}
    FieldValues <- MCFieldValues
    MaxClients = 2
    MaxEdits = 1
    MaxKeys = 2
    Devices = {"m", "p", "k", "t", "s", "u"}
    Setups <- MCSetups
    Capabilities <- MCCapabilities
    TouchCount <- MCTouchCount
    Keys = {"a"}
    DisplayWidth = 2
    MaxCollected = 2
    MaxIds = 7
    MaxEvents = 5
SPECIFICATION Spec
CHECK_DEADLOCK FALSE
INVARIANTS
    CodecAgrees
    ExchangesAccounted
    ReceiversMatchPlugins
    PlainTextPasted
    PlayersAccounted
    PlaybackFollows
    AudioFollows
    FramesDestroyedOnce
    LatestFrameAnnounced
    EventsInStep
    ListenersFreedOnce
    QuestionsAnsweredOnce
    PointersAgree
    CursorInStep
    TextAgrees
