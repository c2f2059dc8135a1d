CONSTANTS
    main = main
    mutiny = mutiny
    regtest = regtest
    q1 = q1
    q2 = q2
    q3 = q3
    app = app
    evil = evil
    url1 = url1
    k0 = k0
    Home = Home
    Derived = Derived
    BadUrl = BadUrl
    None = None
    Deployments = {main, mutiny, regtest}
    Removed = {}
    AllowedDeployments = {main, mutiny}
    DefaultDeployment = mutiny
    MainnetBacked = {main}
    MaxRecentActions = 1
    Urls = {url1}
    Times = {1}
    Requests = {q1, q2}
    Renders = {}
    EntryIds = {q1, q2, q3}
    KeyIds = {q1, q2, q3, k0}
    AllowedOrigins = {app}
    DevUnpromptedEnabled = FALSE
    InitialKeys <- KeysOrNone
    Calls <- SwitchAndForms
SPECIFICATION HomeSpec
PROPERTY FormsWriteSelected
