CONSTANTS
    main = main
    mutiny = mutiny
    alpha = alpha
    h1 = h1
    h2 = h2
    h3 = h3
    url1 = url1
    url2 = url2
    site = site
    BadUrl = BadUrl
    None = None
    NoView = NoView
    Deployments <- DeploymentIds
    Removed = {alpha}
    AllowedDeployments = {main, mutiny}
    DefaultDeployment = mutiny
    MaxRecentActions = 2
    Urls = {url1, url2}
    Times = {1, 2}
    Handlers = {h1, h2, h3}
    OldIds <- RecordIds
    Tasks <- AllTasks
    InitialStores <- KnownStores
SPECIFICATION MCSpec
INVARIANTS TypeOK NoLostUpdate MigratedOnceRead
PROPERTIES ImplementsAtomicStore SelectionChangesOnlyBySelect AppendedActionIsVisible MutationsSettle
